------------------------- MODULE UsbFunctionsProofs -------------------------
(***************************************************************************)
(* Proofs about UsbFunctions: the keyboard, the mass storage driver, the   *)
(* LAN adapters and the configurations of devices, at any keyboard,        *)
(* medium, chip, calls and descriptors, and however often transfers fail.  *)
(***************************************************************************)
EXTENDS UsbFunctionsInvariants, SequenceTheorems, FiniteSetTheorems, WellFoundedInduction, TLAPS

\* Each function takes its own steps, or none.
LEMMA KeyboardSteps == (Init => KeyboardInit) /\ ([Next]_functionVars => [KeyboardNext]_keyboardVars)
BY DEF Init, Next, functionVars, keyboardVars

LEMMA StorageSteps == (Init => StorageStarts) /\ ([Next]_functionVars => [StorageNext]_storageVars)
<1>1. StorageInit => StorageStarts
  BY StorageAssumption DEF StorageInit, StorageStarts
<1>2. ASSUME NoStorage PROVE StorageStarts
  <2>1. umsd = NewObject
    BY <1>2 DEF NoStorage
  <2>2. \E type \in {"disk", "other"}, size \in {BlockSize, 2048}, last \in Int,
          obeys \in SUBSET {"reset", "clear1", "clear2"} : drive = NewDrive(type, size, obeys, last)
    <3> WITNESS "other" \in {"disk", "other"}, BlockSize \in {BlockSize, 2048}, -1 \in Int,
                {} \in SUBSET {"reset", "clear1", "clear2"}
    <3> QED
      BY <1>2 DEF NoStorage
  <2>3. QED
    BY <2>1, <2>2 DEF StorageStarts
<1>3. QED
  BY <1>1, <1>2 DEF Init, Next, functionVars, storageVars

-----------------------------------------------------------------------------
(* The key map: row by row what the tables have, and that what the driver   *)
(* makes of a key is what is on it.                                         *)

LEMMA Names ==
  /\ \A c \in DOMAIN Editing : Editing[c] \in EditingNames
  /\ \A c \in DOMAIN Moving : IF c = 71 THEN Moving[c] = "ScrollLock" ELSE Moving[c] \in MovingNames
  /\ \A c \in DOMAIN Operators : IF c = 83 THEN Operators[c] = "NumLock" ELSE Operators[c] \in OperatorNames
  /\ \A c \in DOMAIN KeypadMoves : KeypadMoves[c] \in KeypadNames
  /\ DOMAIN Editing = 40 .. 44 /\ DOMAIN Moving = 70 .. 82 /\ DOMAIN Operators = 83 .. 88
  /\ DOMAIN KeypadMoves = 89 .. 99
<1>1. \A c \in DOMAIN Editing : Editing[c] \in EditingNames
  BY DEF Editing, EditingNames
<1>2. \A c \in DOMAIN Moving : IF c = 71 THEN Moving[c] = "ScrollLock" ELSE Moving[c] \in MovingNames
  BY DEF Moving, MovingNames
<1>3. \A c \in DOMAIN Operators : IF c = 83 THEN Operators[c] = "NumLock" ELSE Operators[c] \in OperatorNames
  BY DEF Operators, OperatorNames
<1>4. \A c \in DOMAIN KeypadMoves : KeypadMoves[c] \in KeypadNames
  BY DEF KeypadMoves, KeypadNames
<1>5. /\ DOMAIN Editing = 40 .. 44 /\ DOMAIN Moving = 70 .. 82 /\ DOMAIN Operators = 83 .. 88
      /\ DOMAIN KeypadMoves = 89 .. 99
  BY DEF Editing, Moving, Operators, KeypadMoves
<1>6. QED
  BY <1>1, <1>2, <1>3, <1>4, <1>5

LEMMA EntryOfSigns ==
  ASSUME NEW code \in Letters \cup Signs, NEW table \in {Normal, Shifted, Alt, AltShifted}
  PROVE  /\ code \in Letters /\ table = Normal => Entry(code, table) = <<"lower", code - 3>>
         /\ code \in Letters /\ table = Shifted => Entry(code, table) = <<"upper", code - 3>>
         /\ Entry(code, table) \in {None, <<"lower", code - 3>>, <<"upper", code - 3>>, Sign(code, table)}
BY DEF Entry, Normal, Shifted, Alt, AltShifted

LEMMA EntryOfSpecials ==
  ASSUME NEW code \in Nat \ (Letters \cup Signs), NEW table \in {Normal, Shifted, Alt, AltShifted}
  PROVE  /\ table \in {Alt, AltShifted} => Entry(code, table) = None
         /\ table \in {Normal, Shifted} /\ code \in 40 .. 44 => Entry(code, table) = Special(Editing[code])
         /\ table \in {Normal, Shifted} /\ code = 57 => Entry(code, table) = Special("CapsLock")
         /\ table \in {Normal, Shifted} /\ code = 101 => Entry(code, table) = Special("Application")
         /\ table \in {Normal, Shifted} /\ code \in 83 .. 88 => Entry(code, table) = Special(Operators[code])
         /\ table = Normal /\ code \in 89 .. 99 => Entry(code, table) = Special(KeypadMoves[code])
         /\ table = Shifted /\ code \in 89 .. 99 => Entry(code, table) = <<"keypad", code - 88>>
         /\ table = Normal /\ code \in Function => Entry(code, table) = <<"F", code - 57>>
         /\ table = Normal /\ code \in 70 .. 82 => Entry(code, table) = Special(Moving[code])
         /\ table = Normal /\ code \notin (40 .. 44) \cup {57, 101} \cup (58 .. 99) => Entry(code, table) = None
         /\ table = Shifted /\ code \notin (40 .. 44) \cup {57, 101} \cup (83 .. 99) => Entry(code, table) = None
<1>1. /\ Normal = 1 /\ Shifted = 2 /\ Alt = 3 /\ AltShifted = 4 /\ Function = 58 .. 69
      /\ DOMAIN Editing = 40 .. 44 /\ DOMAIN Moving = 70 .. 82 /\ DOMAIN Operators = 83 .. 88
      /\ DOMAIN KeypadMoves = 89 .. 99
  BY Names DEF Normal, Shifted, Alt, AltShifted, Function
<1>2. QED
  BY <1>1 DEF Entry

LEMMA SpecialLocks ==
  ASSUME NEW name
  PROVE  SwitchesOf(Special(name)) = {name} \cap Locks
BY DEF SwitchesOf, Special

LEMMA OtherLocks ==
  ASSUME NEW kind \in {"none", "lower", "upper", "sign", "keypad", "F"}, NEW n
  PROVE  SwitchesOf(<<kind, n>>) = {}
BY DEF SwitchesOf, Special, Locks

LEMMA EntryLocks ==
  ASSUME NEW code \in Nat, NEW table \in {Normal, Shifted, Alt, AltShifted}
  PROVE  SwitchesOf(Entry(code, table)) = LockAt(code, table)
<1>0. /\ Normal = 1 /\ Shifted = 2 /\ Alt = 3 /\ AltShifted = 4
      /\ Letters = 4 .. 29 /\ Signs = (30 .. 39) \cup (45 .. 56) \cup {100} /\ Function = 58 .. 69
  BY DEF Normal, Shifted, Alt, AltShifted, Letters, Signs, Function
<1>1. CASE code \in Letters \cup Signs
  <2>1. SwitchesOf(Entry(code, table)) = {}
    BY <1>1, EntryOfSigns, OtherLocks DEF None, Sign
  <2>2. QED
    BY <1>0, <1>1, <2>1 DEF LockAt
<1>2. CASE code \notin Letters \cup Signs /\ table \in {Alt, AltShifted}
  <2>1. Entry(code, table) = None
    BY <1>2, EntryOfSpecials
  <2>2. QED
    BY <1>0, <1>2, <2>1, OtherLocks DEF LockAt, None
<1>3. CASE code \notin Letters \cup Signs /\ table \in {Normal, Shifted}
  <2>1. CASE code \in 40 .. 44
    <3>1. Entry(code, table) = Special(Editing[code])
      BY <1>3, <2>1, EntryOfSpecials
    <3>2. Editing[code] \notin Locks
      BY <2>1, Names DEF EditingNames, Locks
    <3>3. SwitchesOf(Entry(code, table)) = {}
      BY <3>1, <3>2, SpecialLocks
    <3>4. QED
      BY <1>0, <1>3, <2>1, <3>3 DEF LockAt
  <2>2. CASE code = 57 \/ code = 101
    <3>1. Entry(code, table) = Special(IF code = 57 THEN "CapsLock" ELSE "Application")
      BY <1>3, <2>2, EntryOfSpecials
    <3>2. SwitchesOf(Entry(code, table)) = IF code = 57 THEN {"CapsLock"} ELSE {}
      BY <3>1, SpecialLocks DEF Locks
    <3>3. QED
      BY <1>0, <1>3, <2>2, <3>2 DEF LockAt
  <2>3. CASE code \in 83 .. 88
    <3>1. Entry(code, table) = Special(Operators[code])
      BY <1>3, <2>3, EntryOfSpecials
    <3>2. IF code = 83 THEN Operators[code] = "NumLock" ELSE Operators[code] \notin Locks
      BY <2>3, Names DEF OperatorNames, Locks
    <3>3. SwitchesOf(Entry(code, table)) = IF code = 83 THEN {"NumLock"} ELSE {}
      <4>1. CASE code = 83
        BY <4>1, <3>1, <3>2, SpecialLocks DEF Locks
      <4>2. CASE code # 83
        BY <4>2, <3>1, <3>2, SpecialLocks
      <4>3. QED
        BY <4>1, <4>2
    <3>4. QED
      BY <1>0, <1>3, <2>3, <3>3 DEF LockAt
  <2>4. CASE code \in 89 .. 99
    <3>1. Entry(code, table) = IF table = Normal THEN Special(KeypadMoves[code]) ELSE <<"keypad", code - 88>>
      BY <1>3, <2>4, EntryOfSpecials
    <3>2. KeypadMoves[code] \notin Locks
      BY <2>4, Names DEF KeypadNames, Locks
    <3>3. SwitchesOf(Entry(code, table)) = {}
      BY <3>1, <3>2, SpecialLocks, OtherLocks
    <3>4. QED
      BY <1>0, <1>3, <2>4, <3>3 DEF LockAt
  <2>5. CASE table = Normal /\ code \in 58 .. 69
    <3>1. Entry(code, table) = <<"F", code - 57>>
      BY <1>0, <1>3, <2>5, EntryOfSpecials
    <3>2. QED
      BY <1>0, <1>3, <2>5, <3>1, OtherLocks DEF LockAt
  <2>6. CASE table = Normal /\ code \in 70 .. 82
    <3>1. Entry(code, table) = Special(Moving[code])
      BY <1>0, <1>3, <2>6, EntryOfSpecials
    <3>2. IF code = 71 THEN Moving[code] = "ScrollLock" ELSE Moving[code] \notin Locks
      BY <2>6, Names DEF MovingNames, Locks
    <3>3. SwitchesOf(Entry(code, table)) = IF code = 71 THEN {"ScrollLock"} ELSE {}
      <4>1. CASE code = 71
        BY <4>1, <3>1, <3>2, SpecialLocks DEF Locks
      <4>2. CASE code # 71
        BY <4>2, <3>1, <3>2, SpecialLocks
      <4>3. QED
        BY <4>1, <4>2
    <3>4. QED
      BY <1>0, <1>3, <2>6, <3>3 DEF LockAt
  <2>7. CASE \/ code \notin (40 .. 44) \cup {57, 101} \cup (58 .. 99)
             \/ table = Shifted /\ code \notin (40 .. 44) \cup {57, 101} \cup (83 .. 99)
    <3>1. Entry(code, table) = None
      BY <1>3, <2>7, EntryOfSpecials
    <3>2. QED
      BY <1>0, <1>3, <2>7, <3>1, OtherLocks DEF LockAt, None
  <2>8. QED
    BY <1>0, <1>3, <2>1, <2>2, <2>3, <2>4, <2>5, <2>6, <2>7
<1>4. QED
  BY <1>1, <1>2, <1>3

LEMMA LocksAreLabels ==
  ASSUME NEW code \in Nat, NEW modifiers, NEW numLock \in BOOLEAN
  PROVE  SwitchesOf(Translate(code, modifiers, numLock)) = SwitchesOf(LockOn(code, modifiers))
<1> DEFINE table == TableFor(code, modifiers, numLock)
<1>1. CASE AnyOf(modifiers, {"Alt", "Win"})
  BY <1>1 DEF Translate, LockOn, SwitchesOf, Special, None, Locks, AnyOf
<1>2. CASE ~AnyOf(modifiers, {"Alt", "Win"})
  <2>1. Translate(code, modifiers, numLock) = Entry(code, table)
    BY <1>2 DEF Translate, AnyOf
  <2>2. table \in {Normal, Shifted, Alt, AltShifted}
    BY DEF TableFor
  <2>3. SwitchesOf(Entry(code, table)) = LockAt(code, table)
    BY <2>2, EntryLocks
  <2>4. LockAt(code, table) = SwitchesOf(LockOn(code, modifiers))
    BY <1>2 DEF LockAt, SwitchesOf, LockOn, TableFor, Keypad, Special, None, Locks, AnyOf,
      Normal, Shifted, Alt, AltShifted
  <2>5. QED
    BY <2>1, <2>3, <2>4
<1>3. QED
  BY <1>1, <1>2

LEMMA StringOfCharacters ==
  ASSUME NEW kind \in {"lower", "upper", "sign", "keypad"}, NEW n, NEW modifiers, NEW capsLock \in BOOLEAN
  PROVE  StringOf(<<kind, n>>, modifiers, capsLock) =
           IF kind = "keypad" THEN <<kind, n>>
           ELSE IF "Ctrl" \in modifiers THEN (IF kind = "lower" THEN <<"control", n>> ELSE None)
           ELSE IF capsLock /\ kind = "lower" THEN <<"upper", n>>
           ELSE IF capsLock /\ kind = "upper" THEN <<"lower", n>> ELSE <<kind, n>>
<1> DEFINE l == <<kind, n>>
<1>1. l \notin Silent
  BY DEF Silent, None, Special
<1>2. l[1] = kind /\ l[2] = n
  OBVIOUS
<1> HIDE DEF l
<1>3. StringOf(l, modifiers, capsLock) =
           IF kind = "keypad" THEN l
           ELSE IF "Ctrl" \in modifiers THEN (IF kind = "lower" THEN <<"control", n>> ELSE None)
           ELSE IF capsLock /\ kind = "lower" THEN <<"upper", n>>
           ELSE IF capsLock /\ kind = "upper" THEN <<"lower", n>> ELSE l
  BY <1>1, <1>2 DEF StringOf
<1>4. QED
  BY <1>3 DEF l

LEMMA StringOfNames ==
  ASSUME NEW name \in KeypadNames, NEW modifiers, NEW capsLock
  PROVE  StringOf(Special(name), modifiers, capsLock) = Special(name)
<1>1. Special(name) \notin Silent /\ Special(name)[1] = name
  BY DEF Silent, None, Special, KeypadNames
<1>2. QED
  BY <1>1 DEF StringOf, KeypadNames

LEMMA MapIsLabels ==
  ASSUME NEW code \in Nat, NEW modifiers, NEW locks
  PROVE  Meant(code, modifiers, locks) = TypedFor(code, modifiers, locks)
<1> DEFINE numLock == "NumLock" \in locks
           capsLock == "CapsLock" \in locks
           logical == Translate(code, modifiers, numLock)
           table == TableFor(code, modifiers, numLock)
<1>0. /\ Normal = 1 /\ Shifted = 2 /\ Alt = 3 /\ AltShifted = 4
      /\ Letters = 4 .. 29 /\ Signs = (30 .. 39) \cup (45 .. 56) \cup {100} /\ Function = 58 .. 69
      /\ DOMAIN KeypadMoves = 89 .. 99 /\ DOMAIN Moving = 70 .. 82
  BY Names DEF Normal, Shifted, Alt, AltShifted, Letters, Signs, Function
<1>a. ASSUME modifiers \cap {"Alt", "Win"} = {}
      PROVE  logical = Entry(code, table)
  BY <1>a DEF Translate, AnyOf
<1>d. capsLock \in BOOLEAN
  OBVIOUS
<1>b. ASSUME logical[1] \notin {"SelectConsole", "Shutdown"}
      PROVE  TypedFor(code, modifiers, locks) = StringOf(logical, modifiers, capsLock)
  BY <1>b DEF TypedFor
<1>c. ASSUME logical[1] \in {"SelectConsole", "Shutdown"}
      PROVE  TypedFor(code, modifiers, locks) = logical
  BY <1>c DEF TypedFor
<1>1. CASE code \in Letters /\ modifiers \subseteq {"Shift"}
  <2> DEFINE kind == IF "Shift" \in modifiers THEN "upper" ELSE "lower"
  <2>1. table = IF "Shift" \in modifiers THEN Shifted ELSE Normal
    BY <1>0, <1>1 DEF TableFor, Keypad
  <2>2. Entry(code, table) = <<kind, code - 3>>
    BY <1>0, <1>1, <2>1, EntryOfSigns
  <2>3. logical = <<kind, code - 3>>
    BY <1>a, <1>1, <2>2
  <2>4. kind \in {"lower", "upper"} /\ "Ctrl" \notin modifiers /\ (kind = "upper" <=> "Shift" \in modifiers)
    BY <1>1
  <2> HIDE DEF logical, kind, capsLock
  <2>5. TypedFor(code, modifiers, locks) = StringOf(<<kind, code - 3>>, modifiers, capsLock)
    BY <1>b, <2>3, <2>4
  <2>6. StringOf(<<kind, code - 3>>, modifiers, capsLock) =
          <<IF ("Shift" \in modifiers) # capsLock THEN "upper" ELSE "lower", code - 3>>
    <3>1. CASE kind = "lower"
      <4>1. StringOf(<<"lower", code - 3>>, modifiers, capsLock) =
              IF capsLock THEN <<"upper", code - 3>> ELSE <<"lower", code - 3>>
        <5>1. ASSUME NEW n
              PROVE  StringOf(<<"lower", n>>, modifiers, capsLock) =
                       IF capsLock THEN <<"upper", n>> ELSE <<"lower", n>>
          BY <2>4, <1>d, StringOfCharacters, Zenon
        <5>2. QED
          BY <5>1
      <4>2. "Shift" \notin modifiers
        BY <2>4, <3>1
      <4>3. QED
        BY <3>1, <4>1, <4>2, <1>d
    <3>2. CASE kind = "upper"
      <4>1. StringOf(<<"upper", code - 3>>, modifiers, capsLock) =
              IF capsLock THEN <<"lower", code - 3>> ELSE <<"upper", code - 3>>
        BY <2>4, <1>d, StringOfCharacters, ZenonT(40)
      <4>2. "Shift" \in modifiers
        BY <2>4, <3>2
      <4>3. QED
        BY <3>2, <4>1, <4>2, <1>d
    <3>3. QED
      BY <2>4, <3>1, <3>2
  <2>7. Meant(code, modifiers, locks) = <<IF ("Shift" \in modifiers) # capsLock THEN "upper" ELSE "lower", code - 3>>
    BY <1>0, <1>1 DEF Meant, capsLock
  <2>8. QED
    BY <2>5, <2>6, <2>7
<1>2. CASE code \in Letters /\ modifiers = {"Ctrl"}
  <2>1. table = Normal
    BY <1>0, <1>2 DEF TableFor, Keypad
  <2>2. Entry(code, table) = <<"lower", code - 3>>
    BY <1>0, <1>2, <2>1, EntryOfSigns
  <2>3. logical = <<"lower", code - 3>>
    BY <1>a, <1>2, <2>2
  <2> HIDE DEF logical
  <2>4. TypedFor(code, modifiers, locks) = StringOf(<<"lower", code - 3>>, modifiers, capsLock)
    BY <1>b, <2>3
  <2> HIDE DEF capsLock
  <2>5. StringOf(<<"lower", code - 3>>, modifiers, capsLock) = <<"control", code - 3>>
    BY <1>2, <1>d, StringOfCharacters, Zenon
  <2>6. Meant(code, modifiers, locks) = <<"control", code - 3>>
    BY <1>0, <1>2 DEF Meant
  <2>7. QED
    BY <2>4, <2>5, <2>6
<1>3. CASE code \in DOMAIN KeypadMoves /\ modifiers \subseteq {"Shift"}
  <2> DEFINE wanted == IF numLock THEN <<"keypad", code - 88>> ELSE Special(KeypadMoves[code])
  <2>1. table = IF numLock THEN Shifted ELSE Normal
    BY <1>0, <1>3 DEF TableFor, Keypad
  <2>2. Entry(code, table) = wanted
    BY <1>0, <1>3, <2>1, EntryOfSpecials
  <2>3. logical = wanted
    BY <1>a, <1>3, <2>2
  <2>4. KeypadMoves[code] \in KeypadNames
    BY <1>3, Names
  <2>5. wanted[1] \notin {"SelectConsole", "Shutdown"}
    BY <2>4 DEF Special, KeypadNames
  <2> HIDE DEF logical
  <2>6. TypedFor(code, modifiers, locks) = StringOf(wanted, modifiers, capsLock)
    BY <1>b, <2>3, <2>5
  <2> HIDE DEF capsLock
  <2>7. StringOf(wanted, modifiers, capsLock) = wanted
    <3>1. CASE numLock
      BY <3>1, <1>d, StringOfCharacters, ZenonT(40)
    <3>2. CASE ~numLock
      BY <3>2, <2>4, StringOfNames
    <3>3. QED
      BY <3>1, <3>2
  <2>8. Meant(code, modifiers, locks) = wanted
    BY <1>0, <1>3 DEF Meant
  <2>9. QED
    BY <2>6, <2>7, <2>8
<1>4. CASE code \in Function /\ modifiers = {"Alt"}
  <2>1. Entry(code, Normal) = <<"F", code - 57>>
    BY <1>0, <1>4, EntryOfSpecials
  <2>2. logical = <<"SelectConsole", code - 57>>
    BY <1>4, <2>1 DEF Translate, Special
  <2> HIDE DEF logical
  <2>3. TypedFor(code, modifiers, locks) = <<"SelectConsole", code - 57>>
    BY <1>c, <2>2
  <2>4. Meant(code, modifiers, locks) = <<"SelectConsole", code - 57>>
    BY <1>0, <1>4 DEF Meant
  <2>5. QED
    BY <2>3, <2>4
<1>5. CASE code = 76 /\ modifiers = {"Ctrl", "Alt"}
  <2>1. Entry(code, Normal) = Special("Delete")
    <3>1. Entry(code, Normal) = Special(Moving[76])
      BY <1>0, <1>5, EntryOfSpecials
    <3>2. Moving[76] = "Delete"
      BY DEF Moving
    <3>3. QED
      BY <3>1, <3>2
  <2>2. logical = Special("Shutdown")
    BY <1>5, <2>1 DEF Translate
  <2> HIDE DEF logical
  <2>3. TypedFor(code, modifiers, locks) = Special("Shutdown")
    BY <1>c, <2>2 DEF Special
  <2>4. Meant(code, modifiers, locks) = Special("Shutdown")
    BY <1>0, <1>5 DEF Meant
  <2>5. QED
    BY <2>3, <2>4
<1>6. CASE /\ ~(code \in Letters /\ modifiers \subseteq {"Shift"})
           /\ ~(code \in Letters /\ modifiers = {"Ctrl"})
           /\ ~(code \in DOMAIN KeypadMoves /\ modifiers \subseteq {"Shift"})
           /\ ~(code \in Function /\ modifiers = {"Alt"})
           /\ ~(code = 76 /\ modifiers = {"Ctrl", "Alt"})
  <2>1. Meant(code, modifiers, locks) = StringOf(logical, modifiers, capsLock)
    BY <1>6 DEF Meant
  <2>2. ASSUME logical[1] \in {"SelectConsole", "Shutdown"}
        PROVE  StringOf(logical, modifiers, capsLock) = logical
    BY <2>2 DEF StringOf, Silent, Special, None
  <2>3. QED
    BY <2>1, <2>2 DEF TypedFor
<1>7. QED
  BY <1>1, <1>2, <1>3, <1>4, <1>5, <1>6

-----------------------------------------------------------------------------
(* The keyboard.                                                            *)

\* A lock that is switched stays one of the locks.
LEMMA SwitchedLocks ==
  ASSUME NEW locks \in SUBSET Locks, NEW logical
  PROVE  /\ Switched(locks, logical) \in SUBSET Locks
         /\ SwitchesOf(logical) = {} => Switched(locks, logical) = locks
BY DEF Switched, SwitchesOf

LEMMA MeaningsAreTyped ==
  ASSUME NEW code \in KeyCodes, NEW modifiers \in Modifiers, NEW locks \in SUBSET Locks
  PROVE  Meant(code, modifiers, locks) \in Meanings
BY DEF Meanings

LEMMA KeyboardTypeInit == KeyboardInit => KeyboardTypeOK
BY DEF KeyboardInit, KeyboardTypeOK, NewKeyboard, NewKeys, Keyboards, KeyStates, Locks, Modifiers

\* A key event adds to what is typed what is on the key, if there is a handler for it.
LEMMA KeyEventTyped ==
  ASSUME KeyboardTypeOK, NEW code \in KeyCodes \cup {0}, NEW modifiers \in Modifiers
  PROVE  KeyEvent(code, modifiers) =
           IF code # 0 /\ Heard(Meant(code, modifiers, kbd.locks))
           THEN <<Meant(code, modifiers, kbd.locks)>> ELSE <<>>
<1>1. code \in Nat
  BY KeyCodesAssumption
<1>2. Meant(code, modifiers, kbd.locks) = TypedFor(code, modifiers, kbd.locks)
  BY <1>1, MapIsLabels
<1>3. QED
  BY <1>2 DEF KeyEvent, TypedFor

\* Releasing a key leaves the others held.
LEMMA RemovedIsTyped ==
  ASSUME NEW S, NEW s \in Seq(S), NEW i \in DOMAIN s
  PROVE  /\ RemoveAt(s, i) \in Seq(S)
         /\ Len(RemoveAt(s, i)) = Len(s) - 1
         /\ i = 1 => RemoveAt(s, i) = Tail(s)
<1>1. i \in 1 .. Len(s)
  OBVIOUS
<1>2. SubSeq(s, 1, i - 1) \in Seq(S) /\ Len(SubSeq(s, 1, i - 1)) = i - 1
  BY <1>1
<1>3. SubSeq(s, i + 1, Len(s)) \in Seq(S) /\ Len(SubSeq(s, i + 1, Len(s))) = Len(s) - i
  BY <1>1
<1>4. RemoveAt(s, i) \in Seq(S) /\ Len(RemoveAt(s, i)) = Len(s) - 1
  <2> DEFINE before == SubSeq(s, 1, i - 1)
             after == SubSeq(s, i + 1, Len(s))
  <2>1. /\ before \in Seq(S) /\ after \in Seq(S)
        /\ Len(before) = i - 1 /\ Len(after) = Len(s) - i /\ Len(s) \in Nat
        /\ RemoveAt(s, i) = before \o after
    BY <1>2, <1>3 DEF RemoveAt
  <2> HIDE DEF before, after
  <2>2. before \o after \in Seq(S) /\ Len(before \o after) = Len(before) + Len(after)
    BY <2>1, ConcatProperties
  <2>3. QED
    BY <1>1, <2>1, <2>2
<1>5. ASSUME i = 1
      PROVE  RemoveAt(s, i) = Tail(s)
  <2>1. s # <<>>
    BY <1>1
  <2>2. Tail(s) = SubSeq(s, 2, Len(s))
    BY <2>1, TailIsSubSeq
  <2>3. SubSeq(s, 1, 0) = <<>>
    BY SubSeqEmpty
  <2>4. QED
    BY <1>3, <1>5, <2>2, <2>3 DEF RemoveAt
<1>6. QED
  BY <1>4, <1>5

\* The actions of the keyboard and its driver, case by case.
LEMMA KeyboardCases ==
  ASSUME KeyboardNext
  PROVE  \/ \E done \in BOOLEAN : SetProtocol(done) \/ FirstLEDs(done) \/ Start(done) \/ LEDsSet(done)
         \/ \E handlers \in HandlerSets : Register(handlers)
         \/ \E code \in KeyCodes : Press(code)
         \/ \E i \in 1 .. MaxHeld : Release(i)
         \/ \E modifiers \in Chords : Hold(modifiers)
         \/ \E received, restarted \in BOOLEAN : Completed(received, restarted)
         \/ UpdateLEDs
BY DEF KeyboardNext

LEMMA KeyboardTypeNext ==
  ASSUME KeyboardTypeOK, [KeyboardNext]_keyboardVars
  PROVE  KeyboardTypeOK'
<1> USE DEF KeyboardTypeOK
<1>1. ASSUME NEW done \in BOOLEAN, SetProtocol(done) \/ FirstLEDs(done) \/ Start(done) \/ LEDsSet(done)
      PROVE  KeyboardTypeOK'
  <2>1. ASSUME NEW mask \in SUBSET Locks
        PROVE  SetLEDs(mask, done) \in KeyStates
    BY <2>1 DEF SetLEDs, KeyStates
  <2>2. CASE SetProtocol(done)
    BY <2>2 DEF SetProtocol, Keyboards
  <2>3. CASE FirstLEDs(done)
    BY <2>1, <2>3 DEF FirstLEDs, Keyboards
  <2>4. CASE Start(done)
    BY <2>4 DEF Start, Keyboards
  <2>5. CASE LEDsSet(done)
    BY <2>1, <2>5 DEF LEDsSet, StatusSet, Keyboards
  <2>6. QED
    BY <1>1, <2>2, <2>3, <2>4, <2>5
<1>2. ASSUME NEW handlers \in HandlerSets, Register(handlers)
      PROVE  KeyboardTypeOK'
  BY <1>2 DEF Register, Keyboards
<1>3. ASSUME NEW code \in KeyCodes, Press(code)
      PROVE  KeyboardTypeOK'
  <2> DEFINE meant == Meant(code, keys.modifiers, keys.locks)
             locks == Switched(keys.locks, IF "raw" \in kbd.handlers THEN None ELSE LockOn(code, keys.modifiers))
             expected == IF Heard(meant) THEN Append(keys.expected, meant) ELSE keys.expected
             report == [modifiers |-> keys.modifiers, held |-> Append(keys.held, code)]
  <2>1. /\ keys' = [keys EXCEPT !.held = Append(@, code), !.presses = @ + 1, !.expected = expected,
                                !.locks = locks, !.reports = Append(@, report)]
        /\ kbd' = kbd
    BY <1>3 DEF Press, Report, KeyStates
  <2>2. meant \in Meanings
    BY MeaningsAreTyped DEF KeyStates
  <2>3. locks \in SUBSET Locks
    BY SwitchedLocks DEF KeyStates
  <2>4. report \in SentReports
    BY DEF SentReports, KeyStates
  <2> HIDE DEF meant, locks, report
  <2>5. /\ Append(keys.reports, report) \in Seq(SentReports)
        /\ Append(keys.held, code) \in Seq(KeyCodes)
        /\ expected \in Seq(Meanings)
        /\ keys.presses + 1 \in Nat
    BY <2>2, <2>4 DEF KeyStates
  <2> HIDE DEF expected
  <2>6. keys' \in KeyStates
    BY <2>1, <2>3, <2>5 DEF KeyStates
  <2>7. QED
    BY <2>1, <2>6
<1>4. ASSUME NEW i \in 1 .. MaxHeld, Release(i)
      PROVE  KeyboardTypeOK'
  <2> DEFINE held == RemoveAt(keys.held, i)
             report == [modifiers |-> keys.modifiers, held |-> held]
  <2>1. /\ keys' = [keys EXCEPT !.held = held, !.tidy = @ /\ i = 1, !.reports = Append(@, report)]
        /\ kbd' = kbd /\ i \in DOMAIN keys.held
    BY <1>4 DEF Release, Report, KeyStates
  <2>2. held \in Seq(KeyCodes)
    BY <2>1, RemovedIsTyped DEF KeyStates
  <2>3. report \in SentReports
    BY <2>2 DEF SentReports, KeyStates
  <2> HIDE DEF held, report
  <2>4. Append(keys.reports, report) \in Seq(SentReports)
    BY <2>3 DEF KeyStates
  <2>5. keys' \in KeyStates
    BY <2>1, <2>2, <2>4 DEF KeyStates
  <2>6. QED
    BY <2>1, <2>5
<1>5. ASSUME NEW modifiers \in Chords, Hold(modifiers)
      PROVE  KeyboardTypeOK'
  <2> DEFINE report == [modifiers |-> modifiers, held |-> keys.held]
  <2>1. /\ keys' = [keys EXCEPT !.modifiers = modifiers, !.reports = Append(@, report)]
        /\ kbd' = kbd
    BY <1>5 DEF Hold, Report, KeyStates
  <2>2. report \in SentReports
    BY DEF SentReports, KeyStates, Modifiers
  <2> HIDE DEF report
  <2>3. Append(keys.reports, report) \in Seq(SentReports)
    BY <2>2 DEF KeyStates
  <2>4. keys' \in KeyStates
    BY <2>1, <2>3 DEF KeyStates, Modifiers
  <2>5. QED
    BY <2>1, <2>4
<1>6. ASSUME NEW received \in BOOLEAN, NEW restarted \in BOOLEAN, Completed(received, restarted)
      PROVE  KeyboardTypeOK'
  <2> DEFINE report == Head(keys.reports)
             code == NewKeyCode(report)
             logical == IF code = 0 THEN None ELSE Translate(code, report.modifiers, "NumLock" \in kbd.locks)
             typed == keys.typed \o KeyEvent(code, report.modifiers)
  <2>1. report \in SentReports /\ Tail(keys.reports) \in Seq(SentReports)
    BY <1>6 DEF Completed, KeyStates
  <2>2. GetKeyCode(report) \in KeyCodes \cup {0} /\ code \in KeyCodes \cup {0}
    BY <2>1 DEF NewKeyCode, GetKeyCode, Last, SentReports
  <2>3. typed \in Seq(Meanings)
    <3>1. Meant(code, report.modifiers, kbd.locks) \in Meanings \/ code = 0
      BY <2>1, <2>2, MeaningsAreTyped DEF Keyboards, SentReports
    <3>2. report.modifiers \in Modifiers
      BY <2>1 DEF SentReports
    <3> HIDE DEF code, report
    <3>3. KeyEvent(code, report.modifiers) \in Seq(Meanings)
      <4>1. CASE code # 0 /\ Heard(Meant(code, report.modifiers, kbd.locks))
        <5>1. KeyEvent(code, report.modifiers) = <<Meant(code, report.modifiers, kbd.locks)>>
          BY <2>2, <3>2, <4>1, KeyEventTyped
        <5>2. QED
          BY <3>1, <4>1, <5>1
      <4>2. CASE ~(code # 0 /\ Heard(Meant(code, report.modifiers, kbd.locks)))
        <5>1. KeyEvent(code, report.modifiers) = <<>>
          BY <2>2, <3>2, <4>2, KeyEventTyped
        <5>2. QED
          BY <5>1
      <4>3. QED
        BY <4>1, <4>2
    <3>4. QED
      BY <3>3, ConcatProperties DEF KeyStates
  <2>4. Switched(kbd.locks, logical) \in SUBSET Locks
    BY SwitchedLocks DEF Keyboards
  <2>5. \/ /\ keys' = [keys EXCEPT !.reports = Tail(@), !.tidy = FALSE]
           /\ kbd' = [kbd EXCEPT !.running = restarted]
        \/ /\ keys' = [keys EXCEPT !.reports = Tail(@)]
           /\ kbd' = [kbd EXCEPT !.running = restarted]
        \/ /\ keys' = [keys EXCEPT !.reports = Tail(@), !.typed = typed,
                                    !.unseen = @ \/ SwitchesOf(logical) # {}]
           /\ kbd' = [kbd EXCEPT !.m_ucLastPhyCode = GetKeyCode(report),
                                 !.locks = Switched(@, logical), !.running = restarted]
    BY <1>6 DEF Completed, KeyStates
  <2>6. keys.reports \in Seq(SentReports) /\ keys.unseen \in BOOLEAN
    BY DEF KeyStates
  <2> DEFINE unseen == keys.unseen \/ SwitchesOf(logical) # {}
  <2>7. unseen \in BOOLEAN
    OBVIOUS
  <2> HIDE DEF report, code, logical, typed, unseen
  <2>8. CASE /\ keys' = [keys EXCEPT !.reports = Tail(@), !.tidy = FALSE]
             /\ kbd' = [kbd EXCEPT !.running = restarted]
    BY <2>1, <2>8 DEF KeyStates, Keyboards
  <2>9. CASE /\ keys' = [keys EXCEPT !.reports = Tail(@)]
             /\ kbd' = [kbd EXCEPT !.running = restarted]
    BY <2>1, <2>9 DEF KeyStates, Keyboards
  <2>10. CASE /\ keys' = [keys EXCEPT !.reports = Tail(@), !.typed = typed, !.unseen = unseen]
              /\ kbd' = [kbd EXCEPT !.m_ucLastPhyCode = GetKeyCode(report),
                                    !.locks = Switched(@, logical), !.running = restarted]
    <3>1. keys' \in KeyStates
      BY <2>1, <2>3, <2>7, <2>10 DEF KeyStates
    <3>2. kbd' \in Keyboards
      BY <2>2, <2>4, <2>10 DEF Keyboards
    <3>3. QED
      BY <3>1, <3>2
  <2>11. QED
    BY <2>5, <2>8, <2>9, <2>10 DEF unseen
<1>7. CASE UpdateLEDs
  BY <1>7 DEF UpdateLEDs, Keyboards, KeyStates
<1>8. CASE UNCHANGED keyboardVars
  BY <1>8 DEF keyboardVars
<1>9. QED
  BY <1>1, <1>2, <1>3, <1>4, <1>5, <1>6, <1>7, <1>8, KeyboardCases

\* The object and the keyboard are always what they may be.
THEOREM KeyboardTypeCorrect == Spec => []KeyboardTypeOK
<1>1. Init => KeyboardTypeOK
  BY KeyboardSteps, KeyboardTypeInit
<1>2. KeyboardTypeOK /\ [Next]_functionVars => KeyboardTypeOK'
  BY KeyboardSteps, KeyboardTypeNext
<1>3. QED
  BY <1>1, <1>2, PTL DEF Spec

-----------------------------------------------------------------------------
(* The LEDs.                                                                *)

LEMMA LedsInit == KeyboardInit => LedsInv
BY DEF KeyboardInit, NewKeyboard, NewKeys, LedsInv

LEMMA LedsNext ==
  ASSUME KeyboardTypeOK, LedsInv, [KeyboardNext]_keyboardVars
  PROVE  LedsInv'
<1> USE DEF KeyboardTypeOK, LedsInv, Keyboards, KeyStates
<1>1. ASSUME NEW done \in BOOLEAN, SetProtocol(done) \/ FirstLEDs(done) \/ Start(done) \/ LEDsSet(done)
      PROVE  LedsInv'
  <2>1. CASE SetProtocol(done)
    BY <2>1 DEF SetProtocol
  <2>2. CASE FirstLEDs(done)
    BY <2>2 DEF FirstLEDs, SetLEDs
  <2>3. CASE Start(done)
    BY <2>3 DEF Start
  <2>4. CASE LEDsSet(done)
    BY <2>4 DEF LEDsSet, SetLEDs, StatusSet
  <2>5. QED
    BY <1>1, <2>1, <2>2, <2>3, <2>4
<1>2. ASSUME NEW handlers \in HandlerSets, Register(handlers)
      PROVE  LedsInv'
  BY <1>2 DEF Register
<1>3. ASSUME NEW code \in KeyCodes, Press(code)
      PROVE  LedsInv'
  BY <1>3 DEF Press, Report
<1>4. ASSUME NEW i \in 1 .. MaxHeld, Release(i)
      PROVE  LedsInv'
  BY <1>4 DEF Release, Report
<1>5. ASSUME NEW modifiers \in Chords, Hold(modifiers)
      PROVE  LedsInv'
  BY <1>5 DEF Hold, Report
<1>6. ASSUME NEW received \in BOOLEAN, NEW restarted \in BOOLEAN, Completed(received, restarted)
      PROVE  LedsInv'
  <2> DEFINE report == Head(keys.reports)
             code == NewKeyCode(report)
             logical == IF code = 0 THEN None ELSE Translate(code, report.modifiers, "NumLock" \in kbd.locks)
  <2>1. /\ keys'.leds = keys.leds /\ keys'.refused = keys.refused
        /\ kbd'.pc = kbd.pc /\ kbd'.setting = kbd.setting /\ kbd'.m_ucLastLEDStatus = kbd.m_ucLastLEDStatus
        /\ \/ kbd'.locks = kbd.locks /\ keys'.unseen = keys.unseen
           \/ /\ kbd'.locks = Switched(kbd.locks, logical)
              /\ keys'.unseen = (keys.unseen \/ SwitchesOf(logical) # {})
    <3> DEFINE rest == [keys EXCEPT !.reports = Tail(@)]
               typed == keys.typed \o KeyEvent(code, report.modifiers)
    <3>1. \/ /\ keys' = [rest EXCEPT !.tidy = FALSE]
             /\ kbd' = [kbd EXCEPT !.running = restarted]
          \/ /\ keys' = rest
             /\ kbd' = [kbd EXCEPT !.running = restarted]
          \/ /\ keys' = [rest EXCEPT !.typed = rest.typed \o KeyEvent(code, report.modifiers),
                                      !.unseen = rest.unseen \/ SwitchesOf(logical) # {}]
             /\ kbd' = [kbd EXCEPT !.m_ucLastPhyCode = GetKeyCode(report),
                                   !.locks = Switched(kbd.locks, logical), !.running = restarted]
      BY <1>6 DEF Completed, KeyboardTypeOK, KeyStates, Keyboards
    <3>2. rest.leds = keys.leds /\ rest.refused = keys.refused /\ rest.unseen = keys.unseen
      BY DEF KeyboardTypeOK, KeyStates
    <3>3. DOMAIN rest = DOMAIN keys /\ "unseen" \in DOMAIN keys
      BY DEF KeyboardTypeOK, KeyStates
    <3>4. "locks" \in DOMAIN kbd /\ "pc" \in DOMAIN kbd
      BY DEF KeyboardTypeOK, Keyboards
    <3> HIDE DEF report, code, logical, rest
    <3>5. CASE keys' = [rest EXCEPT !.tidy = FALSE] /\ kbd' = [kbd EXCEPT !.running = restarted]
      BY <3>2, <3>3, <3>4, <3>5
    <3>6. CASE keys' = rest /\ kbd' = [kbd EXCEPT !.running = restarted]
      BY <3>2, <3>3, <3>4, <3>6
    <3>7. CASE /\ keys' = [rest EXCEPT !.typed = rest.typed \o KeyEvent(code, report.modifiers),
                                       !.unseen = rest.unseen \/ SwitchesOf(logical) # {}]
               /\ kbd' = [kbd EXCEPT !.m_ucLastPhyCode = GetKeyCode(report),
                                     !.locks = Switched(kbd.locks, logical), !.running = restarted]
      <4> DEFINE turned   == SwitchesOf(logical) # {}
                 switched == Switched(kbd.locks, logical)
      <4>1. /\ keys' = [rest EXCEPT !.typed = rest.typed \o KeyEvent(code, report.modifiers),
                                    !.unseen = rest.unseen \/ turned]
            /\ kbd' = [kbd EXCEPT !.m_ucLastPhyCode = GetKeyCode(report), !.locks = switched,
                                  !.running = restarted]
        BY <3>7
      <4> HIDE DEF turned, switched
      <4>2. /\ keys'.leds = keys.leds /\ keys'.refused = keys.refused
            /\ kbd'.pc = kbd.pc /\ kbd'.setting = kbd.setting
            /\ kbd'.m_ucLastLEDStatus = kbd.m_ucLastLEDStatus /\ kbd'.locks = switched
            /\ keys'.unseen = (keys.unseen \/ turned)
        BY <3>2, <3>3, <3>4, <4>1
      <4>3. QED
        BY <4>2 DEF turned, switched
    <3>8. QED
      BY <3>1, <3>5, <3>6, <3>7
  <2>2. SwitchesOf(logical) = {} => Switched(kbd.locks, logical) = kbd.locks
    BY SwitchedLocks
  <2>3. QED
    BY <2>1, <2>2
<1>7. CASE UpdateLEDs
  BY <1>7 DEF UpdateLEDs
<1>8. CASE UNCHANGED keyboardVars
  BY <1>8 DEF keyboardVars
<1>9. QED
  BY <1>1, <1>2, <1>3, <1>4, <1>5, <1>6, <1>7, <1>8, KeyboardCases

(***************************************************************************)
(* The LEDs show the locks after UpdateLEDs, also when the interrupt turns *)
(* a lock while the message is under way.                                  *)
(***************************************************************************)
THEOREM LedsAlwaysFollow == Spec => []LedsFollowLocks
<1>1. Init => LedsInv
  BY KeyboardSteps, LedsInit
<1>2. KeyboardTypeOK /\ LedsInv /\ [Next]_functionVars => LedsInv'
  BY KeyboardSteps, LedsNext
<1>3. LedsInv => LedsFollowLocks
  BY DEF LedsInv, LedsFollowLocks
<1>4. QED
  BY <1>1, <1>2, <1>3, KeyboardTypeCorrect, PTL DEF Spec

-----------------------------------------------------------------------------
(* What is typed.                                                           *)

LEMMA HeededIsState ==
  ASSUME NEW handlers, NEW s \in DriverStates, NEW report \in SentReports
  PROVE  /\ GetKeyCode(report) \in KeyCodes \cup {0}
         /\ Heeded(handlers, s, report) \in DriverStates
         /\ Begins(s.typed, Heeded(handlers, s, report).typed)
<1> DEFINE code == GetKeyCode(report)
           meant == Meant(code, report.modifiers, s.locks)
           locks == Switched(s.locks, LockOn(code, report.modifiers))
           typed == IF Handled(handlers, meant) THEN Append(s.typed, meant) ELSE s.typed
<1>1. code \in KeyCodes \cup {0}
  BY DEF GetKeyCode, Last, SentReports
<1>2. s.typed \in Seq(Meanings) /\ s.locks \in SUBSET Locks
  BY DEF DriverStates
<1>3. CASE code \in {0, s.last}
  <2>1. Heeded(handlers, s, report) = [s EXCEPT !.last = code]
    BY <1>3 DEF Heeded
  <2> HIDE DEF code
  <2>2. QED
    BY <1>1, <2>1 DEF DriverStates, Begins, code
<1>4. CASE code \notin {0, s.last}
  <2>1. Heeded(handlers, s, report) = [last |-> code, locks |-> locks, typed |-> typed]
    BY <1>4 DEF Heeded
  <2>2. locks \in SUBSET Locks
    BY <1>2, SwitchedLocks
  <2>3. meant \in Meanings
    BY <1>1, <1>2, <1>4, MeaningsAreTyped DEF SentReports
  <2> HIDE DEF meant, code
  <2>4. typed \in Seq(Meanings) /\ Begins(s.typed, typed)
    BY <1>2, <2>3 DEF Begins
  <2> HIDE DEF locks, typed
  <2>5. QED
    BY <1>1, <2>1, <2>2, <2>4 DEF DriverStates, code
<1>5. QED
  BY <1>3, <1>4

\* Another report makes the trace longer.
LEMMA TraceGrows ==
  ASSUME NEW handlers, NEW first, NEW last \in DriverStates, NEW reports \in Seq(SentReports),
         NEW report \in SentReports, NEW f, IsTrace(f, handlers, first, reports, last)
  PROVE  IsTrace(Append(f, Heeded(handlers, last, report)), handlers, first, Append(reports, report),
                 Heeded(handlers, last, report))
<1> DEFINE next == Heeded(handlers, last, report)
           g == Append(f, next)
           sent == Append(reports, report)
<1>1. next \in DriverStates /\ Begins(last.typed, next.typed)
  BY HeededIsState
<1>2. /\ f \in Seq(DriverStates) /\ Len(f) = Len(reports) + 1 /\ Len(reports) \in Nat
      /\ f[1] = first /\ f[Len(f)] = last
  BY DEF IsTrace
<1>3. \A i \in 1 .. Len(reports) : f[i + 1] = Heeded(handlers, f[i], reports[i])
  BY DEF IsTrace
<1>4. \A i \in 1 .. Len(f) : Begins(f[i].typed, last.typed)
  BY DEF IsTrace
<1> HIDE DEF next
<1>5. g \in Seq(DriverStates) /\ Len(g) = Len(f) + 1 /\ g[Len(g)] = next
  BY <1>1, <1>2
<1>6. \A i \in 1 .. Len(f) : g[i] = f[i]
  BY <1>1, <1>2
<1>7. Len(sent) = Len(reports) + 1 /\ sent[Len(sent)] = report
  OBVIOUS
<1>8. \A i \in 1 .. Len(reports) : sent[i] = reports[i]
  OBVIOUS
<1> HIDE DEF g, sent
<1>9. ASSUME NEW i \in 1 .. Len(sent)
      PROVE  g[i + 1] = Heeded(handlers, g[i], sent[i])
  <2>1. CASE i = Len(sent)
    BY <2>1, <1>2, <1>5, <1>6, <1>7 DEF next
  <2>2. CASE i # Len(sent)
    <3>1. i \in 1 .. Len(reports) /\ i \in 1 .. Len(f) /\ i + 1 \in 1 .. Len(f)
      BY <2>2, <1>2, <1>7
    <3>2. QED
      BY <3>1, <1>3, <1>6, <1>8
  <2>3. QED
    BY <2>1, <2>2
<1>10. ASSUME NEW i \in 1 .. Len(g)
       PROVE  Begins(g[i].typed, next.typed)
  <2>1. CASE i = Len(g)
    BY <1>5, <2>1 DEF Begins
  <2>2. CASE i # Len(g)
    <3>1. i \in 1 .. Len(f)
      BY <1>2, <1>5, <2>2
    <3>2. Begins(f[i].typed, last.typed) /\ g[i] = f[i]
      BY <1>4, <1>6, <3>1
    <3>3. f[i] \in DriverStates
      BY <1>2, <3>1
    <3>4. f[i].typed \in Seq(Meanings) /\ last.typed \in Seq(Meanings) /\ next.typed \in Seq(Meanings)
      BY <1>1, <3>3 DEF DriverStates
    <3>5. QED
      BY <1>1, <3>2, <3>4 DEF Begins
  <2>3. QED
    BY <2>1, <2>2
<1>11. g[1] = first
  BY <1>2, <1>6
<1>12. IsTrace(g, handlers, first, sent, next)
  BY <1>2, <1>5, <1>7, <1>9, <1>10, <1>11 DEF IsTrace
<1>13. QED
  BY <1>12 DEF g, sent, next

\* The driver makes the first step of the trace.
LEMMA TraceShrinks ==
  ASSUME NEW handlers, NEW first, NEW last, NEW reports \in Seq(SentReports), reports # <<>>,
         NEW f, IsTrace(f, handlers, first, reports, last)
  PROVE  IsTrace(Tail(f), handlers, Heeded(handlers, first, Head(reports)), Tail(reports), last)
<1> DEFINE g == Tail(f)
           rest == Tail(reports)
<1>1. /\ f \in Seq(DriverStates) /\ Len(f) = Len(reports) + 1 /\ Len(reports) \in Nat \ {0}
      /\ f[1] = first /\ f[Len(f)] = last
  BY DEF IsTrace
<1>2. \A i \in 1 .. Len(reports) : f[i + 1] = Heeded(handlers, f[i], reports[i])
  BY DEF IsTrace
<1>3. \A i \in 1 .. Len(f) : Begins(f[i].typed, last.typed)
  BY DEF IsTrace
<1>4. /\ g \in Seq(DriverStates) /\ Len(g) = Len(f) - 1
      /\ \A i \in 1 .. Len(g) : g[i] = f[i + 1]
  BY <1>1
<1>5. Len(rest) = Len(reports) - 1 /\ \A i \in 1 .. Len(rest) : rest[i] = reports[i + 1]
  BY <1>1
<1>6. Head(reports) = reports[1]
  BY <1>1
<1> HIDE DEF g, rest
<1>7. g[1] = Heeded(handlers, first, Head(reports)) /\ g[Len(g)] = last
  BY <1>1, <1>2, <1>4, <1>6
<1>8. \A i \in 1 .. Len(rest) : g[i + 1] = Heeded(handlers, g[i], rest[i])
  BY <1>1, <1>2, <1>4, <1>5, SMTT(30)
<1>9. \A i \in 1 .. Len(g) : Begins(g[i].typed, last.typed)
  <2>1. Len(g) \in Nat /\ Len(f) = Len(g) + 1
    BY <1>1, <1>4
  <2>2. \A i \in 1 .. Len(g) : i + 1 \in 1 .. Len(f)
    BY <2>1
  <2>3. QED
    BY <1>3, <1>4, <2>2
<1>10. IsTrace(g, handlers, Heeded(handlers, first, Head(reports)), rest, last)
  BY <1>1, <1>4, <1>5, <1>7, <1>8, <1>9 DEF IsTrace
<1>11. QED
  BY <1>10 DEF g, rest

LEMMA TypingInit == KeyboardInit => TypingInv
<1> SUFFICES ASSUME KeyboardInit PROVE TypingInv
  OBVIOUS
<1> DEFINE s == [last |-> 0, locks |-> {"NumLock"}, typed |-> <<>>]
           f == <<s>>
<1>1. DriverNow = s /\ DriverThen = s /\ keys.reports = <<>>
  BY DEF KeyboardInit, NewKeyboard, NewKeys, DriverNow, DriverThen, CodeOf
<1>2. s \in DriverStates /\ Begins(s.typed, s.typed)
  BY DEF DriverStates, Locks, Begins
<1> HIDE DEF s
<1>3. f \in Seq(DriverStates) /\ Len(f) = 1 /\ f[1] = s
  BY <1>2
<1> HIDE DEF f
<1>4. IsTrace(f, kbd.handlers, DriverNow, keys.reports, DriverThen)
  BY <1>1, <1>2, <1>3 DEF IsTrace
<1>5. TraceInv
  BY <1>4 DEF TraceInv
<1>6. QuietInv /\ RawInv
  BY DEF KeyboardInit, NewKeyboard, NewKeys, QuietInv, RawInv
<1>7. QED
  BY <1>5, <1>6 DEF TypingInv

\* Steps that leave alone what has to do with typing.
LEMMA TypingUntouched ==
  ASSUME TypingInv,
         kbd'.m_ucLastPhyCode = kbd.m_ucLastPhyCode, kbd'.locks = kbd.locks, kbd'.handlers = kbd.handlers,
         keys'.typed = keys.typed, keys'.expected = keys.expected, keys'.locks = keys.locks,
         keys'.held = keys.held, keys'.reports = keys.reports, keys'.presses = keys.presses,
         keys'.tidy = keys.tidy
  PROVE  TypingInv'
<1>1. DriverNow' = DriverNow /\ DriverThen' = DriverThen
  BY DEF DriverNow, DriverThen
<1>2. QuietInv' /\ RawInv'
  BY DEF TypingInv, QuietInv, RawInv
<1>3. TraceInv'
  BY <1>1 DEF TypingInv, TraceInv
<1>4. QED
  BY <1>2, <1>3 DEF TypingInv

LEMMA DriversAreTyped ==
  ASSUME KeyboardTypeOK
  PROVE  DriverNow \in DriverStates /\ DriverThen \in DriverStates
<1>1. CodeOf(keys.held) \in KeyCodes \cup {0}
  BY DEF KeyboardTypeOK, KeyStates, CodeOf, Last
<1>2. QED
  BY <1>1 DEF KeyboardTypeOK, KeyStates, Keyboards, DriverNow, DriverThen, DriverStates

\* Without a code a report changes nothing but the code.
LEMMA NoCodeHeeded ==
  ASSUME NEW handlers, NEW s \in DriverStates, NEW report,
         GetKeyCode(report) \in {0, s.last}
  PROVE  Heeded(handlers, s, report) = [last |-> GetKeyCode(report), locks |-> s.locks, typed |-> s.typed]
BY DEF Heeded, DriverStates

\* The report of what is held now.
LEMMA CodeReported ==
  ASSUME NEW held, NEW modifiers
  PROVE  GetKeyCode([modifiers |-> modifiers, held |-> held]) = CodeOf(held)
BY DEF GetKeyCode, CodeOf

\* A key that is released, or a modifier, is a report that types nothing.
LEMMA TypingReported ==
  ASSUME KeyboardTypeOK, TypingInv, NEW held \in Seq(KeyCodes), NEW modifiers \in Modifiers,
         keys'.tidy => CodeOf(held) \in {0, CodeOf(keys.held)},
         keys.presses = 0 => held = <<>>,
         kbd' = kbd,
         keys'.typed = keys.typed, keys'.expected = keys.expected, keys'.locks = keys.locks,
         keys'.held = held, keys'.presses = keys.presses, keys'.tidy => keys.tidy,
         keys'.reports = Append(keys.reports, [modifiers |-> modifiers, held |-> held])
  PROVE  TypingInv'
<1> DEFINE report == [modifiers |-> modifiers, held |-> held]
<1>1. report \in SentReports /\ report.held = held /\ GetKeyCode(report) = CodeOf(held)
  BY CodeReported DEF SentReports
<1>2. keys.reports \in Seq(SentReports)
  BY DEF KeyboardTypeOK, KeyStates
<1> HIDE DEF report
<1>3. keys'.reports = Append(keys.reports, report)
  BY DEF report
<1>4. QuietInv'
  BY <1>1, <1>2, <1>3 DEF TypingInv, QuietInv
<1>5. RawInv'
  BY DEF TypingInv, RawInv
<1>6. ASSUME keys'.tidy, "raw" \notin kbd.handlers
      PROVE  \E f : IsTrace(f, kbd.handlers, DriverNow, Append(keys.reports, report), DriverThen')
  <2>1. PICK f : IsTrace(f, kbd.handlers, DriverNow, keys.reports, DriverThen)
    BY <1>6 DEF TypingInv, TraceInv
  <2>2. DriverThen \in DriverStates /\ DriverThen.last = CodeOf(keys.held)
    BY DriversAreTyped DEF DriverThen
  <2>3. GetKeyCode(report) \in {0, DriverThen.last}
    BY <1>1, <1>6, <2>2
  <2>4. Heeded(kbd.handlers, DriverThen, report) = DriverThen'
    BY <1>1, <2>2, <2>3, NoCodeHeeded DEF DriverThen
  <2>5. QED
    BY <1>1, <1>2, <2>1, <2>2, <2>4, TraceGrows
<1>7. DriverNow' = DriverNow
  BY DEF DriverNow
<1>8. TraceInv'
  BY <1>3, <1>6, <1>7 DEF TraceInv
<1>9. QED
  BY <1>4, <1>5, <1>8 DEF TypingInv

LEMMA TypingPressed ==
  ASSUME KeyboardTypeOK, TypingInv, NEW code \in KeyCodes, Press(code)
  PROVE  TypingInv'
<1> DEFINE held == Append(keys.held, code)
           report == [modifiers |-> keys.modifiers, held |-> held]
           meant == Meant(code, keys.modifiers, keys.locks)
           expected == IF Heard(meant) THEN Append(keys.expected, meant) ELSE keys.expected
           switch == IF "raw" \in kbd.handlers THEN None ELSE LockOn(code, keys.modifiers)
           locks == Switched(keys.locks, switch)
<1>1. /\ kbd' = kbd /\ code \notin ToSet(keys.held)
      /\ keys'.held = held /\ keys'.presses = keys.presses + 1 /\ keys'.expected = expected
      /\ keys'.locks = locks /\ keys'.typed = keys.typed /\ keys'.tidy = keys.tidy
      /\ keys'.reports = Append(keys.reports, report)
  BY DEF Press, Report, KeyboardTypeOK, KeyStates
<1>2. /\ keys.held \in Seq(KeyCodes) /\ keys.reports \in Seq(SentReports) /\ keys.presses \in Nat
      /\ keys.modifiers \in Modifiers /\ keys.locks \in SUBSET Locks
  BY DEF KeyboardTypeOK, KeyStates
<1>3. held \in Seq(KeyCodes) /\ CodeOf(held) = code
  BY <1>2 DEF CodeOf, Last
<1>4. report \in SentReports /\ GetKeyCode(report) = code /\ report.modifiers = keys.modifiers
  BY <1>2, <1>3, CodeReported DEF SentReports
<1> HIDE DEF held, report, meant, expected, locks
<1>5. QuietInv'
  BY <1>1, <1>2 DEF QuietInv
<1>6. RawInv'
  <2>1. ASSUME "raw" \in kbd.handlers
        PROVE  expected = keys.expected /\ locks = keys.locks
    <3>1. switch = None /\ SwitchesOf(None) = {}
      BY <2>1, OtherLocks DEF None
    <3>2. locks = keys.locks
      BY <1>2, <3>1, SwitchedLocks DEF locks
    <3>3. QED
      BY <2>1, <3>2 DEF expected, Heard
  <2>2. QED
    BY <1>1, <2>1 DEF TypingInv, RawInv
<1>7. ASSUME keys.tidy, "raw" \notin kbd.handlers
      PROVE  \E f : IsTrace(f, kbd.handlers, DriverNow, Append(keys.reports, report), DriverThen')
  <2>1. PICK f : IsTrace(f, kbd.handlers, DriverNow, keys.reports, DriverThen)
    BY <1>7 DEF TypingInv, TraceInv
  <2>2. /\ DriverThen \in DriverStates /\ DriverThen.last = CodeOf(keys.held)
        /\ DriverThen.locks = keys.locks /\ DriverThen.typed = keys.expected
    BY DriversAreTyped DEF DriverThen
  <2>3. code \notin {0, DriverThen.last}
    <3>1. code # 0
      BY KeyCodesAssumption
    <3>2. keys.held # <<>> => Last(keys.held) \in ToSet(keys.held)
      BY <1>2 DEF Last, ToSet
    <3>3. QED
      BY <1>1, <2>2, <3>1, <3>2 DEF CodeOf
  <2>4. DriverThen' = [last |-> code, locks |-> locks, typed |-> expected]
    BY <1>1, <1>3 DEF DriverThen
  <2>5. Heeded(kbd.handlers, DriverThen, report) =
          [last |-> code, locks |-> locks,
           typed |-> IF Handled(kbd.handlers, meant) THEN Append(keys.expected, meant) ELSE keys.expected]
    BY <1>4, <1>7, <2>2, <2>3 DEF Heeded, locks, meant
  <2>6. Heard(meant) = Handled(kbd.handlers, meant)
    BY DEF Heard, Handled
  <2>7. Heeded(kbd.handlers, DriverThen, report) = DriverThen'
    BY <2>4, <2>5, <2>6 DEF expected
  <2>8. QED
    BY <1>2, <1>4, <2>1, <2>2, <2>7, TraceGrows
<1>8. DriverNow' = DriverNow
  BY <1>1 DEF DriverNow
<1>9. TraceInv'
  BY <1>1, <1>7, <1>8 DEF TraceInv
<1>10. QED
  BY <1>5, <1>6, <1>9 DEF TypingInv

\* The key that was pressed first is not the one a report is about, unless it is the only one.
LEMMA TailKeepsCode ==
  ASSUME NEW held \in Seq(KeyCodes), held # <<>>
  PROVE  CodeOf(Tail(held)) \in {0, CodeOf(held)}
<1> DEFINE t == Tail(held)
<1>1. t \in Seq(KeyCodes) /\ Len(t) = Len(held) - 1 /\ \A i \in 1 .. Len(held) - 1 : t[i] = held[i + 1]
  BY HeadTailProperties
<1> HIDE DEF t
<1>2. CASE t = <<>>
  BY <1>2 DEF CodeOf, t
<1>3. CASE t # <<>>
  <2>1. Len(t) \in 1 .. Len(held) - 1
    BY <1>1, <1>3, EmptySeq
  <2>2. t[Len(t)] = held[Len(held)]
    BY <1>1, <2>1
  <2>3. QED
    BY <1>3, <2>2 DEF CodeOf, Last, t
<1>4. QED
  BY <1>2, <1>3

LEMMA TypingReleased ==
  ASSUME KeyboardTypeOK, TypingInv, NEW i \in 1 .. MaxHeld, Release(i)
  PROVE  TypingInv'
<1> DEFINE held == RemoveAt(keys.held, i)
<1>1. /\ kbd' = kbd /\ i \in DOMAIN keys.held
      /\ keys'.held = held /\ keys'.presses = keys.presses /\ keys'.expected = keys.expected
      /\ keys'.locks = keys.locks /\ keys'.typed = keys.typed /\ keys'.tidy = (keys.tidy /\ i = 1)
      /\ keys'.reports = Append(keys.reports, [modifiers |-> keys.modifiers, held |-> held])
  BY DEF Release, Report, KeyboardTypeOK, KeyStates
<1>2. keys.held \in Seq(KeyCodes) /\ keys.modifiers \in Modifiers /\ keys.tidy \in BOOLEAN
  BY DEF KeyboardTypeOK, KeyStates
<1>3. /\ held \in Seq(KeyCodes) /\ Len(held) = Len(keys.held) - 1
      /\ i = 1 => held = Tail(keys.held)
  BY <1>1, <1>2, RemovedIsTyped
<1>4. keys.presses # 0
  BY <1>1 DEF TypingInv, QuietInv
<1>5. ASSUME i = 1
      PROVE  CodeOf(held) \in {0, CodeOf(keys.held)}
  <2>1. keys.held # <<>>
    BY <1>1
  <2>2. QED
    BY <1>2, <1>3, <1>5, <2>1, TailKeepsCode
<1> HIDE DEF held
<1>6. keys'.tidy => keys.tidy /\ i = 1
  BY <1>1
<1>7. QED
  BY <1>1, <1>2, <1>3, <1>4, <1>5, <1>6, TypingReported

LEMMA TypingHeld ==
  ASSUME KeyboardTypeOK, TypingInv, NEW modifiers \in Chords, Hold(modifiers)
  PROVE  TypingInv'
<1>1. /\ kbd' = kbd
      /\ keys'.held = keys.held /\ keys'.presses = keys.presses /\ keys'.expected = keys.expected
      /\ keys'.locks = keys.locks /\ keys'.typed = keys.typed /\ keys'.tidy = keys.tidy
      /\ keys'.reports = Append(keys.reports, [modifiers |-> modifiers, held |-> keys.held])
  BY DEF Hold, Report, KeyboardTypeOK, KeyStates
<1>2. keys.held \in Seq(KeyCodes) /\ modifiers \in Modifiers
  BY DEF KeyboardTypeOK, KeyStates, Modifiers
<1>3. keys.presses = 0 => keys.held = <<>>
  BY DEF TypingInv, QuietInv
<1>4. QED
  BY <1>1, <1>2, <1>3, TypingReported

LEMMA TypingRegistered ==
  ASSUME KeyboardTypeOK, TypingInv, NEW handlers \in HandlerSets, Register(handlers)
  PROVE  TypingInv'
<1>1. /\ keys' = keys /\ keys.presses = 0 /\ kbd.handlers = {}
      /\ kbd'.handlers = handlers /\ kbd'.m_ucLastPhyCode = kbd.m_ucLastPhyCode /\ kbd'.locks = kbd.locks
  BY DEF Register, KeyboardTypeOK, Keyboards
<1>2. QuietInv' /\ RawInv'
  BY <1>1 DEF TypingInv, QuietInv, RawInv
<1>3. ASSUME keys.tidy
      PROVE  \E f : IsTrace(f, handlers, DriverNow, keys.reports, DriverThen)
  <2>1. PICK f : IsTrace(f, {}, DriverNow, keys.reports, DriverThen)
    BY <1>1, <1>3 DEF TypingInv, TraceInv
  <2>2. f \in Seq(DriverStates) /\ Len(f) = Len(keys.reports) + 1 /\ Len(keys.reports) \in Nat
    BY <2>1 DEF IsTrace, KeyboardTypeOK, KeyStates
  <2>3. ASSUME NEW i \in 1 .. Len(keys.reports)
        PROVE  f[i + 1] = Heeded(handlers, f[i], keys.reports[i])
    <3>1. GetKeyCode(keys.reports[i]) = 0
      BY <1>1 DEF TypingInv, QuietInv, GetKeyCode
    <3>2. f[i + 1] = Heeded({}, f[i], keys.reports[i])
      BY <2>1 DEF IsTrace
    <3>3. QED
      BY <3>1, <3>2 DEF Heeded
  <2>4. IsTrace(f, handlers, DriverNow, keys.reports, DriverThen)
    BY <2>1, <2>3 DEF IsTrace
  <2>5. QED
    BY <2>4
<1>4. DriverNow' = DriverNow /\ DriverThen' = DriverThen
  BY <1>1 DEF DriverNow, DriverThen
<1>5. TraceInv'
  BY <1>1, <1>3, <1>4 DEF TraceInv
<1>6. QED
  BY <1>2, <1>5 DEF TypingInv

\* The completion routine does what a report says.
LEMMA CompletedHeeds ==
  ASSUME KeyboardTypeOK, NEW restarted \in BOOLEAN, Completed(TRUE, restarted), "raw" \notin kbd.handlers
  PROVE  DriverNow' = Heeded(kbd.handlers, DriverNow, Head(keys.reports))
<1> DEFINE report == Head(keys.reports)
           code == NewKeyCode(report)
           got == GetKeyCode(report)
           numLock == "NumLock" \in kbd.locks
           logical == IF code = 0 THEN None ELSE Translate(code, report.modifiers, numLock)
           meant == Meant(code, report.modifiers, kbd.locks)
<1>1. /\ keys'.typed = keys.typed \o KeyEvent(code, report.modifiers)
      /\ kbd'.m_ucLastPhyCode = got /\ kbd'.locks = Switched(kbd.locks, logical)
  BY DEF Completed, KeyboardTypeOK, KeyStates, Keyboards
<1>2. report \in SentReports
  BY DEF Completed, KeyboardTypeOK, KeyStates
<1>3. got \in KeyCodes \cup {0} /\ report.modifiers \in Modifiers
  BY <1>2 DEF GetKeyCode, Last, SentReports
<1>4. code = IF got = kbd.m_ucLastPhyCode THEN 0 ELSE got
  BY DEF NewKeyCode
<1>5. kbd.locks \in SUBSET Locks /\ keys.typed \in Seq(Meanings)
  BY DEF KeyboardTypeOK, KeyStates, Keyboards
<1>6. DriverNow' = [last |-> got, locks |-> Switched(kbd.locks, logical),
                   typed |-> keys.typed \o KeyEvent(code, report.modifiers)]
  BY <1>1 DEF DriverNow
<1> HIDE DEF report, got, numLock
<1>7. CASE got \in {0, kbd.m_ucLastPhyCode}
  <2>1. code = 0
    BY <1>4, <1>7
  <2>2. KeyEvent(code, report.modifiers) = <<>>
    BY <2>1 DEF KeyEvent
  <2>3. Switched(kbd.locks, logical) = kbd.locks
    <3>1. logical = None /\ SwitchesOf(None) = {}
      BY <2>1, OtherLocks DEF None
    <3>2. QED
      BY <1>5, <3>1, SwitchedLocks
  <2>4. keys.typed \o <<>> = keys.typed
    BY <1>5, ConcatEmptySeq
  <2>5. Heeded(kbd.handlers, DriverNow, report) = [last |-> got, locks |-> kbd.locks, typed |-> keys.typed]
    BY <1>7 DEF Heeded, DriverNow, got
  <2>6. QED
    BY <1>6, <2>2, <2>3, <2>4, <2>5 DEF report
<1>8. CASE got \notin {0, kbd.m_ucLastPhyCode}
  <2>1. code = got /\ code # 0 /\ code \in KeyCodes /\ code \in Nat
    BY <1>3, <1>4, <1>8, KeyCodesAssumption
  <2>2. Switched(kbd.locks, logical) = Switched(kbd.locks, LockOn(code, report.modifiers))
    <3>1. logical = Translate(code, report.modifiers, numLock) /\ numLock \in BOOLEAN
      BY <2>1 DEF numLock
    <3>2. SwitchesOf(logical) = SwitchesOf(LockOn(code, report.modifiers))
      BY <2>1, <3>1, LocksAreLabels
    <3>3. QED
      BY <3>2 DEF Switched
  <2>3. KeyEvent(code, report.modifiers) = IF Heard(meant) THEN <<meant>> ELSE <<>>
    BY <1>3, <2>1, KeyEventTyped
  <2>4. Heard(meant) = Handled(kbd.handlers, meant)
    BY DEF Heard, Handled
  <2>5. keys.typed \o KeyEvent(code, report.modifiers) =
          IF Handled(kbd.handlers, meant) THEN Append(keys.typed, meant) ELSE keys.typed
    <3>1. meant \in Meanings
      BY <1>3, <1>5, <2>1, MeaningsAreTyped
    <3> HIDE DEF meant
    <3>2. keys.typed \o <<meant>> = Append(keys.typed, meant) /\ keys.typed \o <<>> = keys.typed
      BY <1>5, <3>1, ConcatEmptySeq, AppendIsConcat
    <3>3. QED
      BY <2>3, <2>4, <3>2
  <2>6. Heeded(kbd.handlers, DriverNow, report) =
          [last |-> got, locks |-> Switched(kbd.locks, LockOn(got, report.modifiers)),
           typed |-> IF Handled(kbd.handlers, meant) THEN Append(keys.typed, meant) ELSE keys.typed]
    BY <1>8, <2>1 DEF Heeded, DriverNow, got
  <2>7. QED
    BY <1>6, <2>1, <2>2, <2>5, <2>6 DEF report
<1>9. QED
  BY <1>7, <1>8

LEMMA TypingCompleted ==
  ASSUME KeyboardTypeOK, TypingInv, NEW received \in BOOLEAN, NEW restarted \in BOOLEAN,
         Completed(received, restarted)
  PROVE  TypingInv'
<1> DEFINE report == Head(keys.reports)
           code == NewKeyCode(report)
           logical == IF code = 0 THEN None ELSE Translate(code, report.modifiers, "NumLock" \in kbd.locks)
<1>1. /\ keys.reports # <<>> /\ keys.reports \in Seq(SentReports) /\ keys'.reports = Tail(keys.reports)
      /\ keys'.held = keys.held /\ keys'.presses = keys.presses /\ keys'.expected = keys.expected
      /\ keys'.locks = keys.locks /\ kbd'.handlers = kbd.handlers
      /\ keys'.tidy => keys.tidy /\ received
  BY ZenonT(40) DEF Completed, KeyboardTypeOK, KeyStates, Keyboards
<1>2. \/ keys'.typed = keys.typed /\ kbd'.m_ucLastPhyCode = kbd.m_ucLastPhyCode /\ kbd'.locks = kbd.locks
      \/ /\ received /\ "raw" \notin kbd.handlers
         /\ keys'.typed = keys.typed \o KeyEvent(code, report.modifiers)
         /\ kbd'.m_ucLastPhyCode = GetKeyCode(report) /\ kbd'.locks = Switched(kbd.locks, logical)
  BY DEF Completed, KeyboardTypeOK, KeyStates, Keyboards
<1>3. QuietInv'
  <2>1. ASSUME keys.presses = 0
        PROVE  code = 0 /\ GetKeyCode(report) = 0 /\ logical = None /\ KeyEvent(code, report.modifiers) = <<>>
    <3>1. report.held = <<>>
      BY <1>1, <2>1 DEF TypingInv, QuietInv
    <3>2. QED
      BY <3>1 DEF NewKeyCode, GetKeyCode, KeyEvent
  <2>2. SwitchesOf(None) = {} /\ Switched(kbd.locks, None) = kbd.locks
    BY OtherLocks, SwitchedLocks DEF None, KeyboardTypeOK, Keyboards
  <2>3. \A i \in 1 .. Len(Tail(keys.reports)) :
          i + 1 \in 1 .. Len(keys.reports) /\ Tail(keys.reports)[i] = keys.reports[i + 1]
    BY <1>1
  <2> HIDE DEF report, code, logical
  <2>4. ASSUME keys.presses = 0
        PROVE  /\ keys'.typed = <<>> /\ kbd'.m_ucLastPhyCode = 0 /\ kbd'.locks = kbd.locks
    <3>1. keys.typed = <<>> /\ kbd.m_ucLastPhyCode = 0 /\ <<>> \o <<>> = <<>>
      BY <2>4 DEF TypingInv, QuietInv
    <3>2. QED
      BY <1>2, <2>1, <2>2, <2>4, <3>1
  <2>5. QED
    BY <1>1, <2>3, <2>4 DEF TypingInv, QuietInv
<1>4. RawInv'
  BY <1>1, <1>2 DEF TypingInv, RawInv
<1>5. ASSUME keys'.tidy, "raw" \notin kbd.handlers
      PROVE  \E f : IsTrace(f, kbd.handlers, DriverNow', Tail(keys.reports), DriverThen)
  <2>1. PICK f : IsTrace(f, kbd.handlers, DriverNow, keys.reports, DriverThen)
    BY <1>1, <1>5 DEF TypingInv, TraceInv
  <2>2. received = TRUE
    BY <1>1, <1>5
  <2>3. DriverNow' = Heeded(kbd.handlers, DriverNow, report)
    BY <1>5, <2>2, CompletedHeeds
  <2>4. IsTrace(Tail(f), kbd.handlers, DriverNow', Tail(keys.reports), DriverThen)
    BY <1>1, <2>1, <2>3, TraceShrinks
  <2>5. QED
    BY <2>4
<1>6. DriverThen' = DriverThen
  BY <1>1 DEF DriverThen
<1>7. TraceInv'
  BY <1>1, <1>5, <1>6 DEF TraceInv
<1>8. QED
  BY <1>3, <1>4, <1>7 DEF TypingInv

LEMMA TypingNext ==
  ASSUME KeyboardTypeOK, TypingInv, [KeyboardNext]_keyboardVars
  PROVE  TypingInv'
<1>1. ASSUME NEW done \in BOOLEAN, SetProtocol(done) \/ FirstLEDs(done) \/ Start(done) \/ LEDsSet(done)
      PROVE  TypingInv'
  <2> USE DEF KeyboardTypeOK, Keyboards, KeyStates
  <2>1. CASE SetProtocol(done)
    BY <2>1, TypingUntouched DEF SetProtocol
  <2>2. CASE FirstLEDs(done)
    BY <2>2, TypingUntouched DEF FirstLEDs, SetLEDs
  <2>3. CASE Start(done)
    BY <2>3, TypingUntouched DEF Start
  <2>4. CASE LEDsSet(done)
    BY <2>4, TypingUntouched DEF LEDsSet, SetLEDs
  <2>5. QED
    BY <1>1, <2>1, <2>2, <2>3, <2>4
<1>2. CASE UpdateLEDs
  BY <1>2, TypingUntouched DEF UpdateLEDs, KeyboardTypeOK, Keyboards, KeyStates
<1>3. CASE UNCHANGED keyboardVars
  BY <1>3, TypingUntouched DEF keyboardVars
<1>4. QED
  BY <1>1, <1>2, <1>3, KeyboardCases, TypingRegistered, TypingPressed, TypingReleased, TypingHeld, TypingCompleted

LEMMA TypingIsRight ==
  ASSUME KeyboardTypeOK, TypingInv
  PROVE  TypedIsPressed
<1> SUFFICES ASSUME keys.tidy
             PROVE  /\ IsPrefix(keys.typed, keys.expected)
                    /\ keys.reports = <<>> => keys.typed = keys.expected /\ kbd.locks = keys.locks
  BY DEF TypedIsPressed
<1>1. keys.typed \in Seq(Meanings) /\ keys.expected \in Seq(Meanings)
  BY DEF KeyboardTypeOK, KeyStates
<1>2. ASSUME Begins(keys.typed, keys.expected)
      PROVE  IsPrefix(keys.typed, keys.expected)
  <2>1. Len(keys.typed) \in Nat /\ Len(keys.expected) \in Nat /\ Len(keys.typed) <= Len(keys.expected)
    BY <1>1, <1>2 DEF Begins
  <2>2. SubSeq(keys.typed, 1, Len(keys.typed)) = SubSeq(keys.expected, 1, Len(keys.typed))
    BY <1>1, <1>2, <2>1 DEF Begins
  <2>3. QED
    BY <2>1, <2>2 DEF IsPrefix
<1>3. CASE "raw" \in kbd.handlers
  <2>1. keys.typed = <<>> /\ keys.expected = <<>> /\ kbd.locks = keys.locks
    BY <1>3 DEF TypingInv, RawInv
  <2>2. Begins(keys.typed, keys.expected)
    BY <2>1 DEF Begins
  <2>3. QED
    BY <1>2, <2>1, <2>2
<1>4. CASE "raw" \notin kbd.handlers
  <2>1. PICK f : IsTrace(f, kbd.handlers, DriverNow, keys.reports, DriverThen)
    BY <1>4 DEF TypingInv, TraceInv
  <2>2. /\ f[1] = DriverNow /\ f[Len(f)] = DriverThen /\ Len(f) = Len(keys.reports) + 1
        /\ \A i \in 1 .. Len(f) : Begins(f[i].typed, DriverThen.typed)
    BY <2>1 DEF IsTrace
  <2>3. Len(keys.reports) \in Nat
    BY DEF KeyboardTypeOK, KeyStates
  <2>4. Begins(DriverNow.typed, DriverThen.typed)
    BY <2>2, <2>3
  <2>5. ASSUME keys.reports = <<>>
        PROVE  DriverNow = DriverThen
    BY <2>2, <2>5
  <2>6. QED
    BY <1>2, <2>4, <2>5 DEF DriverNow, DriverThen
<1>5. QED
  BY <1>3, <1>4

(***************************************************************************)
(* What is typed is what was pressed, once and in order, and the locks are *)
(* those the user sees: at every keyboard whose keys are released in the   *)
(* order they were pressed, as long as no report is lost.                  *)
(***************************************************************************)
THEOREM TypingIsCorrect == Spec => []TypedIsPressed
<1>1. Init => TypingInv
  BY KeyboardSteps, TypingInit
<1>2. KeyboardTypeOK /\ TypingInv /\ [Next]_functionVars => TypingInv'
  BY KeyboardSteps, TypingNext
<1>3. KeyboardTypeOK /\ TypingInv => TypedIsPressed
  BY TypingIsRight
<1>4. QED
  BY <1>1, <1>2, <1>3, KeyboardTypeCorrect, PTL DEF Spec

-----------------------------------------------------------------------------
(* The mass storage driver: what its object and the device are made of.     *)

LEMMA CommandFields ==
  ASSUME NEW h, IsObject(h), NEW op \in Setup \cup Calls, NEW count \in Nat, op = "write" => Len(h.data) = 1,
         NEW g, g = Command(h, op, count)
  PROVE  /\ IsObject(g) /\ g.pc = "cbw" /\ g.op = op /\ g.count = count /\ g.nCWBTag = h.nCWBTag + 1
         /\ g.pid = h.pid /\ g.named = h.named /\ g.since = h.since /\ g.unreset = h.unreset
         /\ g.tries = h.tries /\ g.data = h.data /\ g.ullOffset = h.ullOffset /\ g.result = h.result
<1>1. DOMAIN g = DOMAIN h
  BY DEF Command
<1>2. /\ g.pc = "cbw" /\ g.op = op /\ g.count = count /\ g.nCWBTag = h.nCWBTag + 1 /\ g.moved = 0
      /\ g.pid = h.pid /\ g.named = h.named /\ g.since = h.since /\ g.unreset = h.unreset
      /\ g.tries = h.tries /\ g.data = h.data /\ g.ullOffset = h.ullOffset /\ g.result = h.result
      /\ g.calls = h.calls
  BY DEF Command, IsObject
<1>3. QED
  BY <1>1, <1>2 DEF IsObject, Setup, Calls

LEMMA ReturnFields ==
  ASSUME NEW h, IsObject(h), NEW result \in Int, NEW g, g = Return(h, result)
  PROVE  HasReturned(h, g, result)
<1>1. DOMAIN g = DOMAIN h
  BY DEF Return
<1>2. /\ g.pc = "idle" /\ g.op = h.op /\ g.result = result /\ g.nCWBTag = h.nCWBTag
      /\ g.count = h.count /\ g.data = h.data /\ g.ullOffset = h.ullOffset /\ g.tries = h.tries
      /\ g.pid = h.pid /\ g.named = h.named /\ g.since = h.since /\ g.unreset = h.unreset
      /\ g.moved = h.moved /\ g.calls = h.calls
  BY DEF Return, IsObject
<1>3. QED
  BY <1>1, <1>2 DEF HasReturned, IsObject

LEMMA ResetFields ==
  ASSUME NEW h, IsObject(h), h.op \in Calls, NEW g, g = Reset(h)
  PROVE  /\ IsObject(g) /\ g.pc = "reset" /\ g.op = h.op /\ g.result = -1 /\ g.nCWBTag = h.nCWBTag
         /\ g.count = h.count /\ g.data = h.data /\ g.ullOffset = h.ullOffset /\ g.tries = h.tries
         /\ g.pid = h.pid /\ g.named = h.named /\ g.since = h.since /\ g.unreset = h.unreset
<1>1. DOMAIN g = DOMAIN h
  BY DEF Reset
<1>2. /\ g.pc = "reset" /\ g.op = h.op /\ g.result = -1 /\ g.nCWBTag = h.nCWBTag
      /\ g.count = h.count /\ g.data = h.data /\ g.ullOffset = h.ullOffset /\ g.tries = h.tries
      /\ g.pid = h.pid /\ g.named = h.named /\ g.since = h.since /\ g.unreset = h.unreset
      /\ g.moved = h.moved /\ g.calls = h.calls
  BY DEF Reset, IsObject
<1>3. QED
  BY <1>1, <1>2 DEF IsObject

LEMMA TriesFields ==
  ASSUME NEW h, IsObject(h), NEW n \in Int, NEW g, g = [h EXCEPT !.tries = n]
  PROVE  /\ IsObject(g) /\ g.pc = h.pc /\ g.op = h.op /\ g.result = h.result /\ g.nCWBTag = h.nCWBTag
         /\ g.count = h.count /\ g.data = h.data /\ g.ullOffset = h.ullOffset /\ g.tries = n
         /\ g.pid = h.pid /\ g.named = h.named /\ g.since = h.since /\ g.unreset = h.unreset
<1>1. DOMAIN g = DOMAIN h
  OBVIOUS
<1>2. /\ g.pc = h.pc /\ g.op = h.op /\ g.result = h.result /\ g.nCWBTag = h.nCWBTag
      /\ g.count = h.count /\ g.data = h.data /\ g.ullOffset = h.ullOffset /\ g.tries = n
      /\ g.pid = h.pid /\ g.named = h.named /\ g.since = h.since /\ g.unreset = h.unreset
      /\ g.moved = h.moved /\ g.calls = h.calls
  BY DEF IsObject
<1>3. QED
  BY <1>1, <1>2 DEF IsObject

\* What a command of the setup is followed by: the interface is named only after a success.
LEMMA SetupFollows ==
  ASSUME NEW h, IsObject(h), h.op \in Setup, NEW result \in Int, NEW g, g = Configured(h, result)
  PROVE  /\ IsObject(g) /\ g.op \in Setup /\ g.pid = h.pid /\ g.unreset = h.unreset
         /\ \/ g.pc = "cbw" /\ g.nCWBTag = h.nCWBTag + 1 /\ g.named = h.named
            \/ g.pc = "idle" /\ g.nCWBTag = h.nCWBTag /\ (g.named = h.named \/ result >= 0)
<1> USE DEF Setup, Calls
<1>1. ReadyTries - 1 \in Int /\ h.tries - 1 \in Int /\ h.count >= 0
  BY StorageAssumption DEF IsObject
<1>2. \A op \in Setup : FullLength(op) \in Nat
  BY DEF FullLength
<1>3. ASSUME NEW k, IsObject(k), k.pid = h.pid, k.unreset = h.unreset, k.nCWBTag = h.nCWBTag,
             k.named = h.named, NEW op \in Setup, g = Command(k, op, FullLength(op))
      PROVE  /\ IsObject(g) /\ g.op \in Setup /\ g.pid = h.pid /\ g.unreset = h.unreset
             /\ g.pc = "cbw" /\ g.nCWBTag = h.nCWBTag + 1 /\ g.named = h.named
  <2>1. op \in Setup \cup Calls /\ FullLength(op) \in Nat /\ op # "write"
    BY <1>2, <1>3
  <2>2. /\ IsObject(g) /\ g.pc = "cbw" /\ g.op = op /\ g.nCWBTag = k.nCWBTag + 1
        /\ g.pid = k.pid /\ g.named = k.named /\ g.unreset = k.unreset
    <3> HIDE DEF Setup, Calls
    <3>1. QED
      BY <1>3, <2>1, CommandFields
  <2>3. QED
    BY <1>3, <2>2
<1>4. ASSUME NEW k, IsObject(k), k.pid = h.pid, k.unreset = h.unreset, k.nCWBTag = h.nCWBTag, k.op = h.op,
             k.named = h.named, g = Return(k, -1)
      PROVE  /\ IsObject(g) /\ g.op \in Setup /\ g.pid = h.pid /\ g.unreset = h.unreset
             /\ g.pc = "idle" /\ g.nCWBTag = h.nCWBTag /\ g.named = h.named
  <2>1. -1 \in Int
    OBVIOUS
  <2>2. QED
    BY <1>4, <2>1, ReturnFields DEF HasReturned
<1>5. CASE h.op = "inquiry"
  <2>1. CASE result = h.count /\ h.data = <<"disk">>
    <3> DEFINE k == [h EXCEPT !.tries = ReadyTries - 1]
    <3>1. g = Command(k, "ready", FullLength("ready"))
      BY <1>5, <2>1 DEF Configured
    <3>2. IsObject(k) /\ k.pid = h.pid /\ k.unreset = h.unreset /\ k.nCWBTag = h.nCWBTag /\ k.named = h.named
      BY <1>1, TriesFields
    <3> HIDE DEF k
    <3>3. QED
      BY <1>3, <3>1, <3>2
  <2>2. CASE ~(result = h.count /\ h.data = <<"disk">>)
    <3>1. g = Return(h, -1)
      BY <1>5, <2>2 DEF Configured
    <3>2. QED
      BY <1>4, <3>1
  <2>3. QED
    BY <2>1, <2>2
<1>6. CASE h.op = "ready"
  <2>1. g = Command(h, "capacity", FullLength("capacity")) \/ g = Command(h, "sense", FullLength("sense"))
    BY <1>6 DEF Configured
  <2>2. QED
    BY <1>3, <2>1
<1>7. CASE h.op = "sense"
  <2>1. CASE result < 0 \/ h.tries = 1
    <3> DEFINE k == [h EXCEPT !.tries = 0]
    <3>1. g = Return(k, -1)
      BY <1>7, <2>1 DEF Configured
    <3>2. /\ IsObject(k) /\ k.pid = h.pid /\ k.unreset = h.unreset /\ k.nCWBTag = h.nCWBTag
          /\ k.named = h.named /\ k.op = h.op
      BY TriesFields
    <3> HIDE DEF k
    <3>3. QED
      BY <1>4, <3>1, <3>2
  <2>2. CASE ~(result < 0 \/ h.tries = 1)
    <3> DEFINE k == [h EXCEPT !.tries = h.tries - 1]
    <3>1. g = Command(k, "ready", FullLength("ready"))
      BY <1>7, <2>2 DEF Configured
    <3>2. IsObject(k) /\ k.pid = h.pid /\ k.unreset = h.unreset /\ k.nCWBTag = h.nCWBTag /\ k.named = h.named
      BY <1>1, TriesFields
    <3> HIDE DEF k
    <3>3. QED
      BY <1>3, <3>1, <3>2
  <2>3. QED
    BY <2>1, <2>2
<1>8. CASE h.op = "capacity"
  <2>1. CASE result = h.count /\ h.data[1] = BlockSize /\ h.data[2] # -1
    <3> DEFINE k == [h EXCEPT !.nBlockCount = h.data[2] + 1, !.named = TRUE]
    <3>1. g = Return(k, 0)
      BY <1>8, <2>1 DEF Configured
    <3>2. /\ DOMAIN k = DOMAIN h /\ k.pc = h.pc /\ k.op = h.op /\ k.tries = h.tries /\ k.nCWBTag = h.nCWBTag
          /\ k.ullOffset = h.ullOffset /\ k.count = h.count /\ k.data = h.data /\ k.moved = h.moved
          /\ k.result = h.result /\ k.pid = h.pid /\ k.named \in BOOLEAN /\ k.calls = h.calls
          /\ k.since = h.since /\ k.unreset = h.unreset
      BY DEF IsObject
    <3> HIDE DEF k
    <3>3. IsObject(k) /\ 0 \in Int
      BY <3>2 DEF IsObject
    <3>4. IsObject(g) /\ g.pc = "idle" /\ g.op = k.op /\ g.nCWBTag = k.nCWBTag /\ g.pid = k.pid
          /\ g.unreset = k.unreset
      BY <3>1, <3>3, ReturnFields DEF HasReturned
    <3>5. QED
      BY <1>1, <1>8, <2>1, <3>2, <3>4
  <2>2. CASE ~(result = h.count /\ h.data[1] = BlockSize /\ h.data[2] # -1)
    <3>1. g = Return(h, -1)
      BY <1>8, <2>2 DEF Configured
    <3>2. QED
      BY <1>4, <3>1
  <2>3. QED
    BY <2>1, <2>2
<1>9. QED
  BY <1>5, <1>6, <1>7, <1>8

LEMMA FailureFollows ==
  ASSUME NEW h, IsObject(h), h.op # "none", NEW g, g = After(h, -1)
  PROVE  /\ IsObject(g) /\ g.pid = h.pid /\ g.unreset = h.unreset
         /\ h.op \in Calls => g = Reset(h)
         /\ h.op \in Setup =>
              /\ g.op \in Setup /\ g.named = h.named
              /\ \/ g.pc = "cbw" /\ g.nCWBTag = h.nCWBTag + 1
                 \/ g.pc = "idle" /\ g.nCWBTag = h.nCWBTag
<1>1. -1 \in Int /\ ~(-1 >= 0) /\ h.count # -1
  BY DEF IsObject
<1>2. CASE h.op \in Calls
  <2>1. g = Reset(h)
    BY <1>1, <1>2 DEF After, Calls
  <2>2. h.op \notin Setup
    BY <1>2 DEF Calls, Setup
  <2>3. QED
    BY <1>2, <2>1, <2>2, ResetFields
<1>3. CASE h.op \in Setup
  <2>1. g = Configured(h, -1) /\ h.op \notin Calls
    BY <1>3 DEF After, Setup, Calls
  <2>2. /\ IsObject(g) /\ g.op \in Setup /\ g.pid = h.pid /\ g.unreset = h.unreset
        /\ \/ g.pc = "cbw" /\ g.nCWBTag = h.nCWBTag + 1 /\ g.named = h.named
           \/ g.pc = "idle" /\ g.nCWBTag = h.nCWBTag /\ (g.named = h.named \/ -1 >= 0)
    BY <1>1, <1>3, <2>1, SetupFollows
  <2>3. QED
    BY <1>1, <2>1, <2>2
<1>4. QED
  BY <1>2, <1>3 DEF IsObject

-----------------------------------------------------------------------------
(* What the device sends.                                                   *)

LEMMA BlockOfCommand ==
  ASSUME NEW h, IsObject(h), h.op # "none"
  PROVE  /\ CommandBlock(h) \in CommandBlocks /\ CommandBlock(h).op = h.op
         /\ CommandBlock(h).tag = h.nCWBTag /\ CommandBlock(h).bytes = h.count
         /\ h.op \in Calls => /\ CommandBlock(h).address = BlockAddress(h)
                              /\ CommandBlock(h).length = TransferLength(h)
         /\ h.op \notin Calls => CommandBlock(h).address = 0 /\ CommandBlock(h).length = 0
         /\ BlockAddress(h) \in Nat /\ TransferLength(h) \in Nat /\ TransferLength(h) < LengthField
<1>1. BlockAddress(h) \in Nat /\ TransferLength(h) \in Nat /\ TransferLength(h) < LengthField
  BY SMTT(30) DEF BlockAddress, TransferLength, BlockSize, LengthField, IsObject
<1>2. h.op \in Setup \cup Calls /\ h.nCWBTag \in Nat /\ h.count \in Nat
  BY DEF IsObject
<1>3. QED
  BY <1>1, <1>2 DEF CommandBlock, CommandBlocks, Calls

LEMMA StatusPacket ==
  ASSUME NEW cbw \in CommandBlocks, NEW status \in {"passed", "failed"}, NEW moved \in Int,
         NEW p, p = StatusOf(cbw, status, moved)
  PROVE  /\ p \in Packets /\ p.kind = "status" /\ p.bytes = CSWSize /\ p.tag = cbw.tag
         /\ p.status = status /\ p.residue = cbw.bytes - moved
BY EmptySeq DEF StatusOf, Packet, Packets, CommandBlocks, CSWSize

LEMMA DataPacket ==
  ASSUME NEW value \in Seq(Marks), NEW bytes \in Nat, NEW p, p = DataOf(value, bytes)
  PROVE  /\ p \in Packets /\ p.kind = "data" /\ p.bytes = bytes /\ p.tag = 0
         /\ p.value = value
BY DEF DataOf, Packet, Packets

LEMMA StoredIs ==
  ASSUME NEW d \in Drives, NEW cbw \in CommandBlocks, Inside(cbw)
  PROVE  Stored(d, cbw) \in Seq(Marks)
<1>1. MediumBlocks \in Nat /\ cbw.address \in Nat /\ cbw.length \in Nat
  BY StorageAssumption DEF CommandBlocks
<1>2. d.medium \in [0 .. MediumBlocks - 1 -> Marks]
  BY DEF Drives
<1>3. \A i \in 1 .. cbw.length : d.medium[cbw.address + i - 1] \in Marks
  <2> TAKE i \in 1 .. cbw.length
  <2>1. cbw.address + i - 1 \in 0 .. MediumBlocks - 1
    BY <1>1 DEF Inside
  <2>2. QED
    BY <1>2, <2>1
<1>4. QED
  BY <1>1, <1>3 DEF Stored

LEMMA InfoIs ==
  ASSUME NEW d \in Drives, NEW op \in Setup
  PROVE  InfoOf(d, op) \in Seq(Marks)
<1>1. d.type \in Marks /\ d.blockSize \in Marks /\ d.last \in Marks /\ "sense" \in Marks
  BY StorageAssumption DEF Drives, Marks
<1>2. <<d.type>> \in Seq(Marks) /\ <<d.blockSize, d.last>> \in Seq(Marks) /\ <<"sense">> \in Seq(Marks)
      /\ <<>> \in Seq(Marks)
  BY <1>1
<1>3. QED
  BY <1>2 DEF InfoOf, Setup

\* A command that is done: a status alone if no data is wanted, or the data and the status; a
\* read with no residue has what is stored.
LEMMA DoneIs ==
  ASSUME NEW d \in Drives, NEW cbw \in CommandBlocks, Inside(cbw),
         ~(cbw.op = "write" /\ cbw.bytes > 0), NEW s, s = Done(d, cbw)
  PROVE  /\ s \in Seq(Packets) /\ Len(s) = IF cbw.bytes = 0 THEN 1 ELSE 2
         /\ s[Len(s)].kind = "status" /\ s[Len(s)].tag = cbw.tag /\ s[Len(s)].status = "passed"
         /\ cbw.bytes > 0 => s[1].kind = "data" /\ s[1].tag = 0 /\ s[1].bytes = cbw.bytes
         /\ cbw.op = "read" /\ cbw.bytes > 0 =>
              /\ s[2].residue = cbw.bytes - BlockSize * cbw.length
              /\ s[2].residue = 0 => s[1].value = Stored(d, cbw)
<1> DEFINE p == StatusOf(cbw, "passed", 0)
           q == StatusOf(cbw, "passed", cbw.bytes)
           r == StatusOf(cbw, "passed", BlockSize * cbw.length)
           info == DataOf(InfoOf(d, cbw.op), cbw.bytes)
           value == Stored(d, cbw) \o (IF cbw.bytes > BlockSize * cbw.length THEN <<"padding">> ELSE <<>>)
           data == DataOf(value, cbw.bytes)
<1>1. cbw.bytes \in Nat /\ cbw.length \in Nat /\ BlockSize * cbw.length \in Int /\ cbw.op \in Setup \cup Calls
  BY DEF CommandBlocks, BlockSize
<1>2. /\ p \in Packets /\ p.kind = "status" /\ p.tag = cbw.tag /\ p.status = "passed"
      /\ q \in Packets /\ q.kind = "status" /\ q.tag = cbw.tag /\ q.status = "passed"
      /\ r \in Packets /\ r.kind = "status" /\ r.tag = cbw.tag /\ r.status = "passed"
      /\ r.residue = cbw.bytes - BlockSize * cbw.length
  BY <1>1, StatusPacket
<1>3. value \in Seq(Marks) /\ (cbw.bytes - BlockSize * cbw.length = 0 => value = Stored(d, cbw))
  <2>1. Stored(d, cbw) \in Seq(Marks)
    BY StoredIs
  <2>2. <<"padding">> \in Seq(Marks) /\ <<>> \in Seq(Marks)
    BY DEF Marks
  <2>3. Stored(d, cbw) \o <<>> = Stored(d, cbw)
    BY <2>1, ConcatEmptySeq
  <2>4. QED
    BY <1>1, <2>1, <2>2, <2>3, ConcatProperties
<1> HIDE DEF value
<1>4. /\ data \in Packets /\ data.kind = "data" /\ data.tag = 0 /\ data.bytes = cbw.bytes
      /\ data.value = value
  BY <1>1, <1>3, DataPacket
<1>5. CASE cbw.bytes = 0
  <2>1. s = <<p>>
    BY <1>5 DEF Done
  <2> HIDE DEF p
  <2>2. QED
    BY <1>2, <1>5, <2>1
<1>6. CASE cbw.bytes > 0 /\ cbw.op = "read"
  <2>1. s = <<data, r>>
    BY <1>6 DEF Done, value
  <2> HIDE DEF data, r
  <2>2. QED
    BY <1>2, <1>3, <1>4, <1>6, <2>1
<1>7. CASE cbw.bytes > 0 /\ cbw.op \in Setup
  <2>1. s = <<info, q>>
    BY <1>7 DEF Done, Setup
  <2>2. info \in Packets /\ info.kind = "data" /\ info.tag = 0 /\ info.bytes = cbw.bytes
    BY <1>1, <1>7, InfoIs, DataPacket
  <2> HIDE DEF info, q
  <2>3. QED
    BY <1>2, <1>7, <2>1, <2>2 DEF Setup
<1>8. QED
  BY <1>1, <1>5, <1>6, <1>7 DEF Calls

LEMMA FailedIs ==
  ASSUME NEW cbw \in CommandBlocks, NEW s, s = Failed(cbw)
  PROVE  /\ s \in Seq(Packets) /\ Len(s) = IF cbw.bytes = 0 THEN 1 ELSE 2
         /\ s[Len(s)].kind = "status" /\ s[Len(s)].tag = cbw.tag /\ s[Len(s)].status = "failed"
         /\ cbw.bytes > 0 => s[1].kind = "data" /\ s[1].tag = 0 /\ s[1].bytes = cbw.bytes
<1> DEFINE p == StatusOf(cbw, "failed", 0)
           value == <<"padding">>
           data == DataOf(value, cbw.bytes)
<1>1. p \in Packets /\ p.kind = "status" /\ p.tag = cbw.tag /\ p.status = "failed"
  BY StatusPacket
<1>2. data \in Packets /\ data.kind = "data" /\ data.tag = 0 /\ data.bytes = cbw.bytes
  <2>1. value \in Seq(Marks) /\ cbw.bytes \in Nat
    BY DEF Marks, CommandBlocks
  <2> HIDE DEF value
  <2>2. QED
    BY <2>1, DataPacket
<1>3. s = IF cbw.bytes = 0 THEN <<p>> ELSE <<data, p>>
  BY DEF Failed
<1> HIDE DEF p, data, value
<1>4. cbw.bytes \in Nat
  BY DEF CommandBlocks
<1>5. QED
  BY <1>1, <1>2, <1>3, <1>4

-----------------------------------------------------------------------------
(* What the device does with what it is sent.                               *)

LEMMA SendsIs ==
  ASSUME NEW d \in Drives, NEW s \in Seq(Packets), NEW e, e = Sends(d, s)
  PROVE  /\ e \in Drives /\ e.obeys = d.obeys /\ e.medium = d.medium /\ e.pid = d.pid /\ e.writes = d.writes
         /\ e.halted = d.halted /\ e.faults = d.faults /\ e.queue = Joined(d.queue, s)
<1> DEFINE q == Joined(d.queue, s)
<1>1. q \in Seq(Packets)
  BY ConcatProperties DEF Drives, Joined
<1>2. e = [d EXCEPT !.queue = q]
  BY DEF Sends, Joined
<1>3. q \in Seq(Packets)
  BY <1>1
<1> HIDE DEF q
<1>4. /\ e \in Drives /\ e.obeys = d.obeys /\ e.medium = d.medium /\ e.pid = d.pid /\ e.writes = d.writes
      /\ e.halted = d.halted /\ e.faults = d.faults /\ e.queue = q
  BY <1>2, <1>3 DEF Drives
<1>5. QED
  BY <1>4 DEF q

LEMMA FaultIs ==
  ASSUME NEW d \in Drives, NEW e, e = [d EXCEPT !.faults = @ + 1]
  PROVE  /\ e \in Drives /\ e.obeys = d.obeys /\ e.medium = d.medium /\ e.pid = d.pid /\ e.writes = d.writes
         /\ e.halted = d.halted /\ e.faults = d.faults + 1 /\ e.queue = d.queue
BY DEF Drives

LEMMA HaltIs ==
  ASSUME NEW d \in Drives, NEW ep \in {"in", "out"}, NEW e, e = [d EXCEPT !.halted = @ \cup {ep}]
  PROVE  /\ e \in Drives /\ e.obeys = d.obeys /\ e.medium = d.medium /\ e.pid = d.pid /\ e.writes = d.writes
         /\ e.halted = d.halted \cup {ep} /\ e.faults = d.faults /\ e.queue = d.queue
BY DEF Drives

LEMMA WritesIs ==
  ASSUME NEW d \in Drives, NEW w \in SUBSET CommandBlocks, NEW e, e = [d EXCEPT !.writes = w]
  PROVE  /\ e \in Drives /\ e.obeys = d.obeys /\ e.medium = d.medium /\ e.pid = d.pid /\ e.writes = w
         /\ e.halted = d.halted /\ e.faults = d.faults /\ e.queue = d.queue
BY DEF Drives

LEMMA Toggles ==
  ASSUME NEW pid \in {0, 1}, NEW packets \in Nat
  PROVE  Toggle(pid, packets) \in {0, 1}
BY DEF Toggle

LEMMA Statuses ==
  ASSUME NEW cbw \in CommandBlocks, NEW status \in {"passed", "failed"}, NEW moved \in Int,
         NEW s, s = <<StatusOf(cbw, status, moved)>>
  PROVE  /\ s \in Seq(Packets) /\ Len(s) = 1 /\ s[1].kind = "status" /\ s[1].tag = cbw.tag
         /\ s[1].status = status /\ s[1].residue = cbw.bytes - moved
<1> DEFINE p == StatusOf(cbw, status, moved)
<1>1. /\ p \in Packets /\ p.kind = "status" /\ p.tag = cbw.tag /\ p.status = status
      /\ p.residue = cbw.bytes - moved
  BY StatusPacket
<1>2. s = <<p>>
  OBVIOUS
<1> HIDE DEF p
<1>3. QED
  BY <1>1, <1>2

LEMMA FailedStatus ==
  ASSUME NEW cbw \in CommandBlocks, NEW s, s = <<StatusOf(cbw, "failed", 0)>>
  PROVE  /\ s \in Seq(Packets) /\ Len(s) = 1 /\ s[1].kind = "status" /\ s[1].tag = cbw.tag
         /\ s[1].status = "failed"
<1>1. "failed" \in {"passed", "failed"} /\ 0 \in Int
  OBVIOUS
<1>2. PICK status \in {"passed", "failed"}, moved \in Int : status = "failed" /\ moved = 0
  BY <1>1
<1>3. s = <<StatusOf(cbw, status, moved)>>
  BY <1>2
<1>4. QED
  BY <1>2, <1>3, Statuses

LEMMA CommandIsAnswered ==
  ASSUME NEW d \in Drives, NEW cbw \in CommandBlocks, d.writes = {}, NEW e \in Commanded(d, cbw)
  PROVE  /\ e \in Drives /\ e.obeys = d.obeys /\ e.medium = d.medium /\ e.pid = d.pid
         /\ CommandAnswered(d, cbw, e)
<1> DEFINE f == IF cbw.op = "ready" THEN d.faults ELSE d.faults + 1
           failing == [d EXCEPT !.faults = f]
           done == Done(d, cbw)
           failed == Failed(cbw)
           status == <<StatusOf(cbw, "failed", 0)>>
<1>1. f \in Nat
  BY DEF Drives
<1>2. \/ cbw.op = "write" /\ cbw.bytes > 0 /\ e = [d EXCEPT !.writes = {cbw}]
      \/ ~(cbw.op = "write" /\ cbw.bytes > 0) /\ Inside(cbw) /\ e = Sends(d, done)
      \/ ~(cbw.op = "write" /\ cbw.bytes > 0) /\ e = Sends(failing, failed)
      \/ ~(cbw.op = "write" /\ cbw.bytes > 0) /\ e = [Sends(failing, status) EXCEPT !.halted = @ \cup {"in"}]
  BY DEF Commanded
<1> HIDE DEF f
<1>3. /\ failing \in Drives /\ failing.obeys = d.obeys /\ failing.medium = d.medium /\ failing.pid = d.pid
      /\ failing.writes = {} /\ failing.halted = d.halted /\ failing.faults = f /\ failing.queue = d.queue
  BY <1>1 DEF Drives
<1>4. f = IF cbw.op = "ready" THEN d.faults ELSE d.faults + 1
  BY DEF f
<1> HIDE DEF failing, done, failed, status
<1>5. CASE cbw.op = "write" /\ cbw.bytes > 0 /\ e = [d EXCEPT !.writes = {cbw}]
  <2>1. {cbw} \in SUBSET CommandBlocks
    OBVIOUS
  <2>2. QED
    BY <1>5, <2>1, WritesIs DEF CommandAnswered
<1>6. CASE ~(cbw.op = "write" /\ cbw.bytes > 0) /\ Inside(cbw) /\ e = Sends(d, done)
  <2>1. done \in Seq(Packets)
    BY <1>6, DoneIs DEF done
  <2>2. /\ e \in Drives /\ e.obeys = d.obeys /\ e.medium = d.medium /\ e.pid = d.pid /\ e.writes = {}
        /\ e.halted = d.halted /\ e.faults = d.faults /\ e.queue = Joined(d.queue, done)
    BY <1>6, <2>1, SendsIs
  <2>3. QED
    BY <1>6, <2>2 DEF CommandAnswered, done
<1>7. CASE ~(cbw.op = "write" /\ cbw.bytes > 0) /\ e = Sends(failing, failed)
  <2>1. failed \in Seq(Packets)
    BY FailedIs DEF failed
  <2>2. /\ e \in Drives /\ e.obeys = d.obeys /\ e.medium = d.medium /\ e.pid = d.pid /\ e.writes = {}
        /\ e.halted = d.halted /\ e.faults = f /\ e.queue = Joined(d.queue, failed)
    BY <1>3, <1>7, <2>1, SendsIs
  <2>3. QED
    BY <1>4, <1>7, <2>2 DEF CommandAnswered, failed
<1>8. CASE /\ ~(cbw.op = "write" /\ cbw.bytes > 0)
           /\ e = [Sends(failing, status) EXCEPT !.halted = @ \cup {"in"}]
  <2> DEFINE sent == Sends(failing, status)
  <2>1. status \in Seq(Packets)
    BY FailedStatus DEF status
  <2>2. /\ sent \in Drives /\ sent.obeys = d.obeys /\ sent.medium = d.medium /\ sent.pid = d.pid
        /\ sent.writes = {} /\ sent.halted = d.halted /\ sent.faults = f /\ sent.queue = Joined(d.queue, status)
    BY <1>3, <2>1, SendsIs
  <2>3. e = [sent EXCEPT !.halted = @ \cup {"in"}]
    BY <1>8
  <2> HIDE DEF sent
  <2>4. /\ e \in Drives /\ e.obeys = d.obeys /\ e.medium = d.medium /\ e.pid = d.pid /\ e.writes = {}
        /\ e.halted = d.halted \cup {"in"} /\ e.faults = f /\ e.queue = Joined(d.queue, status)
    BY <2>2, <2>3, HaltIs
  <2>5. QED
    BY <1>4, <1>8, <2>4 DEF CommandAnswered, status
<1>9. QED
  BY <1>2, <1>5, <1>6, <1>7, <1>8

LEMMA CommandTaken ==
  ASSUME NEW d \in Drives, NEW cbw \in CommandBlocks, NEW e \in Took(d, "command", cbw, 1)
  PROVE  /\ e \in Drives /\ e.obeys = d.obeys /\ e.medium = d.medium
         /\ e.pid.in = d.pid.in /\ e.pid.out = Toggle(d.pid.out, 1)
         /\ \/ d.writes = {} /\ CommandAnswered(d, cbw, e)
            \/ d.writes # {} /\ WriteSpoilt(d, e)
<1> DEFINE pid == Toggle(d.pid.out, 1)
           next == [d EXCEPT !.pid.out = pid]
<1>1. pid \in {0, 1}
  <2>1. d.pid.out \in {0, 1} /\ 1 \in Nat
    BY DEF Drives, Pids
  <2>2. QED
    BY <2>1, Toggles
<1>2. e \in (IF next.writes = {} THEN Commanded(next, cbw) ELSE {Confused(next)})
  BY DEF Took, Drives
<1> HIDE DEF pid
<1>3. /\ next \in Drives /\ next.obeys = d.obeys /\ next.medium = d.medium /\ next.writes = d.writes
      /\ next.halted = d.halted /\ next.faults = d.faults /\ next.queue = d.queue
      /\ next.pid.in = d.pid.in /\ next.pid.out = pid
  <2> DEFINE p == [d.pid EXCEPT !.out = pid]
  <2>1. next = [d EXCEPT !.pid = p]
    OBVIOUS
  <2>2. p \in Pids /\ p.in = d.pid.in /\ p.out = pid
    BY <1>1 DEF Drives, Pids
  <2> HIDE DEF p, next
  <2>3. QED
    BY <2>1, <2>2 DEF Drives
<1>4. next.type = d.type /\ next.blockSize = d.blockSize /\ next.last = d.last
  BY DEF Drives
<1> HIDE DEF next
<1>5. CASE d.writes = {}
  <2>1. e \in Commanded(next, cbw) /\ next.writes = {}
    BY <1>2, <1>3, <1>5
  <2>2. e \in Drives /\ e.obeys = next.obeys /\ e.medium = next.medium /\ e.pid = next.pid
        /\ CommandAnswered(next, cbw, e)
    BY <1>3, <2>1, CommandIsAnswered
  <2>3. Done(next, cbw) = Done(d, cbw)
    <3>1. Stored(next, cbw) = Stored(d, cbw) /\ InfoOf(next, cbw.op) = InfoOf(d, cbw.op)
      BY <1>3, <1>4 DEF Stored, InfoOf
    <3>2. QED
      BY <3>1 DEF Done
  <2>4. CommandAnswered(d, cbw, e)
    BY <1>3, <2>2, <2>3 DEF CommandAnswered
  <2>5. QED
    BY <1>3, <1>5, <2>2, <2>4 DEF pid
<1>6. CASE d.writes # {}
  <2> DEFINE c == CHOOSE c \in next.writes : TRUE
             status == <<StatusOf(c, "failed", 0)>>
             q == Joined(d.queue, status)
  <2>1. c \in d.writes /\ c \in CommandBlocks
    BY <1>3, <1>6 DEF Drives
  <2>2. e = [next EXCEPT !.writes = {}, !.queue = q]
    BY <1>2, <1>3, <1>6 DEF Confused, Joined
  <2> HIDE DEF c
  <2>3. status \in Seq(Packets)
    BY <2>1, FailedStatus
  <2>4. q \in Seq(Packets)
    BY <1>3, <2>3, ConcatProperties DEF Drives, Joined
  <2> HIDE DEF status, q
  <2>5. /\ e \in Drives /\ e.obeys = next.obeys /\ e.medium = next.medium /\ e.pid = next.pid /\ e.writes = {}
        /\ e.halted = next.halted /\ e.faults = next.faults /\ e.queue = q
    BY <1>3, <2>2, <2>4 DEF Drives
  <2>6. WriteSpoilt(d, e)
    BY <1>3, <2>1, <2>5 DEF WriteSpoilt, q, status
  <2>7. QED
    BY <1>3, <1>6, <2>5, <2>6 DEF pid
<1>7. QED
  BY <1>5, <1>6

LEMMA NothingWritten ==
  ASSUME NEW d \in Drives, NEW e, e = [d EXCEPT !.writes = {}]
  PROVE  /\ e \in Drives /\ e.obeys = d.obeys /\ e.medium = d.medium /\ e.pid = d.pid /\ e.writes = {}
         /\ e.halted = d.halted /\ e.faults = d.faults /\ e.queue = d.queue
BY DEF Drives

LEMMA FirstMark ==
  ASSUME NEW value \in Seq(Marks), Len(value) = 1
  PROVE  value[1] \in Marks
OBVIOUS

LEMMA WriteIsAnswered ==
  ASSUME NEW d \in Drives, NEW c \in d.writes, NEW value \in Seq(Marks), Len(value) = 1,
         NEW e \in Written(d, c, value)
  PROVE  /\ e \in Drives /\ e.obeys = d.obeys /\ e.pid = d.pid /\ e.writes = {}
         /\ WriteAnswered(d, c, value, e)
<1> DEFINE rest == [d EXCEPT !.writes = {}]
           failing == [rest EXCEPT !.faults = @ + 1]
           stores == [b \in DOMAIN d.medium |->
                        IF b >= c.address /\ b < c.address + c.length THEN value[1] ELSE d.medium[b]]
           passed == <<StatusOf(c, "passed", BlockSize * c.length)>>
           failed == <<StatusOf(c, "failed", 0)>>
<1>1. \/ Inside(c) /\ e = [Sends(rest, passed) EXCEPT !.medium = stores]
      \/ e = Sends(failing, failed)
      \/ e = [Sends(failing, failed) EXCEPT !.halted = @ \cup {"out"}]
  BY DEF Written
<1>2. c \in CommandBlocks /\ d.medium \in [0 .. MediumBlocks - 1 -> Marks] /\ value[1] \in Marks
  <2>1. d.writes \in SUBSET CommandBlocks /\ d.medium \in [0 .. MediumBlocks - 1 -> Marks]
    BY DEF Drives
  <2>2. value[1] \in Marks
    BY FirstMark
  <2>3. QED
    BY <2>1, <2>2
<1>3. /\ stores \in [0 .. MediumBlocks - 1 -> Marks]
      /\ \A b \in 0 .. MediumBlocks - 1 :
           stores[b] = IF b >= c.address /\ b < c.address + c.length THEN value[1] ELSE d.medium[b]
  BY <1>2
<1> HIDE DEF stores
<1>4. /\ rest \in Drives /\ rest.obeys = d.obeys /\ rest.medium = d.medium /\ rest.pid = d.pid
      /\ rest.writes = {} /\ rest.halted = d.halted /\ rest.faults = d.faults /\ rest.queue = d.queue
  BY NothingWritten
<1>5. passed \in Seq(Packets) /\ failed \in Seq(Packets)
  <2>1. "passed" \in {"passed", "failed"} /\ BlockSize * c.length \in Int
    BY <1>2 DEF CommandBlocks, BlockSize
  <2>2. QED
    BY <1>2, <2>1, Statuses, FailedStatus
<1> HIDE DEF rest, passed, failed
<1>6. /\ failing \in Drives /\ failing.obeys = d.obeys /\ failing.medium = d.medium /\ failing.pid = d.pid
      /\ failing.writes = {} /\ failing.halted = d.halted /\ failing.faults = d.faults + 1
      /\ failing.queue = d.queue
  BY <1>4, FaultIs
<1> HIDE DEF failing
<1>7. CASE Inside(c) /\ e = [Sends(rest, passed) EXCEPT !.medium = stores]
  <2> DEFINE sent == Sends(rest, passed)
  <2>1. /\ sent \in Drives /\ sent.obeys = d.obeys /\ sent.pid = d.pid /\ sent.writes = {}
        /\ sent.halted = d.halted /\ sent.faults = d.faults /\ sent.queue = Joined(d.queue, passed)
    BY <1>4, <1>5, SendsIs
  <2>2. e = [sent EXCEPT !.medium = stores]
    BY <1>7
  <2> HIDE DEF sent
  <2>3. /\ e \in Drives /\ e.obeys = d.obeys /\ e.pid = d.pid /\ e.writes = {} /\ e.medium = stores
        /\ e.halted = d.halted /\ e.faults = d.faults /\ e.queue = Joined(d.queue, passed)
    BY <1>3, <2>1, <2>2 DEF Drives
  <2>4. QED
    BY <1>3, <1>7, <2>3 DEF WriteAnswered, passed
<1>8. CASE e = Sends(failing, failed)
  <2>1. /\ e \in Drives /\ e.obeys = d.obeys /\ e.medium = d.medium /\ e.pid = d.pid /\ e.writes = {}
        /\ e.halted = d.halted /\ e.faults = d.faults + 1 /\ e.queue = Joined(d.queue, failed)
    BY <1>5, <1>6, <1>8, SendsIs
  <2>2. QED
    BY <2>1 DEF WriteAnswered, failed
<1>9. CASE e = [Sends(failing, failed) EXCEPT !.halted = @ \cup {"out"}]
  <2> DEFINE sent == Sends(failing, failed)
  <2>1. /\ sent \in Drives /\ sent.obeys = d.obeys /\ sent.medium = d.medium /\ sent.pid = d.pid
        /\ sent.writes = {} /\ sent.halted = d.halted /\ sent.faults = d.faults + 1
        /\ sent.queue = Joined(d.queue, failed)
    BY <1>5, <1>6, SendsIs
  <2>2. e = [sent EXCEPT !.halted = @ \cup {"out"}]
    BY <1>9
  <2> HIDE DEF sent
  <2>3. /\ e \in Drives /\ e.obeys = d.obeys /\ e.medium = d.medium /\ e.pid = d.pid /\ e.writes = {}
        /\ e.halted = d.halted \cup {"out"} /\ e.faults = d.faults + 1 /\ e.queue = Joined(d.queue, failed)
    BY <2>1, <2>2, HaltIs
  <2>4. QED
    BY <2>3 DEF WriteAnswered, failed
<1>10. QED
  BY <1>1, <1>7, <1>8, <1>9

LEMMA DataTaken ==
  ASSUME NEW d \in Drives, NEW value \in Seq(Marks), Len(value) = 1, NEW packets \in Nat,
         NEW e \in Took(d, "data", value, packets)
  PROVE  /\ e \in Drives /\ e.obeys = d.obeys
         /\ e.pid.in = d.pid.in /\ e.pid.out = Toggle(d.pid.out, packets)
         /\ \/ /\ d.writes = {} /\ e.writes = {} /\ e.medium = d.medium /\ e.halted = d.halted
               /\ e.faults = d.faults /\ e.queue = d.queue
            \/ e.writes = {} /\ \E c \in d.writes : WriteAnswered(d, c, value, e)
<1> DEFINE pid == Toggle(d.pid.out, packets)
           next == [d EXCEPT !.pid.out = pid]
<1>1. pid \in {0, 1}
  <2>1. d.pid.out \in {0, 1}
    BY DEF Drives, Pids
  <2>2. QED
    BY <2>1, Toggles
<1>2. e \in (IF d.writes = {} THEN {next} ELSE Written(next, CHOOSE c \in d.writes : TRUE, value))
  BY DEF Took, Drives
<1> HIDE DEF pid
<1>3. /\ next \in Drives /\ next.obeys = d.obeys /\ next.medium = d.medium /\ next.writes = d.writes
      /\ next.halted = d.halted /\ next.faults = d.faults /\ next.queue = d.queue
      /\ next.pid.in = d.pid.in /\ next.pid.out = pid
  <2> DEFINE p == [d.pid EXCEPT !.out = pid]
  <2>1. next = [d EXCEPT !.pid = p]
    OBVIOUS
  <2>2. p \in Pids /\ p.in = d.pid.in /\ p.out = pid
    BY <1>1 DEF Drives, Pids
  <2> HIDE DEF p, next
  <2>3. QED
    BY <2>1, <2>2 DEF Drives
<1> HIDE DEF next
<1>4. CASE d.writes = {}
  BY <1>2, <1>3, <1>4 DEF pid
<1>5. CASE d.writes # {}
  <2>1. PICK c \in d.writes : e \in Written(next, c, value)
    BY <1>2, <1>5
  <2>2. /\ e \in Drives /\ e.obeys = next.obeys /\ e.pid = next.pid /\ e.writes = {}
        /\ WriteAnswered(next, c, value, e)
    BY <1>3, <2>1, WriteIsAnswered
  <2>3. WriteAnswered(d, c, value, e)
    BY <1>3, <2>2 DEF WriteAnswered
  <2>4. QED
    BY <1>3, <2>2, <2>3 DEF pid
<1>6. QED
  BY <1>4, <1>5

LEMMA JoinedIs ==
  ASSUME NEW q \in Seq(Packets), NEW s \in Seq(Packets), NEW j, j = Joined(q, s)
  PROVE  IsJoint(j, q, s)
<1>1. j \in Seq(Packets) /\ Len(j) = Len(q) + Len(s)
      /\ \A i \in 1 .. Len(j) : j[i] = IF i <= Len(q) THEN q[i] ELSE s[i - Len(q)]
  BY ConcatProperties DEF Joined
<1>2. Len(q) \in Nat /\ Len(s) \in Nat
  BY LenProperties
<1> HIDE DEF Joined
<1>3. \A k \in 1 .. Len(q) : j[k] = q[k]
  BY <1>1, <1>2
<1>4. \A k \in 1 .. Len(s) : j[Len(q) + k] = s[k]
  <2> TAKE k \in 1 .. Len(s)
  <2>1. Len(q) + k \in 1 .. Len(j) /\ ~(Len(q) + k <= Len(q)) /\ (Len(q) + k) - Len(q) = k
    BY <1>1, <1>2
  <2>2. QED
    BY <1>1, <2>1
<1>5. \A k \in 1 .. Len(j) : k \in 1 .. Len(q) \/ (k - Len(q) \in 1 .. Len(s) /\ j[k] = s[k - Len(q)])
  <2> TAKE k \in 1 .. Len(j)
  <2>1. CASE k <= Len(q)
    BY <1>1, <1>2, <2>1
  <2>2. CASE ~(k <= Len(q))
    <3>1. k - Len(q) \in 1 .. Len(s)
      BY <1>1, <1>2, <2>2
    <3>2. j[k] = s[k - Len(q)]
      BY <1>1, <2>2
    <3>3. QED
      BY <3>1, <3>2
  <2>3. QED
    BY <2>1, <2>2
<1>6. QED
  BY <1>1, <1>2, <1>3, <1>4, <1>5 DEF IsJoint

LEMMA TagsJoined ==
  ASSUME NEW d \in Drives, NEW s \in Seq(Packets), NEW tag \in Nat, TagsUpTo(d, tag),
         \A k \in 1 .. Len(s) : s[k].tag <= tag,
         NEW e, e.queue = Joined(d.queue, s), \A c \in e.writes : c.tag <= tag
  PROVE  TagsUpTo(e, tag)
<1> DEFINE q == d.queue
           j == e.queue
<1>1. q \in Seq(Packets) /\ j = Joined(q, s) /\ \A k \in 1 .. Len(q) : q[k].tag <= tag
  BY DEF Drives, TagsUpTo
<1> HIDE DEF q, j
<1>2. IsJoint(j, q, s)
  BY <1>1, JoinedIs
<1>3. \A k \in 1 .. Len(j) : j[k].tag <= tag
  BY <1>1, <1>2 DEF IsJoint
<1>4. QED
  BY <1>3 DEF TagsUpTo, j

LEMMA TagsTaken ==
  ASSUME NEW d \in Drives, NEW cbw \in CommandBlocks, NEW e \in Took(d, "command", cbw, 1),
         TagsUpTo(d, cbw.tag)
  PROVE  TagsUpTo(e, cbw.tag)
<1>1. /\ e \in Drives /\ cbw.tag \in Nat
      /\ \/ d.writes = {} /\ CommandAnswered(d, cbw, e)
         \/ d.writes # {} /\ WriteSpoilt(d, e)
  BY CommandTaken DEF CommandBlocks
<1>2. cbw.bytes \in Nat
  BY DEF CommandBlocks
<1> DEFINE Tagged(s) == s \in Seq(Packets) /\ \A k \in 1 .. Len(s) : s[k].tag <= cbw.tag
<1>3. ASSUME NEW s, Tagged(s), e.queue = Joined(d.queue, s), e.writes = {}
      PROVE  TagsUpTo(e, cbw.tag)
  BY <1>1, <1>3, TagsJoined
<1>4. ASSUME NEW c \in CommandBlocks, c.tag <= cbw.tag
      PROVE  Tagged(<<StatusOf(c, "failed", 0)>>)
  <2> DEFINE s == <<StatusOf(c, "failed", 0)>>
  <2>1. s \in Seq(Packets) /\ Len(s) = 1 /\ s[1].tag = c.tag
    BY FailedStatus
  <2> HIDE DEF s
  <2>2. Tagged(s)
    BY <1>4, <2>1
  <2>3. QED
    BY <2>2 DEF s
<1>5. ASSUME NEW s, s \in Seq(Packets), Len(s) = IF cbw.bytes = 0 THEN 1 ELSE 2, s[Len(s)].tag = cbw.tag,
             cbw.bytes > 0 => s[1].tag = 0
      PROVE  Tagged(s)
  <2>1. CASE cbw.bytes = 0
    BY <1>1, <1>5, <2>1
  <2>2. CASE cbw.bytes > 0
    BY <1>1, <1>5, <2>2
  <2>3. QED
    BY <1>2, <2>1, <2>2
<1>6. Tagged(Failed(cbw))
  <2> DEFINE s == Failed(cbw)
  <2>1. /\ s \in Seq(Packets) /\ Len(s) = IF cbw.bytes = 0 THEN 1 ELSE 2
        /\ s[Len(s)].tag = cbw.tag /\ (cbw.bytes > 0 => s[1].tag = 0)
    BY FailedIs
  <2> HIDE DEF s
  <2>2. Tagged(s)
    BY <1>5, <2>1
  <2>3. QED
    BY <2>2 DEF s
<1>7. ASSUME Inside(cbw), ~(cbw.op = "write" /\ cbw.bytes > 0)
      PROVE  Tagged(Done(d, cbw))
  <2> DEFINE s == Done(d, cbw)
  <2>1. /\ s \in Seq(Packets) /\ Len(s) = IF cbw.bytes = 0 THEN 1 ELSE 2
        /\ s[Len(s)].tag = cbw.tag /\ (cbw.bytes > 0 => s[1].tag = 0)
    BY <1>7, DoneIs
  <2> HIDE DEF s
  <2>2. Tagged(s)
    BY <1>5, <2>1
  <2>3. QED
    BY <2>2 DEF s
<1>8. CASE d.writes = {} /\ CommandAnswered(d, cbw, e)
  <2>1. CASE e.writes = {cbw} /\ e.queue = d.queue
    BY <1>1, <2>1 DEF TagsUpTo
  <2>2. CASE ~(cbw.op = "write" /\ cbw.bytes > 0) /\ e.writes = {} /\ Inside(cbw)
             /\ e.queue = Joined(d.queue, Done(d, cbw))
    BY <1>3, <1>7, <2>2
  <2>3. CASE e.writes = {} /\ e.queue = Joined(d.queue, Failed(cbw))
    BY <1>3, <1>6, <2>3
  <2>4. CASE e.writes = {} /\ e.queue = Joined(d.queue, <<StatusOf(cbw, "failed", 0)>>)
    <3>1. Tagged(<<StatusOf(cbw, "failed", 0)>>)
      BY <1>1, <1>4
    <3>2. QED
      BY <1>3, <2>4, <3>1
  <2>5. QED
    BY <1>8, <2>1, <2>2, <2>3, <2>4 DEF CommandAnswered
<1>9. CASE d.writes # {} /\ WriteSpoilt(d, e)
  <2>1. PICK c \in d.writes : e.queue = Joined(d.queue, <<StatusOf(c, "failed", 0)>>)
    BY <1>9 DEF WriteSpoilt
  <2>2. c \in CommandBlocks /\ c.tag <= cbw.tag
    BY DEF Drives, TagsUpTo
  <2>3. Tagged(<<StatusOf(c, "failed", 0)>>)
    BY <1>4, <2>2
  <2>4. e.writes = {}
    BY <1>9 DEF WriteSpoilt
  <2>5. QED
    BY <1>3, <2>1, <2>3, <2>4
<1>10. QED
  BY <1>1, <1>8, <1>9

LEMMA PassedStatus ==
  ASSUME NEW cbw \in CommandBlocks, NEW moved \in Int, NEW s, s = <<StatusOf(cbw, "passed", moved)>>
  PROVE  /\ s \in Seq(Packets) /\ Len(s) = 1 /\ s[1].kind = "status" /\ s[1].tag = cbw.tag
         /\ s[1].status = "passed" /\ s[1].residue = cbw.bytes - moved
<1>1. "passed" \in {"passed", "failed"}
  OBVIOUS
<1>2. PICK status \in {"passed", "failed"} : status = "passed"
  BY <1>1
<1>3. s = <<StatusOf(cbw, status, moved)>>
  BY <1>2
<1>4. QED
  BY <1>2, <1>3, Statuses

LEMMA TagsOfData ==
  ASSUME NEW d \in Drives, NEW value \in Seq(Marks), Len(value) = 1, NEW packets \in Nat,
         NEW e \in Took(d, "data", value, packets), NEW tag \in Nat, TagsUpTo(d, tag)
  PROVE  TagsUpTo(e, tag) /\ e.faults >= d.faults
<1>1. /\ e \in Drives
      /\ \/ /\ d.writes = {} /\ e.writes = {} /\ e.medium = d.medium /\ e.halted = d.halted
            /\ e.faults = d.faults /\ e.queue = d.queue
         \/ e.writes = {} /\ \E c \in d.writes : WriteAnswered(d, c, value, e)
  BY DataTaken
<1>2. d.faults \in Nat /\ d.writes \in SUBSET CommandBlocks
  BY DEF Drives
<1>3. CASE d.writes = {} /\ e.writes = {} /\ e.faults = d.faults /\ e.queue = d.queue
  BY <1>2, <1>3 DEF TagsUpTo
<1>4. CASE e.writes = {} /\ \E c \in d.writes : WriteAnswered(d, c, value, e)
  <2>1. PICK c \in d.writes : WriteAnswered(d, c, value, e)
    BY <1>4
  <2>2. c \in CommandBlocks /\ c.tag <= tag
    BY <1>2 DEF TagsUpTo
  <2> DEFINE passed == <<StatusOf(c, "passed", BlockSize * c.length)>>
             failed == <<StatusOf(c, "failed", 0)>>
  <2>3. (e.queue = Joined(d.queue, passed) \/ e.queue = Joined(d.queue, failed)) /\ e.faults >= d.faults
    BY <1>2, <2>1 DEF WriteAnswered
  <2> DEFINE moved == BlockSize * c.length
  <2>4. moved \in Int
    BY <2>2 DEF CommandBlocks, BlockSize
  <2> HIDE DEF moved
  <2>5. /\ passed \in Seq(Packets) /\ Len(passed) = 1 /\ passed[1].tag = c.tag
        /\ failed \in Seq(Packets) /\ Len(failed) = 1 /\ failed[1].tag = c.tag
    <3>1. passed = <<StatusOf(c, "passed", moved)>>
      BY DEF moved
    <3> HIDE DEF passed, failed
    <3>2. passed \in Seq(Packets) /\ Len(passed) = 1 /\ passed[1].tag = c.tag
      BY <2>2, <2>4, <3>1, PassedStatus
    <3>3. failed \in Seq(Packets) /\ Len(failed) = 1 /\ failed[1].tag = c.tag
      BY <2>2, FailedStatus DEF failed
    <3>4. QED
      BY <3>2, <3>3
  <2> HIDE DEF passed, failed
  <2>6. (\A k \in 1 .. Len(passed) : passed[k].tag <= tag) /\ (\A k \in 1 .. Len(failed) : failed[k].tag <= tag)
    BY <2>2, <2>5
  <2>7. \A c2 \in e.writes : c2.tag <= tag
    BY <1>4
  <2>8. CASE e.queue = Joined(d.queue, passed)
    BY <2>3, <2>5, <2>6, <2>7, <2>8, TagsJoined
  <2>9. CASE e.queue = Joined(d.queue, failed)
    BY <2>3, <2>5, <2>6, <2>7, <2>9, TagsJoined
  <2>10. QED
    BY <2>3, <2>8, <2>9
<1>5. QED
  BY <1>1, <1>3, <1>4

LEMMA TagsAfterFault ==
  ASSUME NEW d \in Drives, NEW tag \in Nat, TagsUpTo(d, tag), NEW e, e = [d EXCEPT !.faults = @ + 1]
  PROVE  /\ e \in Drives /\ e.obeys = d.obeys /\ e.faults = d.faults + 1 /\ TagsUpTo(e, tag)
         /\ e.pid = d.pid /\ e.halted = d.halted
<1>1. /\ e \in Drives /\ e.obeys = d.obeys /\ e.medium = d.medium /\ e.pid = d.pid /\ e.writes = d.writes
      /\ e.halted = d.halted /\ e.faults = d.faults + 1 /\ e.queue = d.queue
  BY FaultIs
<1>2. QED
  BY <1>1 DEF TagsUpTo

LEMMA SentIs ==
  ASSUME NEW h, NEW d \in Drives, NEW tag \in Nat, TagsUpTo(d, tag), NEW kind, NEW content, NEW packets,
         \A e \in Took(d, kind, content, packets) :
           /\ e \in Drives /\ e.obeys = d.obeys /\ TagsUpTo(e, tag) /\ e.faults >= d.faults
           /\ e.pid.in = d.pid.in /\ ("in" \in d.halted => "in" \in e.halted),
         NEW t \in OutTransfer(h, d, kind, content, packets)
  PROVE  \/ ~t[2] /\ SendFails(d, t[1], tag)
         \/ /\ t[2] /\ "out" \notin d.halted
            /\ \/ d.pid.out = h.pid.out /\ t[1] \in Took(d, kind, content, packets)
               \/ d.pid.out # h.pid.out /\ t[1] = d
<1> DEFINE heard == IF d.pid.out = h.pid.out THEN Took(d, kind, content, packets) ELSE {d}
           faulty(e) == [e EXCEPT !.faults = @ + 1]
<1>1. d.faults \in Nat
  BY DEF Drives
<1>2. \A e \in heard : /\ e \in Drives /\ e.obeys = d.obeys /\ TagsUpTo(e, tag) /\ e.faults >= d.faults
                       /\ e.pid.in = d.pid.in /\ ("in" \in d.halted => "in" \in e.halted)
  BY <1>1
<1>3. \/ "out" \in d.halted /\ t = <<d, FALSE>>
      \/ "out" \notin d.halted /\ \E e \in heard : t = <<e, TRUE>>
      \/ t = <<faulty(d), FALSE>>
      \/ \E e \in heard : t = <<faulty(e), FALSE>>
  BY DEF OutTransfer
<1>4. ASSUME NEW e \in Drives, e.obeys = d.obeys, TagsUpTo(e, tag), e.faults >= d.faults,
             e.pid.in = d.pid.in, "in" \in d.halted => "in" \in e.halted
      PROVE  SendFails(d, faulty(e), tag)
  <2> DEFINE f == faulty(e)
  <2>1. /\ f \in Drives /\ f.obeys = e.obeys /\ f.faults = e.faults + 1 /\ TagsUpTo(f, tag)
        /\ f.pid = e.pid /\ f.halted = e.halted
    BY <1>4, TagsAfterFault
  <2>2. e.faults \in Nat
    BY DEF Drives
  <2> HIDE DEF f
  <2>3. SendFails(d, f, tag)
    BY <1>1, <1>4, <2>1, <2>2 DEF SendFails
  <2>4. QED
    BY <2>3 DEF f
<1>5. CASE "out" \in d.halted /\ t = <<d, FALSE>>
  BY <1>5 DEF SendFails
<1>6. CASE "out" \notin d.halted /\ \E e \in heard : t = <<e, TRUE>>
  BY <1>6
<1>7. CASE t = <<faulty(d), FALSE>>
  <2>1. SendFails(d, faulty(d), tag)
    BY <1>1, <1>4
  <2> HIDE DEF faulty
  <2>2. QED
    BY <1>7, <2>1
<1>8. CASE \E e \in heard : t = <<faulty(e), FALSE>>
  <2>1. PICK e \in heard : t = <<faulty(e), FALSE>>
    BY <1>8
  <2>2. SendFails(d, faulty(e), tag)
    BY <1>2, <1>4
  <2> HIDE DEF faulty, heard
  <2>3. QED
    BY <2>1, <2>2
<1>9. QED
  BY <1>3, <1>5, <1>6, <1>7, <1>8

LEMMA CommandSent ==
  ASSUME NEW h, IsObject(h), h.op # "none", NEW d \in Drives, TagsUpTo(d, h.nCWBTag),
         NEW t \in OutTransfer(h, d, "command", CommandBlock(h), 1)
  PROVE  \/ ~t[2] /\ SendFails(d, t[1], h.nCWBTag)
         \/ /\ t[2] /\ "out" \notin d.halted
            /\ \/ d.pid.out = h.pid.out /\ t[1] \in Took(d, "command", CommandBlock(h), 1)
               \/ d.pid.out # h.pid.out /\ t[1] = d
<1> DEFINE cbw == CommandBlock(h)
<1>1. cbw \in CommandBlocks /\ cbw.tag = h.nCWBTag /\ h.nCWBTag \in Nat
  BY BlockOfCommand DEF IsObject
<1> HIDE DEF cbw
<1>2. ASSUME NEW e \in Took(d, "command", cbw, 1)
      PROVE  /\ e \in Drives /\ e.obeys = d.obeys /\ TagsUpTo(e, h.nCWBTag) /\ e.faults >= d.faults
             /\ e.pid.in = d.pid.in /\ ("in" \in d.halted => "in" \in e.halted)
  <2>1. TagsUpTo(e, h.nCWBTag)
    BY <1>1, TagsTaken
  <2>2. /\ e \in Drives /\ e.obeys = d.obeys /\ e.pid.in = d.pid.in
        /\ \/ d.writes = {} /\ CommandAnswered(d, cbw, e)
           \/ d.writes # {} /\ WriteSpoilt(d, e)
    BY <1>1, CommandTaken
  <2>3. d.faults \in Nat
    BY DEF Drives
  <2>4. e.faults >= d.faults /\ ("in" \in d.halted => "in" \in e.halted)
    BY <2>2, <2>3 DEF CommandAnswered, WriteSpoilt
  <2>5. QED
    BY <2>1, <2>2, <2>4
<1>3. QED
  BY <1>1, <1>2, SentIs DEF cbw

LEMMA DataSent ==
  ASSUME NEW h, IsObject(h), h.op = "write", NEW d \in Drives, TagsUpTo(d, h.nCWBTag),
         NEW t \in OutTransfer(h, d, "data", h.data, Blocks(h.count))
  PROVE  \/ ~t[2] /\ SendFails(d, t[1], h.nCWBTag)
         \/ /\ t[2] /\ "out" \notin d.halted
            /\ \/ d.pid.out = h.pid.out /\ t[1] \in Took(d, "data", h.data, Blocks(h.count))
               \/ d.pid.out # h.pid.out /\ t[1] = d
<1> DEFINE value == h.data
           packets == Blocks(h.count)
<1>1. value \in Seq(Marks) /\ Len(value) = 1 /\ h.nCWBTag \in Nat /\ packets \in Nat
  BY DEF IsObject, Blocks, BlockSize
<1> HIDE DEF value, packets
<1>2. ASSUME NEW e \in Took(d, "data", value, packets)
      PROVE  /\ e \in Drives /\ e.obeys = d.obeys /\ TagsUpTo(e, h.nCWBTag) /\ e.faults >= d.faults
             /\ e.pid.in = d.pid.in /\ ("in" \in d.halted => "in" \in e.halted)
  <2>1. TagsUpTo(e, h.nCWBTag) /\ e.faults >= d.faults
    BY <1>1, TagsOfData
  <2>2. /\ e \in Drives /\ e.obeys = d.obeys /\ e.pid.in = d.pid.in
        /\ e.halted = d.halted \/ \E c \in d.writes : WriteAnswered(d, c, value, e)
    BY <1>1, DataTaken
  <2>3. "in" \in d.halted => "in" \in e.halted
    BY <2>2 DEF WriteAnswered
  <2>4. QED
    BY <2>1, <2>2, <2>3
<1>3. t \in OutTransfer(h, d, "data", value, packets)
  BY DEF value, packets
<1>4. \/ ~t[2] /\ SendFails(d, t[1], h.nCWBTag)
      \/ /\ t[2] /\ "out" \notin d.halted
         /\ \/ d.pid.out = h.pid.out /\ t[1] \in Took(d, "data", value, packets)
            \/ d.pid.out # h.pid.out /\ t[1] = d
  BY <1>1, <1>2, <1>3, SentIs
<1>5. QED
  BY <1>4 DEF value, packets

LEMMA RestIs ==
  ASSUME NEW q \in Seq(Packets), q # <<>>, NEW r, r = Tail(q)
  PROVE  IsRest(r, q)
<1>1. Len(q) \in Nat \ {0} /\ Head(q) = q[1] /\ q[1] \in Packets
  BY EmptySeq, LenProperties
<1>2. Len(r) = Len(q) - 1 /\ r \in Seq(Packets) /\ \A k \in 1 .. Len(r) : r[k] = q[k + 1]
  BY <1>1, HeadTailProperties
<1>3. QED
  BY <1>1, <1>2 DEF IsRest

LEMMA ReceivedIs ==
  ASSUME NEW h, NEW d \in Drives, NEW t \in InTransfer(h, d)
  PROVE  \/ ~t[2] /\ ReceiveFails(h, d, t[1])
         \/ t[2] /\ ReceiveWorks(h, d, t[1])
<1>1. CASE ("in" \in d.halted \/ (d.queue # <<>> /\ d.pid.in # h.pid.in)) /\ t = <<d, FALSE>>
  <2>1. d.faults \in Nat
    BY DEF Drives
  <2>2. ReceiveFails(h, d, d)
    BY <1>1, <2>1 DEF ReceiveFails
  <2>3. QED
    BY <1>1, <2>2
<1>2. CASE t = <<[d EXCEPT !.faults = @ + 1], FALSE>>
  <2> DEFINE e == [d EXCEPT !.faults = @ + 1]
  <2>1. /\ e \in Drives /\ e.obeys = d.obeys /\ e.medium = d.medium /\ e.pid = d.pid /\ e.writes = d.writes
        /\ e.halted = d.halted /\ e.faults = d.faults + 1 /\ e.queue = d.queue
    BY FaultIs
  <2>2. d.faults \in Nat
    BY DEF Drives
  <2> HIDE DEF e
  <2>3. ReceiveFails(h, d, e)
    BY <2>1, <2>2 DEF ReceiveFails
  <2>4. t = <<e, FALSE>>
    BY <1>2 DEF e
  <2>5. QED
    BY <2>3, <2>4
<1>3. CASE /\ d.queue # <<>> /\ "in" \notin d.halted /\ d.pid.in = h.pid.in
           /\ t = <<[d EXCEPT !.queue = Tail(@), !.pid.in = Toggle(@, Blocks(Head(d.queue).bytes))], TRUE>>
  <2> DEFINE rest == Tail(d.queue)
             first == Head(d.queue)
             pid == Toggle(d.pid.in, Blocks(first.bytes))
             p == [d.pid EXCEPT !.in = pid]
             e == [d EXCEPT !.queue = rest, !.pid = p]
  <2>1. d.queue \in Seq(Packets) /\ d.pid \in Pids
    BY DEF Drives
  <2>2. IsRest(rest, d.queue)
    BY <1>3, <2>1, RestIs
  <2>3. rest \in Seq(Packets) /\ first \in Packets
    BY <2>2 DEF IsRest
  <2> HIDE DEF rest, first
  <2>4. Blocks(first.bytes) \in Nat
    BY <2>3 DEF Packets, Blocks, BlockSize
  <2>5. pid \in {0, 1}
    BY <2>1, <2>4, Toggles DEF Pids
  <2>6. t = <<e, TRUE>>
    BY <1>3 DEF Drives, rest, first
  <2> HIDE DEF pid
  <2>7. p \in Pids /\ p.in = pid /\ p.out = d.pid.out
    BY <2>1, <2>5 DEF Pids
  <2> HIDE DEF p
  <2>8. /\ e \in Drives /\ e.obeys = d.obeys /\ e.medium = d.medium /\ e.writes = d.writes
        /\ e.halted = d.halted /\ e.faults = d.faults /\ e.queue = rest /\ e.pid = p
    BY <2>3, <2>7 DEF Drives
  <2> HIDE DEF e
  <2>9. ReceiveWorks(h, d, e)
    BY <1>3, <2>7, <2>8 DEF ReceiveWorks, rest, first, pid
  <2>10. QED
    BY <2>6, <2>9
<1>4. QED
  BY <1>1, <1>2, <1>3 DEF InTransfer

-----------------------------------------------------------------------------
(* The invariant of every device: what a success rests on.                  *)

\* A transfer that fails, at any stage of a command, and whatever the device makes of it.
LEMMA FailureKeeps ==
  ASSUME NEW h, IsObject(h), h.pc \in {"cbw", "data", "csw"}, NamedInv(h),
         NEW d \in Drives, TagsUpTo(d, h.nCWBTag), NEW g, g = After(h, -1)
  PROVE  StorageInv(g, d)
<1>1. h.op # "none" /\ h.op \in Setup \cup Calls /\ h.nCWBTag \in Nat
  BY DEF IsObject
<1>2. /\ IsObject(g)
      /\ h.op \in Calls => g = Reset(h)
      /\ h.op \in Setup =>
           /\ g.op \in Setup /\ g.named = h.named
           /\ \/ g.pc = "cbw" /\ g.nCWBTag = h.nCWBTag + 1
              \/ g.pc = "idle" /\ g.nCWBTag = h.nCWBTag
  BY <1>1, FailureFollows
<1>3. CASE h.op \in Calls
  <2>1. g.pc = "reset" /\ g.op = h.op /\ g.nCWBTag = h.nCWBTag
    BY <1>2, <1>3, ResetFields
  <2>2. QED
    BY <1>2, <1>3, <2>1 DEF StorageInv, TagsInv, AnswersInv, NamedInv, SyncInv, RealInv
<1>4. CASE h.op \in Setup
  <2>1. h.op \notin Calls /\ g.op \notin Calls
    BY <1>2, <1>4 DEF Setup, Calls
  <2>2. ~g.named
    BY <1>2, <1>4, <2>1 DEF NamedInv
  <2>3. TagsInv(g, d)
    BY <1>1, <1>2, <1>4 DEF TagsInv
  <2>4. QED
    BY <1>2, <1>4, <2>1, <2>2, <2>3 DEF StorageInv, AnswersInv, NamedInv, SyncInv, RealInv
<1>5. QED
  BY <1>1, <1>3, <1>4

LEMMA AcceptedIsBehind ==
  ASSUME NEW h, NEW d \in Drives, \A i \in 1 .. Len(d.queue) : ~Accepts(h, d.queue[i]), NEW s \in Seq(Packets),
         NEW q, q = Joined(d.queue, s), NEW k \in 1 .. Len(q), Accepts(h, q[k])
  PROVE  IsNew(q, d.queue, s, k)
<1> DEFINE old == d.queue
<1>1. old \in Seq(Packets) /\ q = Joined(old, s)
  BY DEF Drives
<1>2. \A i \in 1 .. Len(old) : ~Accepts(h, old[i])
  OBVIOUS
<1> HIDE DEF old
<1>3. IsJoint(q, old, s)
  BY <1>1, JoinedIs
<1>4. k \notin 1 .. Len(old)
  BY <1>2, <1>3 DEF IsJoint
<1>5. k - Len(old) \in 1 .. Len(s) /\ q[k] = s[k - Len(old)] /\ Len(q) = Len(old) + Len(s) /\ Len(old) \in Nat
      /\ Len(s) \in Nat
  BY <1>3, <1>4 DEF IsJoint
<1>6. ASSUME k > Len(old) + 1
      PROVE  q[k - 1] = s[k - Len(old) - 1]
  <2> DEFINE i == k - Len(old) - 1
  <2>1. i \in 1 .. Len(s) /\ k - 1 = Len(old) + i
    BY <1>5, <1>6
  <2> HIDE DEF i
  <2>2. q[Len(old) + i] = s[i]
    BY <1>3, <2>1 DEF IsJoint
  <2>3. QED
    BY <2>1, <2>2 DEF i
<1>7. QED
  BY <1>5, <1>6 DEF IsNew, old

\* A status of an earlier command is never accepted.
LEMMA NoneAccepted ==
  ASSUME NEW h, IsObject(h), NEW d \in Drives, TagsUpTo(d, h.nCWBTag - 1), NEW k \in 1 .. Len(d.queue)
  PROVE  ~Accepts(h, d.queue[k])
<1>1. d.queue[k].tag <= h.nCWBTag - 1
  BY DEF TagsUpTo
<1>2. h.nCWBTag \in Nat
  BY DEF IsObject
<1>3. d.queue[k].tag # h.nCWBTag
  BY <1>1, <1>2
<1>4. QED
  BY <1>3 DEF Accepts

LEMMA AcceptedIsNew ==
  ASSUME NEW h, IsObject(h), NEW d \in Drives, TagsUpTo(d, h.nCWBTag - 1), NEW s \in Seq(Packets),
         NEW q, q = Joined(d.queue, s), NEW k \in 1 .. Len(q), Accepts(h, q[k])
  PROVE  IsNew(q, d.queue, s, k)
<1>1. \A i \in 1 .. Len(d.queue) : ~Accepts(h, d.queue[i])
  BY NoneAccepted
<1>2. QED
  BY <1>1, AcceptedIsBehind

LEMMA CommandSentFields ==
  ASSUME NEW h, IsObject(h), h.op # "none", NEW pc \in {"data", "csw"}, NEW n \in Nat,
         NEW g, g = [h EXCEPT !.pc = pc, !.pid.out = Toggle(@, n)]
  PROVE  HasSent(h, g, pc, n)
<1> DEFINE out == Toggle(h.pid.out, n)
           p == [h.pid EXCEPT !.out = out]
           k == [h EXCEPT !.pc = pc, !.pid = p]
<1>1. h.pid \in Pids /\ h.pid.out \in {0, 1}
  BY DEF IsObject, Pids
<1>2. out \in {0, 1}
  BY <1>1, Toggles
<1>3. g = k
  BY DEF IsObject
<1> HIDE DEF out
<1>4. p \in Pids /\ p.in = h.pid.in /\ p.out = out
  BY <1>1, <1>2 DEF Pids
<1> HIDE DEF p
<1>5. DOMAIN k = DOMAIN h
  OBVIOUS
<1>6. /\ k.pc = pc /\ k.op = h.op /\ k.result = h.result /\ k.nCWBTag = h.nCWBTag /\ k.calls = h.calls
      /\ k.count = h.count /\ k.data = h.data /\ k.ullOffset = h.ullOffset /\ k.tries = h.tries
      /\ k.named = h.named /\ k.since = h.since /\ k.unreset = h.unreset /\ k.moved = h.moved /\ k.pid = p
  BY DEF IsObject
<1> HIDE DEF k
<1>7. IsObject(k)
  BY <1>4, <1>5, <1>6 DEF IsObject
<1>8. QED
  BY <1>3, <1>4, <1>6, <1>7 DEF HasSent, out

LEMMA SameBlock ==
  ASSUME NEW h, NEW g, g.op = h.op, g.nCWBTag = h.nCWBTag, g.count = h.count, g.ullOffset = h.ullOffset
  PROVE  /\ CommandBlock(g) = CommandBlock(h) /\ BlockAddress(g) = BlockAddress(h)
         /\ TransferLength(g) = TransferLength(h)
BY DEF CommandBlock, BlockAddress, TransferLength

\* A command the device takes: what it answers is real.
LEMMA AnswersToCommand ==
  ASSUME NEW h, IsObject(h), h.op # "none", NEW d \in Drives, TagsUpTo(d, h.nCWBTag - 1),
         d.pid.out = h.pid.out, "out" \notin d.halted,
         NEW e \in Took(d, "command", CommandBlock(h), 1),
         NEW g, g.op = h.op, g.nCWBTag = h.nCWBTag, g.count = h.count, g.ullOffset = h.ullOffset,
         g.pid.out = Toggle(h.pid.out, 1), IsObject(g)
  PROVE  AnswersInv(g, e)
<1> DEFINE cbw == CommandBlock(h)
<1>1. /\ cbw \in CommandBlocks /\ cbw.op = h.op /\ cbw.tag = h.nCWBTag /\ cbw.bytes = h.count
      /\ h.op \in Calls => cbw.length = TransferLength(h)
      /\ CommandBlock(g) = cbw /\ TransferLength(g) = TransferLength(h) /\ h.count \in Nat /\ h.nCWBTag \in Nat
  BY BlockOfCommand, SameBlock DEF IsObject
<1> HIDE DEF cbw
<1>2. /\ e \in Drives /\ e.medium = d.medium /\ e.pid.out = Toggle(d.pid.out, 1)
      /\ \/ d.writes = {} /\ CommandAnswered(d, cbw, e)
         \/ d.writes # {} /\ WriteSpoilt(d, e)
  BY <1>1, CommandTaken DEF cbw
<1>3. \A k : Accepts(g, e.queue[k]) <=> Accepts(h, e.queue[k])
  BY DEF Accepts
<1>4. ASSUME NEW s \in Seq(Packets), e.queue = Joined(d.queue, s), e.writes = {},
             \A k \in 1 .. Len(s) : s[k].kind = "data" \/ s[k].status = "failed"
      PROVE  AnswersInv(g, e)
  <2>1. ASSUME NEW k \in 1 .. Len(e.queue), Accepts(h, e.queue[k])
        PROVE  FALSE
    <3>1. IsNew(e.queue, d.queue, s, k)
      BY <1>4, <2>1, AcceptedIsNew
    <3>2. QED
      BY <1>4, <2>1, <3>1 DEF Accepts, IsNew
  <2>2. QED
    BY <1>3, <1>4, <2>1 DEF AnswersInv
<1>5. ASSUME NEW c \in CommandBlocks, e.queue = Joined(d.queue, <<StatusOf(c, "failed", 0)>>), e.writes = {}
      PROVE  AnswersInv(g, e)
  <2> DEFINE s == <<StatusOf(c, "failed", 0)>>
  <2>1. s \in Seq(Packets) /\ Len(s) = 1 /\ s[1].status = "failed"
    BY FailedStatus
  <2>2. e.queue = Joined(d.queue, s)
    BY <1>5
  <2> HIDE DEF s
  <2>3. \A k \in 1 .. Len(s) : s[k].status = "failed"
    BY <2>1
  <2>4. QED
    BY <1>4, <1>5, <2>1, <2>2, <2>3
<1>6. CASE d.writes # {} /\ WriteSpoilt(d, e)
  <2>1. PICK c \in d.writes : e.queue = Joined(d.queue, <<StatusOf(c, "failed", 0)>>)
    BY <1>6 DEF WriteSpoilt
  <2>2. c \in CommandBlocks /\ e.writes = {}
    BY <1>6 DEF Drives, WriteSpoilt
  <2>3. QED
    BY <1>5, <2>1, <2>2
<1>7. CASE cbw.op = "write" /\ cbw.bytes > 0 /\ e.writes = {cbw} /\ e.queue = d.queue
  <2>1. ASSUME NEW k \in 1 .. Len(e.queue), Accepts(h, e.queue[k])
        PROVE  FALSE
    <3>1. e.queue[k].tag <= h.nCWBTag - 1
      BY <1>7 DEF TagsUpTo
    <3>2. QED
      BY <1>1, <2>1, <3>1 DEF Accepts
  <2>2. QED
    BY <1>1, <1>3, <1>7, <2>1 DEF AnswersInv
<1>8. CASE ~(cbw.op = "write" /\ cbw.bytes > 0) /\ e.writes = {} /\ e.queue = Joined(d.queue, Failed(cbw))
  <2> DEFINE s == Failed(cbw)
  <2>1. /\ s \in Seq(Packets) /\ Len(s) = IF cbw.bytes = 0 THEN 1 ELSE 2
        /\ s[Len(s)].kind = "status" /\ s[Len(s)].status = "failed"
        /\ cbw.bytes > 0 => s[1].kind = "data"
    BY <1>1, FailedIs
  <2>2. e.queue = Joined(d.queue, s)
    BY <1>8
  <2> HIDE DEF s
  <2>3. \A k \in 1 .. Len(s) : s[k].kind = "data" \/ s[k].status = "failed"
    BY <1>1, <2>1
  <2>4. QED
    BY <1>4, <1>8, <2>1, <2>2, <2>3
<1>9. CASE /\ ~(cbw.op = "write" /\ cbw.bytes > 0) /\ e.writes = {} /\ Inside(cbw)
           /\ e.queue = Joined(d.queue, Done(d, cbw)) /\ e.halted = d.halted
  <2> DEFINE s == Done(d, cbw)
  <2>1. /\ s \in Seq(Packets) /\ Len(s) = IF cbw.bytes = 0 THEN 1 ELSE 2
        /\ s[Len(s)].kind = "status" /\ s[Len(s)].tag = cbw.tag /\ s[Len(s)].status = "passed"
        /\ cbw.bytes > 0 => s[1].kind = "data" /\ s[1].tag = 0 /\ s[1].bytes = cbw.bytes
        /\ cbw.op = "read" /\ cbw.bytes > 0 =>
             /\ s[2].residue = cbw.bytes - BlockSize * cbw.length
             /\ s[2].residue = 0 => s[1].value = Stored(d, cbw)
    BY <1>1, <1>9, DoneIs
  <2>2. e.queue = Joined(d.queue, s)
    BY <1>9
  <2> HIDE DEF s
  <2>3. Stored(e, cbw) = Stored(d, cbw)
    BY <1>2 DEF Stored
  <2>4. ASSUME NEW k \in 1 .. Len(e.queue), Accepts(h, e.queue[k])
        PROVE  IsAnswer(g, e, k)
    <3> DEFINE n == Len(d.queue)
    <3>8. s \in Seq(Packets)
      BY <2>1
    <3>9. IsNew(e.queue, d.queue, s, k)
      BY <2>2, <2>4, <3>8, AcceptedIsNew
    <3>1. /\ k - n \in 1 .. Len(s) /\ e.queue[k] = s[k - n] /\ Len(e.queue) = n + Len(s) /\ n \in Nat
          /\ k > n + 1 => e.queue[k - 1] = s[k - n - 1]
      BY <3>9 DEF IsNew
    <3>2. s[k - n].kind = "status" /\ s[k - n].residue = 0
      BY <2>4, <3>1 DEF Accepts
    <3> HIDE DEF n
    <3>3. k = n + Len(s)
      <4>1. CASE cbw.bytes = 0
        BY <2>1, <3>1, <4>1
      <4>2. CASE cbw.bytes > 0
        <5>1. Len(s) = 2 /\ k - n # 1
          BY <2>1, <3>2, <4>2
        <5>2. k \in Int
          OBVIOUS
        <5>3. QED
          BY <3>1, <5>1, <5>2
      <4>3. QED
        BY <1>1, <4>1, <4>2
    <3>4. k = Len(e.queue) /\ e.writes = {} /\ e.pid.out = g.pid.out /\ "out" \notin e.halted
      BY <1>2, <1>9, <3>1, <3>3
    <3>5. ASSUME h.op \in Calls
          PROVE  h.count = BlockSize * TransferLength(h)
      <4>1. CASE h.count = 0
        BY <4>1 DEF TransferLength, BlockSize, LengthField
      <4>2. CASE h.count # 0
        <5>1. h.op = "read" /\ cbw.bytes > 0 /\ Len(s) = 2 /\ k - n = 2
          BY <1>1, <1>9, <2>1, <3>3, <3>5, <4>2, <3>1 DEF Calls
        <5>2. cbw.bytes - BlockSize * cbw.length = 0 /\ cbw.length \in Nat
          BY <1>1, <2>1, <3>2, <5>1 DEF CommandBlocks
        <5>3. QED
          BY <1>1, <3>5, <5>2 DEF BlockSize
      <4>3. QED
        BY <4>1, <4>2
    <3>6. ~(h.op = "write" /\ h.count > 0)
      BY <1>1, <1>9
    <3>7. ASSUME h.op = "read", h.count > 0
          PROVE  k # 1 /\ e.queue[k - 1].value = Stored(e, cbw)
      <4>1. cbw.op = "read" /\ cbw.bytes > 0 /\ Len(s) = 2 /\ k - n = 2 /\ k > n + 1 /\ k # 1
        BY <1>1, <2>1, <3>1, <3>3, <3>7
      <4>2. s[1].value = Stored(d, cbw)
        BY <2>1, <3>2, <4>1
      <4>3. k - n - 1 = 1
        BY <4>1, <3>1
      <4>4. QED
        BY <2>3, <3>1, <4>1, <4>2, <4>3
    <3>10. QED
      BY <1>1, <3>4, <3>5, <3>6, <3>7 DEF IsAnswer
  <2>5. QED
    BY <1>3, <1>9, <2>4 DEF AnswersInv
<1>10. CASE e.writes = {} /\ e.queue = Joined(d.queue, <<StatusOf(cbw, "failed", 0)>>)
  BY <1>1, <1>5, <1>10
<1>11. CASE d.writes = {} /\ CommandAnswered(d, cbw, e)
  BY <1>7, <1>8, <1>9, <1>10, <1>11 DEF CommandAnswered
<1>12. QED
  BY <1>2, <1>6, <1>11

LEMMA TagsBehind ==
  ASSUME NEW d \in Drives, NEW tag \in Nat, TagsUpTo(d, tag - 1)
  PROVE  TagsUpTo(d, tag)
<1>1. d.queue \in Seq(Packets)
  BY DEF Drives
<1>2. \A k \in 1 .. Len(d.queue) : d.queue[k] \in Packets
  BY <1>1, ElementOfSeq
<1>3. /\ \A k \in 1 .. Len(d.queue) : d.queue[k].tag \in Nat
      /\ \A c \in d.writes : c.tag \in Nat
  BY <1>2 DEF Packets, Drives, CommandBlocks
<1>4. QED
  BY <1>3 DEF TagsUpTo

LEMMA SendCommandKeeps ==
  ASSUME NEW h, NEW d, StorageInv(h, d), h.pc = "cbw",
         NEW t \in OutTransfer(h, d, "command", CommandBlock(h), 1),
         NEW g, g = IF t[2] THEN [h EXCEPT !.pc = IF h.count > 0 THEN "data" ELSE "csw", !.pid.out = Toggle(@, 1)]
                    ELSE After(h, -1)
  PROVE  StorageInv(g, t[1])
<1> DEFINE e == t[1]
           pc == IF h.count > 0 THEN "data" ELSE "csw"
<1>1. /\ IsObject(h) /\ d \in Drives /\ h.nCWBTag \in Nat /\ TagsUpTo(d, h.nCWBTag - 1) /\ h.op # "none"
      /\ NamedInv(h)
  BY DEF StorageInv, TagsInv, IsObject
<1>2. TagsUpTo(d, h.nCWBTag)
  BY <1>1, TagsBehind
<1>3. \/ ~t[2] /\ SendFails(d, e, h.nCWBTag)
      \/ /\ t[2] /\ "out" \notin d.halted
         /\ \/ d.pid.out = h.pid.out /\ e \in Took(d, "command", CommandBlock(h), 1)
            \/ d.pid.out # h.pid.out /\ e = d
  BY <1>1, <1>2, CommandSent
<1> HIDE DEF e
<1>4. CASE ~t[2] /\ SendFails(d, e, h.nCWBTag)
  <2>1. e \in Drives /\ TagsUpTo(e, h.nCWBTag) /\ g = After(h, -1)
    BY <1>4 DEF SendFails
  <2>2. StorageInv(g, e)
    BY <1>1, <2>1, FailureKeeps
  <2>3. QED
    BY <2>2 DEF e
<1>5. CASE t[2]
  <2>1. pc \in {"data", "csw"} /\ g = [h EXCEPT !.pc = pc, !.pid.out = Toggle(@, 1)]
    BY <1>5
  <2>7. PICK n \in Nat : n = 1
    OBVIOUS
  <2>8. g = [h EXCEPT !.pc = pc, !.pid.out = Toggle(@, n)]
    BY <2>1, <2>7
  <2> HIDE DEF pc
  <2>2. /\ IsObject(g) /\ g.pc = pc /\ g.op = h.op /\ g.result = h.result /\ g.nCWBTag = h.nCWBTag
        /\ g.count = h.count /\ g.data = h.data /\ g.ullOffset = h.ullOffset /\ g.tries = h.tries
        /\ g.named = h.named /\ g.since = h.since /\ g.unreset = h.unreset /\ g.moved = h.moved
        /\ g.pid.in = h.pid.in /\ g.pid.out = Toggle(h.pid.out, 1)
    <3>1. HasSent(h, g, pc, n)
      BY <1>1, <2>1, <2>8, CommandSentFields
    <3>2. QED
      BY <2>7, <3>1 DEF HasSent
  <2>3. NamedInv(g) /\ SyncInv(g, e) /\ RealInv(g, e)
    BY <1>1, <2>1, <2>2 DEF NamedInv, SyncInv, RealInv
  <2>4. CASE d.pid.out = h.pid.out /\ "out" \notin d.halted /\ e \in Took(d, "command", CommandBlock(h), 1)
    <3>1. AnswersInv(g, e)
      BY <1>1, <2>2, <2>4, AnswersToCommand, ZenonT(40)
    <3>2. CommandBlock(h) \in CommandBlocks /\ CommandBlock(h).tag = h.nCWBTag
      BY <1>1, BlockOfCommand
    <3>3. e \in Drives
      BY <1>1, <2>4, <3>2, CommandTaken
    <3>4. TagsUpTo(e, h.nCWBTag)
      BY <1>1, <1>2, <2>4, <3>2, TagsTaken
    <3>5. StorageInv(g, e)
      BY <2>1, <2>2, <2>3, <3>1, <3>3, <3>4 DEF StorageInv, TagsInv
    <3>6. QED
      BY <3>5 DEF e
  <2>5. CASE e = d
    <3>1. ASSUME NEW k \in 1 .. Len(d.queue), Accepts(g, d.queue[k])
          PROVE  FALSE
      <4>1. d.queue[k].tag <= h.nCWBTag - 1
        BY <1>1 DEF TagsUpTo
      <4>2. QED
        BY <1>1, <2>2, <3>1, <4>1 DEF Accepts
    <3>2. \A c \in d.writes : c.tag # h.nCWBTag
      <4>1. \A c \in d.writes : c.tag <= h.nCWBTag - 1
        BY <1>1 DEF TagsUpTo
      <4>2. QED
        BY <1>1, <4>1
    <3>3. AnswersInv(g, d)
      BY <2>2, <3>1, <3>2 DEF AnswersInv
    <3>4. StorageInv(g, d)
      BY <1>1, <1>2, <2>1, <2>2, <2>3, <2>5, <3>3 DEF StorageInv, TagsInv
    <3>5. QED
      BY <2>5, <3>4 DEF e
  <2>6. QED
    BY <1>3, <1>5, <2>4, <2>5
<1>6. QED
  BY <1>3, <1>4, <1>5

-----------------------------------------------------------------------------
(* The data and the status of a command.                                    *)

LEMMA DataReceivedFields ==
  ASSUME NEW h, IsObject(h), h.op \notin {"none", "write"}, NEW packet \in Packets,
         NEW g, g = [h EXCEPT !.pc = "csw", !.data = packet.value, !.moved = packet.bytes,
                              !.pid.in = Toggle(@, Blocks(packet.bytes))]
  PROVE  HasReceived(h, g, packet)
<1> DEFINE in == Toggle(h.pid.in, Blocks(packet.bytes))
           p == [h.pid EXCEPT !.in = in]
           k == [h EXCEPT !.pc = "csw", !.data = packet.value, !.moved = packet.bytes, !.pid = p]
<1>1. h.pid \in Pids /\ h.pid.in \in {0, 1} /\ packet.value \in Seq(Marks) /\ packet.bytes \in Nat
  BY DEF IsObject, Pids, Packets
<1>2. Blocks(packet.bytes) \in Nat
  BY <1>1 DEF Blocks, BlockSize
<1>3. in \in {0, 1}
  BY <1>1, <1>2, Toggles
<1>4. g = k
  BY DEF IsObject
<1> HIDE DEF in
<1>5. p \in Pids /\ p.out = h.pid.out /\ p.in = in
  BY <1>1, <1>3 DEF Pids
<1> HIDE DEF p
<1>6. DOMAIN k = DOMAIN h
  OBVIOUS
<1>7. /\ k.pc = "csw" /\ k.op = h.op /\ k.result = h.result /\ k.nCWBTag = h.nCWBTag /\ k.calls = h.calls
      /\ k.count = h.count /\ k.data = packet.value /\ k.ullOffset = h.ullOffset /\ k.tries = h.tries
      /\ k.named = h.named /\ k.since = h.since /\ k.unreset = h.unreset /\ k.moved = packet.bytes
      /\ k.pid = p
  BY DEF IsObject
<1> HIDE DEF k
<1>8. IsObject(k)
  BY <1>1, <1>5, <1>6, <1>7 DEF IsObject
<1>9. QED
  BY <1>4, <1>5, <1>7, <1>8 DEF HasReceived, in

LEMMA SameTags ==
  ASSUME NEW d, NEW e, e.queue = d.queue, e.writes = d.writes, NEW tag, TagsUpTo(d, tag)
  PROVE  TagsUpTo(e, tag)
BY DEF TagsUpTo

LEMMA RestTags ==
  ASSUME NEW d \in Drives, NEW e, d.queue # <<>>, e.queue = Tail(d.queue), e.writes = d.writes, NEW tag,
         TagsUpTo(d, tag)
  PROVE  TagsUpTo(e, tag) /\ IsRest(e.queue, d.queue)
<1> DEFINE q == d.queue
           r == e.queue
<1>1. q \in Seq(Packets) /\ q # <<>> /\ r = Tail(q)
  BY DEF Drives
<1> HIDE DEF q, r
<1>2. IsRest(r, q)
  BY <1>1, RestIs
<1>3. \A k \in 1 .. Len(r) : k + 1 \in 1 .. Len(q) /\ r[k] = q[k + 1]
  BY <1>2 DEF IsRest
<1>4. \A k \in 1 .. Len(q) : q[k].tag <= tag
  BY DEF TagsUpTo, q
<1>5. \A k \in 1 .. Len(r) : r[k].tag <= tag
  BY <1>3, <1>4
<1>6. TagsUpTo(e, tag)
  BY <1>5 DEF TagsUpTo, r
<1>7. QED
  BY <1>2, <1>6 DEF q, r

LEMMA ReceiveDataKeeps ==
  ASSUME NEW h, NEW d, StorageInv(h, d), h.pc = "data", h.op # "write", NEW t \in InTransfer(h, d),
         NEW g, g = IF t[2] /\ Head(d.queue).bytes <= h.count
                    THEN [h EXCEPT !.pc = "csw", !.data = Head(d.queue).value, !.moved = Head(d.queue).bytes,
                                   !.pid.in = Toggle(@, Blocks(Head(d.queue).bytes))]
                    ELSE After(h, -1)
  PROVE  StorageInv(g, t[1])
<1> DEFINE e == t[1]
<1>1. /\ IsObject(h) /\ d \in Drives /\ TagsUpTo(d, h.nCWBTag) /\ h.op \notin {"none", "write"} /\ NamedInv(h)
      /\ AnswersInv(h, d)
  BY DEF StorageInv, TagsInv, IsObject
<1>2. \/ ~t[2] /\ ReceiveFails(h, d, e)
      \/ t[2] /\ ReceiveWorks(h, d, e)
  BY <1>1, ReceivedIs
<1> HIDE DEF e
<1>3. ASSUME e \in Drives, TagsUpTo(e, h.nCWBTag), g = After(h, -1)
      PROVE  StorageInv(g, t[1])
  <2>1. StorageInv(g, e)
    BY <1>1, <1>3, FailureKeeps
  <2>2. QED
    BY <2>1 DEF e
<1>4. CASE ~t[2] /\ ReceiveFails(h, d, e)
  <2>1. e \in Drives /\ TagsUpTo(e, h.nCWBTag)
    BY <1>1, <1>4, SameTags DEF ReceiveFails
  <2>2. QED
    BY <1>3, <1>4, <2>1
<1>5. CASE t[2] /\ ReceiveWorks(h, d, e)
  <2> DEFINE packet == Head(d.queue)
  <2>1. /\ e \in Drives /\ e.medium = d.medium /\ e.writes = d.writes /\ e.halted = d.halted
        /\ e.queue = Tail(d.queue) /\ e.pid.out = d.pid.out /\ d.queue # <<>>
    BY <1>5 DEF ReceiveWorks
  <2>2. TagsUpTo(e, h.nCWBTag) /\ IsRest(e.queue, d.queue)
    BY <1>1, <2>1, RestTags
  <2>3. packet \in Packets /\ packet = d.queue[1]
    BY <2>2 DEF IsRest
  <2> HIDE DEF packet
  <2>4. CASE ~(packet.bytes <= h.count)
    BY <1>3, <2>1, <2>2, <2>4 DEF packet
  <2>5. CASE packet.bytes <= h.count
    <3>1. g = [h EXCEPT !.pc = "csw", !.data = packet.value, !.moved = packet.bytes,
                        !.pid.in = Toggle(@, Blocks(packet.bytes))]
      BY <1>5, <2>5 DEF packet
    <3>2. HasReceived(h, g, packet)
      BY <1>1, <2>3, <3>1, DataReceivedFields
    <3>3. /\ IsObject(g) /\ g.pc = "csw" /\ g.op = h.op /\ g.nCWBTag = h.nCWBTag /\ g.count = h.count
          /\ g.data = packet.value /\ g.ullOffset = h.ullOffset /\ g.named = h.named
          /\ g.pid.out = h.pid.out
      BY <3>2 DEF HasReceived
    <3>4. CommandBlock(g) = CommandBlock(h) /\ TransferLength(g) = TransferLength(h)
      BY <3>3, SameBlock, ZenonT(40)
    <3>5. Stored(e, CommandBlock(g)) = Stored(d, CommandBlock(h))
      <4>1. \A c : Stored(e, c) = Stored(d, c)
        <5>1. e.medium = d.medium
          BY <2>1
        <5>2. QED
          BY <5>1, Zenon DEF Stored
      <4>2. QED
        BY <3>4, <4>1, Zenon
    <3>6. ASSUME NEW k \in 1 .. Len(e.queue), Accepts(g, e.queue[k])
          PROVE  IsAnswer(g, e, k)
      <4>1. /\ k + 1 \in 1 .. Len(d.queue) /\ e.queue[k] = d.queue[k + 1] /\ Len(d.queue) \in Nat
            /\ Len(e.queue) = Len(d.queue) - 1
            /\ k # 1 => e.queue[k - 1] = d.queue[k]
        <5>1. /\ Len(d.queue) \in Nat /\ Len(e.queue) = Len(d.queue) - 1
              /\ \A i \in 1 .. Len(e.queue) : e.queue[i] = d.queue[i + 1]
          BY <2>2 DEF IsRest
        <5>2. k + 1 \in 1 .. Len(d.queue) /\ e.queue[k] = d.queue[k + 1]
          BY <5>1
        <5>3. ASSUME k # 1
              PROVE  e.queue[k - 1] = d.queue[k]
          <6>1. k - 1 \in 1 .. Len(e.queue) /\ (k - 1) + 1 = k
            BY <5>1, <5>3
          <6>2. QED
            BY <5>1, <6>1
        <5>4. QED
          BY <5>1, <5>2, <5>3
      <4>2. Accepts(h, d.queue[k + 1])
        BY <3>3, <3>6, <4>1 DEF Accepts
      <4>3. IsAnswer(h, d, k + 1)
        BY <1>1, <4>1, <4>2 DEF AnswersInv
      <4>4. /\ k = Len(e.queue) /\ e.writes = {} /\ e.pid.out = g.pid.out /\ "out" \notin e.halted
            /\ g.op \in Calls => g.count = BlockSize * TransferLength(g)
        BY <2>1, <3>3, <3>4, <4>1, <4>3 DEF IsAnswer
      <4>5. ASSUME h.op = "read", h.count > 0
            PROVE  d.queue[k].value = Stored(d, CommandBlock(h))
        <5>1. k + 1 # 1 /\ (k + 1) - 1 = k
          OBVIOUS
        <5>2. d.queue[(k + 1) - 1].value = Stored(d, CommandBlock(h))
          BY <4>3, <4>5, <5>1 DEF IsAnswer
        <5>3. QED
          BY <5>1, <5>2
      <4>6. ASSUME g.op = "read", g.count > 0
            PROVE  IF k = 1 THEN g.pc = "csw" /\ g.data = Stored(e, CommandBlock(g))
                   ELSE e.queue[k - 1].value = Stored(e, CommandBlock(g))
        BY <2>3, <3>3, <3>5, <4>1, <4>5, <4>6
      <4>7. QED
        BY <1>1, <3>3, <4>4, <4>6 DEF IsAnswer
    <3>7. AnswersInv(g, e)
      <4>1. \A c \in e.writes : c.tag = g.nCWBTag => c = CommandBlock(g)
        BY <1>1, <2>1, <3>3, <3>4 DEF AnswersInv
      <4>2. QED
        BY <3>6, <4>1 DEF AnswersInv
    <3>8. NamedInv(g) /\ SyncInv(g, e) /\ RealInv(g, e) /\ TagsInv(g, e)
      BY <1>1, <2>2, <3>3 DEF NamedInv, SyncInv, RealInv, TagsInv
    <3>9. StorageInv(g, e)
      BY <2>1, <3>3, <3>7, <3>8 DEF StorageInv
    <3>10. QED
      BY <3>9 DEF e
  <2>6. QED
    BY <2>4, <2>5
<1>6. QED
  BY <1>2, <1>4, <1>5

LEMMA DataSentFields ==
  ASSUME NEW h, IsObject(h), h.op # "none",
         NEW g, g = [h EXCEPT !.pc = "csw", !.moved = h.count, !.pid.out = Toggle(@, Blocks(h.count))]
  PROVE  HasSent([h EXCEPT !.moved = h.count], g, "csw", Blocks(h.count))
<1> DEFINE k == [h EXCEPT !.moved = h.count]
           n == Blocks(h.count)
<1>1. /\ DOMAIN k = DOMAIN h /\ k.pc = h.pc /\ k.op = h.op /\ k.result = h.result /\ k.nCWBTag = h.nCWBTag
      /\ k.calls = h.calls /\ k.count = h.count /\ k.data = h.data /\ k.ullOffset = h.ullOffset
      /\ k.tries = h.tries /\ k.named = h.named /\ k.since = h.since /\ k.unreset = h.unreset
      /\ k.moved = h.count /\ k.pid = h.pid
  BY DEF IsObject
<1>2. n \in Nat
  BY DEF IsObject, Blocks, BlockSize
<1>3. g = [k EXCEPT !.pc = "csw", !.pid.out = Toggle(@, n)]
  BY DEF IsObject
<1> HIDE DEF k, n
<1>4. IsObject(k) /\ k.op # "none"
  BY <1>1 DEF IsObject
<1>5. PICK pc \in {"data", "csw"} : pc = "csw"
  OBVIOUS
<1>6. g = [k EXCEPT !.pc = pc, !.pid.out = Toggle(@, n)]
  BY <1>3, <1>5
<1>7. HasSent(k, g, pc, n)
  BY <1>2, <1>4, <1>6, CommandSentFields, ZenonT(40)
<1>8. QED
  BY <1>5, <1>7 DEF k, n

\* The data of a write that the device takes: what it answers is real.
LEMMA AnswersToData ==
  ASSUME NEW h, IsObject(h), h.pc = "data", h.op = "write", NEW d \in Drives, AnswersInv(h, d),
         d.pid.out = h.pid.out, "out" \notin d.halted,
         NEW e \in Took(d, "data", h.data, Blocks(h.count)),
         NEW g, g.op = h.op, g.nCWBTag = h.nCWBTag, g.count = h.count, g.ullOffset = h.ullOffset,
         g.data = h.data, g.pid.out = Toggle(h.pid.out, Blocks(h.count)), IsObject(g), g.pc = "csw"
  PROVE  AnswersInv(g, e)
<1> DEFINE value == h.data
           packets == Blocks(h.count)
           cbw == CommandBlock(h)
<1>1. value \in Seq(Marks) /\ Len(value) = 1 /\ packets \in Nat /\ h.count \in Nat
  BY SMTT(30) DEF IsObject, Blocks, BlockSize
<1>2. e \in Took(d, "data", value, packets) /\ g.pid.out = Toggle(h.pid.out, packets) /\ g.data = value
  OBVIOUS
<1>3. /\ cbw \in CommandBlocks /\ cbw.tag = h.nCWBTag /\ cbw.bytes = h.count /\ cbw.length = TransferLength(h)
      /\ cbw.address = BlockAddress(h) /\ CommandBlock(g) = cbw /\ TransferLength(g) = TransferLength(h)
      /\ BlockAddress(g) = BlockAddress(h)
  BY BlockOfCommand, SameBlock DEF Calls
<1> HIDE DEF value, packets, cbw
<1>4. /\ e \in Drives /\ e.pid.out = Toggle(d.pid.out, packets) /\ e.writes = {}
      /\ \/ /\ d.writes = {} /\ e.writes = {} /\ e.medium = d.medium /\ e.halted = d.halted
            /\ e.faults = d.faults /\ e.queue = d.queue
         \/ e.writes = {} /\ \E c \in d.writes : WriteAnswered(d, c, value, e)
  BY <1>1, <1>2, DataTaken
<1>5. e.pid.out = g.pid.out
  BY <1>2, <1>4
<1>6. \A p : Accepts(g, p) <=> Accepts(h, p)
  BY DEF Accepts
<1>7. CASE d.writes = {} /\ e.halted = d.halted /\ e.queue = d.queue
  <2>1. ASSUME NEW k \in 1 .. Len(e.queue), Accepts(g, e.queue[k])
        PROVE  IsAnswer(g, e, k)
    <3>1. IsAnswer(h, d, k)
      BY <1>6, <1>7, <2>1 DEF AnswersInv
    <3>2. /\ k = Len(e.queue) /\ "out" \notin e.halted /\ ~(h.op = "write" /\ h.count > 0)
          /\ h.op \in Calls => h.count = BlockSize * TransferLength(h)
      BY <1>7, <3>1 DEF IsAnswer
    <3>3. QED
      BY <1>3, <1>4, <1>5, <3>2 DEF IsAnswer
  <2>2. QED
    BY <1>4, <2>1 DEF AnswersInv
<1>8. CASE \E c \in d.writes : WriteAnswered(d, c, value, e)
  <2>1. PICK c \in d.writes : WriteAnswered(d, c, value, e)
    BY <1>8
  <2>2. c \in CommandBlocks
    BY DEF Drives
  <2>3. \A i \in 1 .. Len(d.queue) : ~Accepts(h, d.queue[i])
    BY <2>1 DEF AnswersInv, IsAnswer
  <2>4. CASE e.queue = Joined(d.queue, <<StatusOf(c, "failed", 0)>>)
    <3> DEFINE s == <<StatusOf(c, "failed", 0)>>
    <3>1. s \in Seq(Packets) /\ Len(s) = 1 /\ s[1].status = "failed"
      BY <2>2, FailedStatus
    <3>2. e.queue = Joined(d.queue, s)
      BY <2>4
    <3> HIDE DEF s
    <3>3. ASSUME NEW k \in 1 .. Len(e.queue), Accepts(h, e.queue[k])
          PROVE  FALSE
      <4>1. IsNew(e.queue, d.queue, s, k)
        BY <2>3, <3>1, <3>2, <3>3, AcceptedIsBehind
      <4>2. e.queue[k] = s[1]
        BY <3>1, <4>1 DEF IsNew
      <4>3. QED
        BY <3>1, <3>3, <4>2 DEF Accepts
    <3>4. QED
      BY <1>4, <1>6, <3>3 DEF AnswersInv
  <2>5. CASE /\ Inside(c) /\ e.halted = d.halted
             /\ e.queue = Joined(d.queue, <<StatusOf(c, "passed", BlockSize * c.length)>>)
             /\ \A b \in 0 .. MediumBlocks - 1 :
                  e.medium[b] = IF b >= c.address /\ b < c.address + c.length THEN value[1] ELSE d.medium[b]
    <3> DEFINE moved == BlockSize * c.length
               s == <<StatusOf(c, "passed", moved)>>
    <3>1. moved \in Int
      BY <2>2 DEF CommandBlocks, BlockSize
    <3>2. e.queue = Joined(d.queue, s)
      BY <2>5
    <3> HIDE DEF moved
    <3>3. /\ s \in Seq(Packets) /\ Len(s) = 1 /\ s[1].tag = c.tag /\ s[1].residue = c.bytes - moved
      BY <2>2, <3>1, PassedStatus
    <3> HIDE DEF s
    <3>4. ASSUME NEW k \in 1 .. Len(e.queue), Accepts(h, e.queue[k])
          PROVE  IsAnswer(g, e, k)
      <4>1. IsNew(e.queue, d.queue, s, k)
        BY <2>3, <3>2, <3>3, <3>4, AcceptedIsBehind
      <4>2. e.queue[k] = s[1] /\ k = Len(e.queue)
        BY <3>3, <4>1 DEF IsNew
      <4>3. c.tag = h.nCWBTag /\ c.bytes - moved = 0
        BY <3>3, <3>4, <4>2 DEF Accepts
      <4>4. c = cbw
        BY <4>3 DEF AnswersInv, cbw
      <4>5. h.count = BlockSize * TransferLength(h)
        BY <1>1, <1>3, <4>3, <4>4, <3>1 DEF moved
      <4>6. ASSUME NEW i \in 1 .. TransferLength(h)
            PROVE  e.medium[BlockAddress(h) + i - 1] = value[1]
        <5> DEFINE b == BlockAddress(h) + i - 1
        <5>1. /\ MediumBlocks \in Nat /\ cbw.address \in Nat /\ cbw.length \in Nat
              /\ cbw.address + cbw.length <= MediumBlocks
          BY <1>3, <2>5, <4>4, StorageAssumption DEF CommandBlocks, Inside
        <5>2. b \in 0 .. MediumBlocks - 1 /\ b >= c.address /\ b < c.address + c.length
          BY <1>3, <4>4, <5>1
        <5> HIDE DEF b
        <5>3. e.medium[b] = value[1]
          BY <2>5, <5>2
        <5>4. QED
          BY <5>3 DEF b
      <4>7. QED
        BY <1>2, <1>3, <1>4, <1>5, <2>5, <4>2, <4>5, <4>6 DEF IsAnswer
    <3>5. QED
      BY <1>4, <1>6, <3>4 DEF AnswersInv
  <2>6. QED
    BY <2>1, <2>4, <2>5 DEF WriteAnswered
<1>9. QED
  BY <1>4, <1>7, <1>8

LEMMA SendDataKeeps ==
  ASSUME NEW h, NEW d, StorageInv(h, d), h.pc = "data", h.op = "write",
         NEW t \in OutTransfer(h, d, "data", h.data, Blocks(h.count)),
         NEW g, g = IF t[2] THEN [h EXCEPT !.pc = "csw", !.moved = h.count, !.pid.out = Toggle(@, Blocks(h.count))]
                    ELSE After(h, -1)
  PROVE  StorageInv(g, t[1])
<1> DEFINE e == t[1]
<1>1. /\ IsObject(h) /\ d \in Drives /\ h.nCWBTag \in Nat /\ TagsUpTo(d, h.nCWBTag) /\ h.op # "none"
      /\ NamedInv(h) /\ AnswersInv(h, d)
  BY DEF StorageInv, TagsInv, IsObject
<1>2. \/ ~t[2] /\ SendFails(d, e, h.nCWBTag)
      \/ /\ t[2] /\ "out" \notin d.halted
         /\ \/ d.pid.out = h.pid.out /\ e \in Took(d, "data", h.data, Blocks(h.count))
            \/ d.pid.out # h.pid.out /\ e = d
  BY <1>1, DataSent
<1> HIDE DEF e
<1>3. CASE ~t[2] /\ SendFails(d, e, h.nCWBTag)
  <2>1. e \in Drives /\ TagsUpTo(e, h.nCWBTag) /\ g = After(h, -1)
    BY <1>3 DEF SendFails
  <2>2. StorageInv(g, e)
    BY <1>1, <2>1, FailureKeeps
  <2>3. QED
    BY <2>2 DEF e
<1>4. CASE t[2]
  <2> DEFINE k == [h EXCEPT !.moved = h.count]
  <2>1. /\ k.op = h.op /\ k.nCWBTag = h.nCWBTag /\ k.count = h.count /\ k.data = h.data
        /\ k.ullOffset = h.ullOffset /\ k.named = h.named /\ k.pid = h.pid
    BY <1>1 DEF IsObject
  <2>2. HasSent(k, g, "csw", Blocks(h.count))
    <3>1. g = [h EXCEPT !.pc = "csw", !.moved = h.count, !.pid.out = Toggle(@, Blocks(h.count))]
      BY <1>4
    <3>2. QED
      BY <1>1, <3>1, DataSentFields
  <2> HIDE DEF k
  <2>3. /\ IsObject(g) /\ g.pc = "csw" /\ g.op = h.op /\ g.nCWBTag = h.nCWBTag /\ g.count = h.count
        /\ g.data = h.data /\ g.ullOffset = h.ullOffset /\ g.named = h.named
        /\ g.pid.out = Toggle(h.pid.out, Blocks(h.count))
    BY <2>1, <2>2 DEF HasSent
  <2>4. NamedInv(g) /\ SyncInv(g, e) /\ RealInv(g, e)
    BY <1>1, <2>3 DEF NamedInv, SyncInv, RealInv
  <2>5. CASE d.pid.out = h.pid.out /\ "out" \notin d.halted /\ e \in Took(d, "data", h.data, Blocks(h.count))
    <3>1. AnswersInv(g, e)
      BY <1>1, <2>3, <2>5, AnswersToData
    <3> DEFINE value == h.data
               packets == Blocks(h.count)
    <3>2. value \in Seq(Marks) /\ Len(value) = 1 /\ packets \in Nat /\ e \in Took(d, "data", value, packets)
      BY <1>1, <2>5 DEF IsObject, Blocks, BlockSize
    <3> HIDE DEF value, packets
    <3>3. e \in Drives
      BY <1>1, <3>2, DataTaken
    <3>4. TagsUpTo(e, h.nCWBTag)
      BY <1>1, <3>2, TagsOfData
    <3>5. StorageInv(g, e)
      BY <2>3, <2>4, <3>1, <3>3, <3>4 DEF StorageInv, TagsInv
    <3>6. QED
      BY <3>5 DEF e
  <2>6. CASE d.pid.out # h.pid.out /\ e = d
    <3>1. \A i \in 1 .. Len(d.queue) : ~Accepts(h, d.queue[i])
      BY <1>1, <2>6 DEF AnswersInv, IsAnswer
    <3>2. CommandBlock(g) = CommandBlock(h)
      BY <2>3, SameBlock
    <3>3. AnswersInv(g, d)
      <4>1. \A c \in d.writes : c.tag = g.nCWBTag => c = CommandBlock(g)
        BY <1>1, <2>3, <3>2 DEF AnswersInv
      <4>2. \A i \in 1 .. Len(d.queue) : ~Accepts(g, d.queue[i])
        BY <2>3, <3>1 DEF Accepts
      <4>3. QED
        BY <4>1, <4>2 DEF AnswersInv
    <3>4. StorageInv(g, d)
      BY <1>1, <2>3, <2>4, <2>6, <3>3 DEF StorageInv, TagsInv
    <3>5. QED
      BY <2>6, <3>4 DEF e
  <2>7. QED
    BY <1>2, <1>4, <2>5, <2>6
<1>5. QED
  BY <1>2, <1>3, <1>4

LEMMA StatusFields ==
  ASSUME NEW h, IsObject(h), NEW g, g = [h EXCEPT !.pid.in = Toggle(@, 1)]
  PROVE  HasHeard(h, g)
<1> DEFINE in == Toggle(h.pid.in, 1)
           p == [h.pid EXCEPT !.in = in]
           k == [h EXCEPT !.pid = p]
<1>1. h.pid \in Pids /\ h.pid.in \in {0, 1}
  BY DEF IsObject, Pids
<1>2. in \in {0, 1}
  BY <1>1 DEF Toggle
<1>3. g = k
  BY DEF IsObject
<1> HIDE DEF in
<1>4. p \in Pids /\ p.out = h.pid.out /\ p.in = in
  BY <1>1, <1>2 DEF Pids
<1> HIDE DEF p
<1>5. DOMAIN k = DOMAIN h
  OBVIOUS
<1>6. /\ k.pc = h.pc /\ k.op = h.op /\ k.result = h.result /\ k.nCWBTag = h.nCWBTag /\ k.calls = h.calls
      /\ k.count = h.count /\ k.data = h.data /\ k.ullOffset = h.ullOffset /\ k.tries = h.tries
      /\ k.named = h.named /\ k.since = h.since /\ k.unreset = h.unreset /\ k.moved = h.moved /\ k.pid = p
  BY DEF IsObject
<1> HIDE DEF k
<1>7. IsObject(k)
  BY <1>4, <1>5, <1>6 DEF IsObject
<1>8. QED
  BY <1>3, <1>4, <1>6, <1>7 DEF HasHeard, in

\* An accepted status leaves the device with nothing else, and in step with the driver.
LEMMA AcceptedEnds ==
  ASSUME NEW h, NEW d, StorageInv(h, d), h.pc = "csw", Accepts(h, Head(d.queue)),
         NEW e, ReceiveWorks(h, d, e), NEW g, HasHeard(h, g)
  PROVE  Sync(g, e) /\ IsAnswer(h, d, 1)
<1> DEFINE q == d.queue
           csw == Head(q)
           r == e.queue
<1>1. /\ d \in Drives /\ AnswersInv(h, d) /\ q \in Seq(Packets)
  BY DEF StorageInv, Drives
<1>2. /\ q # <<>> /\ "in" \notin d.halted /\ d.pid.in = h.pid.in /\ e \in Drives /\ e.writes = d.writes
      /\ e.halted = d.halted /\ r = Tail(q) /\ e.pid.out = d.pid.out
      /\ e.pid.in = Toggle(d.pid.in, Blocks(csw.bytes))
  BY DEF ReceiveWorks
<1> HIDE DEF q, r
<1>3. IsRest(r, q)
  BY <1>1, <1>2, RestIs
<1>4. /\ Len(q) \in Nat \ {0} /\ Len(r) = Len(q) - 1 /\ r \in Seq(Packets) /\ csw = q[1] /\ csw \in Packets
  BY <1>3 DEF IsRest
<1>5. Accepts(h, q[1])
  BY <1>4 DEF q
<1>6. IsAnswer(h, d, 1)
  <2>1. 1 \in 1 .. Len(q)
    BY <1>4
  <2>2. QED
    BY <1>1, <1>5, <2>1 DEF AnswersInv, q
<1>7. 1 = Len(q) /\ d.writes = {} /\ d.pid.out = h.pid.out /\ "out" \notin d.halted
  BY <1>6 DEF IsAnswer, q
<1>8. r = <<>>
  <2>1. Len(q) = 1 /\ Len(r) = Len(q) - 1 /\ r \in Seq(Packets)
    BY <1>4, <1>7
  <2>2. Len(r) = 0
    BY <2>1
  <2>3. QED
    BY <2>1, <2>2, EmptySeq
<1>9. e.pid.in = g.pid.in /\ e.pid.out = g.pid.out
  <2>1. csw.kind = "status"
    BY DEF Accepts, q
  <2>2. csw.bytes = 13
    BY <1>4, <2>1 DEF Packets, CSWSize
  <2>3. Blocks(csw.bytes) = 1
    BY <2>2 DEF Blocks, BlockSize
  <2>4. QED
    BY <1>2, <1>7, <2>3 DEF HasHeard
<1>10. QED
  BY <1>2, <1>6, <1>7, <1>8, <1>9 DEF Sync, Apart, r

\* A call that returns what it was asked for.
LEMMA SuccessReturns ==
  ASSUME NEW h, IsObject(h), h.op \in Calls, NEW d \in Drives, Sync(h, d),
         h.count = BlockSize * TransferLength(h),
         h.count > 0 => \A i \in 1 .. TransferLength(h) : Buffer(h, i) = d.medium[BlockAddress(h) + i - 1],
         NEW g, g = Return(h, h.count)
  PROVE  StorageInv(g, d)
<1> DEFINE count == h.count
<1>1. count \in Int /\ g = Return(h, count) /\ h.nCWBTag \in Nat
  BY DEF IsObject
<1> HIDE DEF count
<1>2. HasReturned(h, g, count)
  BY <1>1, ReturnFields
<1>3. BlockAddress(g) = BlockAddress(h) /\ \A i : Buffer(g, i) = Buffer(h, i)
  BY <1>2 DEF HasReturned, BlockAddress, Buffer
<1>4. h.count \div BlockSize = TransferLength(h) /\ TransferLength(h) < LengthField
  BY <1>1 DEF TransferLength, BlockSize, LengthField, count
<1>5. RealInv(g, d)
  BY <1>2, <1>3, <1>4 DEF HasReturned, RealInv, count
<1>6. Sync(g, d)
  BY <1>2 DEF HasReturned, Sync, Apart
<1>7. TagsUpTo(d, g.nCWBTag)
  <2>1. d.queue = <<>> /\ d.writes = {}
    BY DEF Sync
  <2>2. QED
    BY <2>1 DEF TagsUpTo
<1>8. QED
  BY <1>2, <1>5, <1>6, <1>7 DEF HasReturned, StorageInv, TagsInv, AnswersInv, NamedInv, SyncInv

LEMMA SetupGoesOn ==
  ASSUME NEW h, IsObject(h), h.op \in Setup, ~h.named, NEW d \in Drives, Sync(h, d),
         NEW result \in Int, NEW g, g = Configured(h, result)
  PROVE  StorageInv(g, d)
<1>1. /\ IsObject(g) /\ g.op \in Setup /\ g.pid = h.pid /\ g.unreset = h.unreset
      /\ \/ g.pc = "cbw" /\ g.nCWBTag = h.nCWBTag + 1 /\ g.named = h.named
         \/ g.pc = "idle" /\ g.nCWBTag = h.nCWBTag /\ (g.named = h.named \/ result >= 0)
  BY SetupFollows
<1>2. h.nCWBTag \in Nat /\ g.op \notin Calls
  BY <1>1 DEF IsObject, Setup, Calls
<1>3. \A tag : TagsUpTo(d, tag)
  <2>1. d.queue = <<>> /\ d.writes = {}
    BY DEF Sync
  <2>2. QED
    BY <2>1 DEF TagsUpTo
<1>4. Sync(g, d)
  BY <1>1 DEF Sync, Apart
<1>5. TagsInv(g, d)
  BY <1>1, <1>2, <1>3 DEF TagsInv
<1>6. QED
  BY <1>1, <1>2, <1>4, <1>5 DEF StorageInv, AnswersInv, NamedInv, SyncInv, RealInv

LEMMA ReadStatusKeeps ==
  ASSUME NEW h, NEW d, StorageInv(h, d), h.pc = "csw", NEW t \in InTransfer(h, d),
         NEW fits, fits = (t[2] /\ Head(d.queue).bytes <= CSWSize),
         NEW k, k = (IF fits THEN [h EXCEPT !.pid.in = Toggle(@, 1)] ELSE h),
         NEW g, g = After(k, IF fits /\ Accepts(h, Head(d.queue)) THEN h.moved ELSE -1)
  PROVE  StorageInv(g, t[1])
<1> DEFINE e == t[1]
           csw == Head(d.queue)
<1>1. /\ IsObject(h) /\ d \in Drives /\ TagsUpTo(d, h.nCWBTag) /\ h.op # "none" /\ NamedInv(h)
  BY DEF StorageInv, TagsInv, IsObject
<1>2. \/ ~t[2] /\ ReceiveFails(h, d, e)
      \/ t[2] /\ ReceiveWorks(h, d, e)
  BY <1>1, ReceivedIs
<1> SUFFICES StorageInv(g, e)
  OBVIOUS
<1> HIDE DEF e
<1>3. e \in Drives /\ TagsUpTo(e, h.nCWBTag)
  <2>1. CASE ReceiveFails(h, d, e)
    BY <1>1, <2>1, SameTags DEF ReceiveFails
  <2>2. CASE ReceiveWorks(h, d, e)
    BY <1>1, <2>2, RestTags DEF ReceiveWorks
  <2>3. QED
    BY <1>2, <2>1, <2>2
<1>4. /\ IsObject(k) /\ k.pc = h.pc /\ k.op = h.op /\ k.nCWBTag = h.nCWBTag /\ k.named = h.named
      /\ fits => HasHeard(h, k)
  <2>1. CASE fits
    <3>1. HasHeard(h, k)
      BY <1>1, <2>1, StatusFields
    <3>2. QED
      BY <3>1 DEF HasHeard
  <2>2. CASE ~fits
    BY <1>1, <2>2
  <2>3. QED
    BY <2>1, <2>2
<1>5. NamedInv(k) /\ TagsUpTo(e, k.nCWBTag) /\ k.pc \in {"cbw", "data", "csw"} /\ k.op # "none"
  BY <1>1, <1>3, <1>4 DEF NamedInv
<1>6. ASSUME g = After(k, -1)
      PROVE  StorageInv(g, e)
  BY <1>3, <1>4, <1>5, <1>6, FailureKeeps
<1>7. CASE ~(fits /\ Accepts(h, csw))
  BY <1>6, <1>7
<1>8. CASE fits /\ Accepts(h, csw)
  <2>1. ReceiveWorks(h, d, e) /\ HasHeard(h, k) /\ g = After(k, h.moved)
    BY <1>2, <1>4, <1>8
  <2>2. Sync(k, e) /\ IsAnswer(h, d, 1)
    BY <1>8, <2>1, AcceptedEnds
  <2>3. CASE h.op \in Setup
    <3>1. h.op \notin Calls /\ ~k.named
      BY <1>1, <1>4, <2>3 DEF Setup, Calls, NamedInv
    <3> DEFINE result == h.moved
    <3>2. result \in Int /\ g = Configured(k, result)
      BY <1>1, <1>4, <2>1, <3>1 DEF After, Calls, IsObject
    <3> HIDE DEF result
    <3>3. QED
      BY <1>3, <1>4, <2>2, <2>3, <3>1, <3>2, SetupGoesOn
  <2>4. CASE h.op \in Calls
    <3>1. \/ g = Return(k, k.count)
          \/ g = Reset(k)
      BY <1>4, <2>1, <2>4 DEF After, Calls
    <3>2. CASE g = Reset(k)
      <4>1. g = After(k, -1)
        <5>1. k.count # -1 /\ ~(-1 >= 0)
          BY <1>4 DEF IsObject
        <5>2. QED
          BY <1>4, <2>4, <3>2, <5>1 DEF After, Calls
      <4>2. QED
        BY <1>6, <4>1
    <3>3. CASE g = Return(k, k.count)
      <4>1. /\ k.count = h.count /\ k.data = h.data /\ k.ullOffset = h.ullOffset /\ k.op = h.op
            /\ k.nCWBTag = h.nCWBTag
        BY <2>1 DEF HasHeard
      <4>2. /\ TransferLength(k) = TransferLength(h) /\ BlockAddress(k) = BlockAddress(h)
        BY <4>1, SameBlock
      <4>3. k.count = BlockSize * TransferLength(k)
        BY <2>2, <2>4, <4>1, <4>2 DEF IsAnswer
      <4>4. e.medium = d.medium
        BY <2>1 DEF ReceiveWorks
      <4>5. ASSUME k.count > 0, NEW i \in 1 .. TransferLength(k)
            PROVE  Buffer(k, i) = e.medium[BlockAddress(k) + i - 1]
        <5>1. CASE h.op = "write"
          <6>1. \A b \in 1 .. TransferLength(h) : d.medium[BlockAddress(h) + b - 1] = h.data[1]
            BY <2>2, <4>1, <4>5, <5>1 DEF IsAnswer
          <6>2. QED
            BY <4>1, <4>2, <4>4, <4>5, <5>1, <6>1 DEF Buffer
        <5>2. CASE h.op = "read"
          <6>1. h.data = Stored(d, CommandBlock(h))
            BY <2>2, <4>1, <4>5, <5>2 DEF IsAnswer
          <6>2. CommandBlock(h).length = TransferLength(h) /\ CommandBlock(h).address = BlockAddress(h)
            BY <1>1, <2>4, BlockOfCommand
          <6>3. h.data[i] = d.medium[BlockAddress(h) + i - 1]
            BY <4>2, <4>5, <6>1, <6>2 DEF Stored
          <6>4. QED
            BY <4>1, <4>2, <4>4, <5>2, <6>3 DEF Buffer
        <5>3. QED
          BY <2>4, <5>1, <5>2 DEF Calls
      <4>6. k.count > 0 => \A i \in 1 .. TransferLength(k) : Buffer(k, i) = e.medium[BlockAddress(k) + i - 1]
        BY <4>5
      <4>7. QED
        BY <1>3, <1>4, <2>2, <2>4, <3>3, <4>3, <4>6, SuccessReturns
    <3>4. QED
      BY <3>1, <3>2, <3>3
  <2>5. QED
    BY <1>1, <2>3, <2>4 DEF IsObject
<1>9. QED
  BY <1>7, <1>8

-----------------------------------------------------------------------------
(* Calls, and the reset between two tries.                                  *)

LEMMA TryKeeps ==
  ASSUME NEW h, IsObject(h), h.op \in Calls, NEW d \in Drives, TagsUpTo(d, h.nCWBTag), NEW g, g = Try(h)
  PROVE  StorageInv(g, d)
<1>1. CASE g = Reset(h)
  <2>1. IsObject(g) /\ g.pc = "reset" /\ g.op = h.op /\ g.nCWBTag = h.nCWBTag
    BY <1>1, ResetFields
  <2>2. QED
    BY <2>1 DEF StorageInv, TagsInv, AnswersInv, NamedInv, SyncInv, RealInv
<1>2. CASE g = Command(h, h.op, h.count)
  <2> DEFINE op == h.op
             count == h.count
  <2>1. op \in Setup \cup Calls /\ count \in Nat /\ (op = "write" => Len(h.data) = 1) /\ g = Command(h, op, count)
    BY <1>2 DEF IsObject
  <2> HIDE DEF op, count
  <2>2. IsObject(g) /\ g.pc = "cbw" /\ g.op = op /\ g.nCWBTag = h.nCWBTag + 1
    BY <2>1, CommandFields
  <2> h.nCWBTag \in Nat
    BY DEF IsObject
  <2>3. g.nCWBTag - 1 = h.nCWBTag /\ g.nCWBTag > 0
    BY <2>2
  <2>4. TagsInv(g, d)
    BY <2>2, <2>3 DEF TagsInv
  <2>5. QED
    BY <2>2, <2>4 DEF StorageInv, AnswersInv, NamedInv, SyncInv, RealInv, op
<1>3. QED
  BY <1>1, <1>2 DEF Try

LEMMA ConfigureKeeps ==
  ASSUME NEW h, NEW d, StorageInv(h, d), h.pc = "inquiry",
         NEW g, g = Command(h, "inquiry", FullLength("inquiry"))
  PROVE  StorageInv(g, d)
<1>1. PICK op \in Setup \cup Calls : op = "inquiry"
  BY DEF Setup
<1>2. PICK count \in Nat : count = FullLength("inquiry")
  BY DEF FullLength
<1>3. /\ IsObject(h) /\ g = Command(h, op, count) /\ op # "write" /\ ~h.named /\ TagsUpTo(d, h.nCWBTag)
      /\ d \in Drives
  BY <1>1, <1>2 DEF StorageInv, NamedInv, TagsInv
<1>4. IsObject(g) /\ g.pc = "cbw" /\ g.nCWBTag = h.nCWBTag + 1 /\ g.named = h.named
  BY <1>3, CommandFields
<1> h.nCWBTag \in Nat
  BY <1>3 DEF IsObject
<1>5. g.nCWBTag - 1 = h.nCWBTag /\ g.nCWBTag > 0
  BY <1>4
<1>6. TagsInv(g, d)
  BY <1>3, <1>4, <1>5 DEF TagsInv
<1>7. QED
  BY <1>3, <1>4, <1>6 DEF StorageInv, AnswersInv, NamedInv, SyncInv, RealInv

LEMMA SeekKeeps ==
  ASSUME NEW h, NEW d, StorageInv(h, d), h.pc = "idle", NEW offset \in Offsets,
         NEW g, g = [h EXCEPT !.ullOffset = offset, !.op = "none"]
  PROVE  StorageInv(g, d)
<1>1. IsObject(h) /\ d \in Drives /\ TagsUpTo(d, h.nCWBTag) /\ SyncInv(h, d) /\ offset \in Nat
  BY StorageAssumption DEF StorageInv, TagsInv
<1>2. DOMAIN g = DOMAIN h
  OBVIOUS
<1>3. /\ g.pc = "idle" /\ g.op = "none" /\ g.result = h.result /\ g.nCWBTag = h.nCWBTag
      /\ g.count = h.count /\ g.data = h.data /\ g.ullOffset = offset /\ g.tries = h.tries
      /\ g.pid = h.pid /\ g.named = h.named /\ g.since = h.since /\ g.unreset = h.unreset
      /\ g.moved = h.moved /\ g.calls = h.calls
  BY <1>1 DEF IsObject
<1>4. IsObject(g)
  BY <1>1, <1>2, <1>3 DEF IsObject
<1>5. SyncInv(g, d)
  BY <1>1, <1>3 DEF SyncInv, Sync, Apart
<1>6. QED
  BY <1>1, <1>3, <1>4, <1>5 DEF StorageInv, TagsInv, AnswersInv, NamedInv, RealInv, Calls

LEMMA CallFields ==
  ASSUME NEW h, IsObject(h), h.pc = "idle", NEW d \in Drives, NEW op \in Calls, NEW count \in Counts,
         NEW content \in Contents,
         NEW g, g = [h EXCEPT !.op = op, !.count = count, !.tries = Tries, !.calls = @ + 1,
                              !.since = d.faults, !.unreset = IF @ = 2 THEN 1 ELSE 0,
                              !.data = IF op = "write" THEN <<content>> ELSE <<>>]
  PROVE  HasBegun(h, d, g, op, count)
<1> DEFINE data == IF op = "write" THEN <<content>> ELSE <<>>
<1>1. data \in Seq(Marks) /\ (op = "write" => Len(data) = 1)
  <2>1. content \in Marks
    BY DEF Marks
  <2>2. QED
    BY <2>1
<1>2. count \in Nat /\ d.faults \in Nat
  BY StorageAssumption DEF Drives
<1> HIDE DEF data
<1>3. g = [h EXCEPT !.op = op, !.count = count, !.tries = Tries, !.calls = @ + 1,
                    !.since = d.faults, !.unreset = IF @ = 2 THEN 1 ELSE 0, !.data = data]
  BY DEF data
<1>4. DOMAIN g = DOMAIN h
  BY <1>3
<1>5. /\ g.pc = "idle" /\ g.op = op /\ g.result = h.result /\ g.nCWBTag = h.nCWBTag
      /\ g.count = count /\ g.data = data /\ g.ullOffset = h.ullOffset /\ g.tries = Tries
      /\ g.pid = h.pid /\ g.named = h.named /\ g.since = d.faults
      /\ g.unreset = IF h.unreset = 2 THEN 1 ELSE 0
      /\ g.moved = h.moved /\ g.calls = h.calls + 1
  BY <1>3, ZenonT(40) DEF IsObject
<1>6. IsObject(g)
  <2>1. Tries \in Int
    BY DEF Tries
  <2>2. h.calls + 1 \in Nat /\ g.unreset \in 0 .. 2
    BY <1>5 DEF IsObject
  <2>3. op \in {"none"} \cup Setup \cup Calls
    OBVIOUS
  <2> DEFINE calls == h.calls + 1
  <2>4. g.calls = calls /\ calls \in Nat
    BY <1>5, <2>2
  <2> HIDE DEF calls
  <2>5. QED
    BY <1>1, <1>2, <1>4, <1>5, <2>1, <2>2, <2>3, <2>4 DEF IsObject
<1>7. QED
  BY <1>5, <1>6 DEF HasBegun

LEMMA CallKeeps ==
  ASSUME NEW h, NEW d, StorageInv(h, d), h.pc = "idle", NEW op \in Calls, NEW count \in Counts,
         NEW k, HasBegun(h, d, k, op, count), NEW g, g = Try(k)
  PROVE  StorageInv(g, d)
<1>1. d \in Drives /\ TagsUpTo(d, k.nCWBTag) /\ k.op \in Calls /\ IsObject(k)
  BY DEF StorageInv, TagsInv, HasBegun
<1>2. QED
  BY <1>1, TryKeeps

LEMMA NotResetKeeps ==
  ASSUME NEW h, NEW d, StorageInv(h, d), h.pc \in {"reset", "clear1", "clear2"},
         NEW e \in Drives, TagsUpTo(e, h.nCWBTag), NEW g, g = Return([h EXCEPT !.unreset = 2], -1)
  PROVE  StorageInv(g, e)
<1> DEFINE k == [h EXCEPT !.unreset = 2]
<1>1. IsObject(h) /\ d \in Drives /\ TagsUpTo(d, h.nCWBTag) /\ h.nCWBTag \in Nat
  BY DEF StorageInv, TagsInv, IsObject
<1>2. /\ DOMAIN k = DOMAIN h /\ k.pc = h.pc /\ k.op = h.op /\ k.result = h.result /\ k.nCWBTag = h.nCWBTag
      /\ k.count = h.count /\ k.data = h.data /\ k.ullOffset = h.ullOffset /\ k.tries = h.tries
      /\ k.pid = h.pid /\ k.named = h.named /\ k.since = h.since /\ k.unreset = 2
      /\ k.moved = h.moved /\ k.calls = h.calls
  BY <1>1 DEF IsObject
<1>3. g = Return(k, -1)
  OBVIOUS
<1> HIDE DEF k
<1>4. IsObject(k)
  BY <1>1, <1>2 DEF IsObject
<1>5. -1 \in Int
  OBVIOUS
<1>6. HasReturned(k, g, -1)
  BY <1>3, <1>4, <1>5, ReturnFields
<1>7. QED
  BY <1>2, <1>6 DEF HasReturned, StorageInv, TagsInv, AnswersInv, NamedInv, SyncInv, RealInv

LEMMA PcFields ==
  ASSUME NEW h, IsObject(h), h.op \in Calls, NEW pc \in {"clear1", "clear2"}, NEW g, g = [h EXCEPT !.pc = pc]
  PROVE  HasPc(h, g, pc)
<1>1. DOMAIN g = DOMAIN h
  OBVIOUS
<1>2. /\ g.pc = pc /\ g.op = h.op /\ g.result = h.result /\ g.nCWBTag = h.nCWBTag
      /\ g.count = h.count /\ g.data = h.data /\ g.ullOffset = h.ullOffset /\ g.tries = h.tries
      /\ g.pid = h.pid /\ g.named = h.named /\ g.since = h.since /\ g.unreset = h.unreset
      /\ g.moved = h.moved /\ g.calls = h.calls
  BY DEF IsObject
<1>3. IsObject(g)
  BY <1>1, <1>2 DEF IsObject
<1>4. QED
  BY <1>2, <1>3 DEF HasPc

LEMMA ObeyedIs ==
  ASSUME NEW d \in Drives, NEW message \in {"reset", "clear1", "clear2"}, NEW e, e = Obeyed(d, message)
  PROVE  /\ e \in Drives /\ e.obeys = d.obeys /\ e.faults = d.faults /\ e.pid.in = d.pid.in
         /\ ("in" \in e.halted) = ("in" \in d.halted)
         /\ message = "reset" /\ message \in d.obeys => e.queue = <<>> /\ e.writes = {}
         /\ message # "reset" => e.queue = d.queue /\ e.writes = d.writes
         /\ message # "reset" /\ message \in d.obeys => "out" \notin e.halted /\ e.pid.out = 0
         /\ "out" \notin d.halted => "out" \notin e.halted
         /\ d.pid.out = 0 => e.pid.out = 0
         /\ \A tag : TagsUpTo(d, tag) => TagsUpTo(e, tag)
<1>1. CASE message \notin d.obeys
  BY <1>1 DEF Obeyed
<1>2. CASE message \in d.obeys /\ message = "reset"
  <2> DEFINE q == <<>>
  <2>1. e = [d EXCEPT !.queue = q, !.writes = {}]
    BY <1>2 DEF Obeyed
  <2>2. q \in Seq(Packets) /\ Len(q) = 0
    BY EmptySeq
  <2> HIDE DEF q
  <2>3. /\ e \in Drives /\ e.obeys = d.obeys /\ e.writes = {} /\ e.halted = d.halted /\ e.faults = d.faults
        /\ e.pid = d.pid /\ e.queue = q
    BY <2>1, <2>2 DEF Drives
  <2>4. \A tag : TagsUpTo(e, tag)
    BY <2>2, <2>3 DEF TagsUpTo
  <2>5. QED
    BY <1>2, <2>3, <2>4 DEF q
<1>3. CASE message \in d.obeys /\ message # "reset"
  <2> DEFINE p == [d.pid EXCEPT !.out = 0]
             halted == d.halted \ {"out"}
  <2>1. e = [d EXCEPT !.halted = halted, !.pid = p]
    BY <1>3 DEF Obeyed, Drives
  <2>2. p \in Pids /\ p.out = 0 /\ p.in = d.pid.in
    BY DEF Drives, Pids
  <2>3. halted \in SUBSET {"in", "out"} /\ "out" \notin halted /\ ("in" \in halted) = ("in" \in d.halted)
    BY DEF Drives
  <2> HIDE DEF p, halted
  <2>4. /\ e \in Drives /\ e.obeys = d.obeys /\ e.writes = d.writes /\ e.halted = halted
        /\ e.faults = d.faults /\ e.queue = d.queue /\ e.pid = p
    BY <2>1, <2>2, <2>3 DEF Drives
  <2>5. \A tag : TagsUpTo(d, tag) => TagsUpTo(e, tag)
    BY <2>4 DEF TagsUpTo
  <2>6. QED
    BY <1>3, <2>2, <2>3, <2>4, <2>5
<1>4. QED
  BY <1>1, <1>2, <1>3

LEMMA ResetDeviceKeeps ==
  ASSUME NEW h, NEW d, StorageInv(h, d), h.pc = "reset", NEW e, e = Obeyed(d, "reset"),
         NEW g, g = [h EXCEPT !.pc = "clear1"]
  PROVE  StorageInv(g, e) /\ HasPc(h, g, "clear1")
<1>1. IsObject(h) /\ d \in Drives /\ TagsUpTo(d, h.nCWBTag) /\ h.op \in Calls
  BY DEF StorageInv, TagsInv, IsObject
<1>2. PICK pc \in {"clear1", "clear2"} : pc = "clear1"
  OBVIOUS
<1>3. HasPc(h, g, pc)
  BY <1>1, <1>2, PcFields
<1>4. /\ e \in Drives /\ e.obeys = d.obeys /\ ("reset" \in d.obeys => e.queue = <<>> /\ e.writes = {})
      /\ TagsUpTo(e, h.nCWBTag)
  BY <1>1, ObeyedIs
<1>5. QED
  BY <1>1, <1>2, <1>3, <1>4
  DEF HasPc, StorageInv, TagsInv, AnswersInv, NamedInv, SyncInv, RealInv, Resets

LEMMA ClearKeeps ==
  ASSUME NEW h, NEW d, StorageInv(h, d), h.pc = "clear1", NEW e, e = Obeyed(d, "clear1"),
         NEW g, g = [h EXCEPT !.pc = "clear2"]
  PROVE  StorageInv(g, e) /\ HasPc(h, g, "clear2")
<1>1. IsObject(h) /\ d \in Drives /\ TagsUpTo(d, h.nCWBTag) /\ h.op \in Calls /\ SyncInv(h, d)
  BY DEF StorageInv, TagsInv, IsObject
<1>2. PICK pc \in {"clear1", "clear2"} : pc = "clear2"
  OBVIOUS
<1>3. HasPc(h, g, pc)
  BY <1>1, <1>2, PcFields
<1>4. /\ e \in Drives /\ e.obeys = d.obeys /\ e.queue = d.queue /\ e.writes = d.writes
      /\ "clear1" \in d.obeys => "out" \notin e.halted /\ e.pid.out = 0
      /\ TagsUpTo(e, h.nCWBTag)
  BY <1>1, ObeyedIs
<1>5. SyncInv(g, e)
  BY <1>1, <1>2, <1>3, <1>4 DEF SyncInv, HasPc, Resets
<1>6. QED
  BY <1>1, <1>2, <1>3, <1>4, <1>5 DEF HasPc, StorageInv, TagsInv, AnswersInv, NamedInv, RealInv

\* A device that the reset reaches has nothing left of an earlier command after it.
LEMMA ClearSyncs ==
  ASSUME NEW h, NEW d, StorageInv(h, d), h.pc = "clear2", NEW e, e = Obeyed(d, "clear2"),
         NEW k, k = [h EXCEPT !.pid = [in |-> 0, out |-> 0]]
  PROVE  /\ HasPc([h EXCEPT !.pid = k.pid], k, "clear2") /\ (Resets(d) => Sync(k, e))
         /\ (Apart(h, d) /\ Deaf(h, d) => Deaf(k, e))
         /\ e \in Drives /\ e.obeys = d.obeys /\ e.faults = d.faults /\ TagsUpTo(e, h.nCWBTag)
<1> DEFINE zero == [in |-> 0, out |-> 0]
<1>1. IsObject(h) /\ d \in Drives /\ TagsUpTo(d, h.nCWBTag) /\ h.op \in Calls /\ SyncInv(h, d)
  BY DEF StorageInv, TagsInv, IsObject
<1>2. zero \in Pids /\ zero.in = 0 /\ zero.out = 0
  BY DEF Pids
<1>3. k = [h EXCEPT !.pid = zero]
  OBVIOUS
<1> HIDE DEF zero
<1>4. /\ DOMAIN k = DOMAIN h /\ k.pc = h.pc /\ k.op = h.op /\ k.result = h.result /\ k.nCWBTag = h.nCWBTag
      /\ k.count = h.count /\ k.data = h.data /\ k.ullOffset = h.ullOffset /\ k.tries = h.tries
      /\ k.pid = zero /\ k.named = h.named /\ k.since = h.since /\ k.unreset = h.unreset
      /\ k.moved = h.moved /\ k.calls = h.calls
  BY <1>1, <1>3 DEF IsObject
<1>5. IsObject(k)
  BY <1>1, <1>2, <1>4 DEF IsObject
<1>6. [h EXCEPT !.pid = k.pid] = k
  BY <1>3, <1>4
<1>7. HasPc(k, k, "clear2")
  BY <1>4, <1>5 DEF HasPc
<1>8. /\ e \in Drives /\ e.obeys = d.obeys /\ e.faults = d.faults /\ e.pid.in = d.pid.in
      /\ ("in" \in e.halted) = ("in" \in d.halted) /\ e.queue = d.queue /\ e.writes = d.writes
      /\ "clear2" \in d.obeys => "out" \notin e.halted /\ e.pid.out = 0
      /\ "out" \notin d.halted => "out" \notin e.halted
      /\ d.pid.out = 0 => e.pid.out = 0
      /\ TagsUpTo(e, h.nCWBTag)
  BY <1>1, ObeyedIs
<1>9. ASSUME Resets(d)
      PROVE  Sync(k, e)
  <2>1. /\ d.queue = <<>> /\ d.writes = {}
        /\ "clear1" \in d.obeys => "out" \notin d.halted /\ d.pid.out = 0
    BY <1>1, <1>9 DEF SyncInv
  <2>2. "clear1" \in d.obeys \/ "clear2" \in d.obeys
    BY <1>9 DEF Resets
  <2>3. "out" \notin e.halted /\ e.pid.out = 0
    BY <1>8, <2>1, <2>2
  <2>4. QED
    BY <1>2, <1>4, <1>8, <2>1, <2>3 DEF Sync, Apart
<1>10. ASSUME Apart(h, d), Deaf(h, d)
       PROVE  Deaf(k, e)
  BY <1>2, <1>4, <1>8, <1>10 DEF Apart, Deaf
<1>11. QED
  BY <1>6, <1>7, <1>8, <1>9, <1>10

LEMMA AgainKeeps ==
  ASSUME NEW h, NEW d, StorageInv(h, d), h.pc = "clear2", NEW e, e = Obeyed(d, "clear2"), NEW g, g = Again(h)
  PROVE  StorageInv(g, e)
<1> DEFINE k == [h EXCEPT !.pid = [in |-> 0, out |-> 0]]
<1>1. /\ HasPc([h EXCEPT !.pid = k.pid], k, "clear2") /\ (Resets(d) => Sync(k, e))
      /\ e \in Drives /\ e.obeys = d.obeys /\ e.faults = d.faults /\ TagsUpTo(e, h.nCWBTag)
  BY ClearSyncs
<1>2. IsObject(h) /\ h.op \in Calls
  BY DEF StorageInv, IsObject
<1>3. IsObject(k) /\ k.op = h.op /\ k.nCWBTag = h.nCWBTag
  BY <1>1, <1>2 DEF HasPc, IsObject
<1>4. g = IF h.tries > 1 THEN Try([k EXCEPT !.tries = h.tries - 1]) ELSE Return(k, -1)
  BY <1>2 DEF Again, IsObject
<1> HIDE DEF k
<1>5. CASE h.tries > 1
  <2> DEFINE n == h.tries - 1
             l == [k EXCEPT !.tries = n]
  <2>1. n \in Int
    BY <1>2 DEF IsObject
  <2>2. g = Try(l)
    BY <1>4, <1>5
  <2> HIDE DEF n
  <2>3. IsObject(l) /\ l.op = k.op /\ l.nCWBTag = k.nCWBTag
    BY <1>3, <2>1, TriesFields
  <2> HIDE DEF l
  <2>4. QED
    BY <1>1, <1>2, <1>3, <2>2, <2>3, TryKeeps
<1>6. CASE ~(h.tries > 1)
  <2>1. g = Return(k, -1) /\ -1 \in Int
    BY <1>4, <1>6
  <2>2. HasReturned(k, g, -1)
    BY <1>3, <2>1, ReturnFields
  <2>3. Resets(e) => Sync(g, e)
    BY <1>1, <2>2 DEF HasReturned, Sync, Apart, Resets
  <2>4. QED
    BY <1>1, <1>2, <1>3, <2>2, <2>3
    DEF HasReturned, StorageInv, TagsInv, AnswersInv, NamedInv, SyncInv, RealInv
<1>7. QED
  BY <1>5, <1>6

-----------------------------------------------------------------------------
(* The invariant of the driver and the device, step by step.                *)

LEMMA StorageBegins ==
  ASSUME Init
  PROVE  StorageI /\ drive.queue = <<>> /\ umsd.op = "none"
<1>1. PICK type \in {"disk", "other"}, size \in {BlockSize, 2048}, last \in Int,
           obeys \in SUBSET {"reset", "clear1", "clear2"} : drive = NewDrive(type, size, obeys, last)
  BY StorageSteps DEF StorageStarts
<1>2. umsd = NewObject
  BY StorageSteps DEF StorageStarts
<1>3. <<>> \in Seq(Packets) /\ <<>> \in Seq(Marks) /\ [in |-> 0, out |-> 0] \in Pids
  BY EmptySeq DEF Pids
<1>4. IsObject(umsd) /\ umsd.pc = "inquiry" /\ umsd.op = "none" /\ umsd.nCWBTag = 0 /\ ~umsd.named
  BY <1>2, <1>3 DEF NewObject, IsObject
<1>5. size \in Nat /\ "blank" \in Marks
  BY DEF BlockSize, Marks
<1>6. [b \in 0 .. MediumBlocks - 1 |-> "blank"] \in [0 .. MediumBlocks - 1 -> Marks]
  BY <1>5
<1>7. drive.queue = <<>> /\ drive.writes = {}
  BY <1>1 DEF NewDrive
<1>8. drive \in Drives
  BY <1>1, <1>3, <1>5, <1>6 DEF NewDrive, Drives
<1>9. TagsUpTo(drive, 0)
  <2>1. Len(drive.queue) = 0
    BY <1>7, EmptySeq
  <2>2. QED
    BY <1>7, <2>1 DEF TagsUpTo
<1>10. QED
  BY <1>4, <1>7, <1>8, <1>9 DEF StorageI, StorageInv, TagsInv, AnswersInv, NamedInv, SyncInv, RealInv, Calls

LEMMA StorageKept ==
  ASSUME StorageI, [StorageNext]_storageVars
  PROVE  StorageI'
<1> USE DEF StorageI
<1>1. CASE UNCHANGED storageVars
  BY <1>1 DEF storageVars
<1>2. CASE Configure
  BY <1>2, ConfigureKeeps DEF Configure
<1>3. CASE SendCommand
  BY <1>3, SendCommandKeeps DEF SendCommand
<1>4. CASE MoveData
  <2>1. CASE Incoming(umsd)
    <3>1. umsd.op # "write"
      BY <2>1 DEF Incoming
    <3>2. QED
      BY <1>4, <2>1, <3>1, ReceiveDataKeeps DEF MoveData
  <2>2. CASE ~Incoming(umsd)
    <3>1. umsd.op = "write"
      BY <2>2 DEF Incoming
    <3>2. QED
      BY <1>4, <2>2, <3>1, SendDataKeeps DEF MoveData
  <2>3. QED
    BY <2>1, <2>2
<1>5. CASE ReadStatus
  <2>1. PICK t \in InTransfer(umsd, drive) :
          /\ drive' = t[1]
          /\ LET csw   == Head(drive.queue)
                 fits  == t[2] /\ csw.bytes <= CSWSize
                 moved == IF fits THEN [umsd EXCEPT !.pid.in = Toggle(@, 1)] ELSE umsd
             IN umsd' = After(moved, IF fits /\ Accepts(umsd, csw) THEN umsd.moved ELSE -1)
    BY <1>5 DEF ReadStatus
  <2> DEFINE fits == t[2] /\ Head(drive.queue).bytes <= CSWSize
             moved == IF fits THEN [umsd EXCEPT !.pid.in = Toggle(@, 1)] ELSE umsd
  <2>2. umsd' = After(moved, IF fits /\ Accepts(umsd, Head(drive.queue)) THEN umsd.moved ELSE -1)
    BY <2>1
  <2>3. umsd.pc = "csw"
    BY <1>5 DEF ReadStatus
  <2>4. StorageInv(umsd', t[1])
    BY <2>2, <2>3, ReadStatusKeeps
  <2>5. QED
    BY <2>1, <2>4
<1>6. CASE NotReset
  <2>1. /\ umsd.pc \in {"reset", "clear1", "clear2"} /\ umsd' = Return([umsd EXCEPT !.unreset = 2], -1)
        /\ \/ \E d \in {drive, Obeyed(drive, umsd.pc)} : drive' = [d EXCEPT !.faults = @ + 1]
           \/ drive' = drive
    BY <1>6 DEF NotReset
  <2>2. drive \in Drives /\ TagsUpTo(drive, umsd.nCWBTag) /\ umsd.nCWBTag \in Nat
    BY <2>1 DEF StorageInv, TagsInv, IsObject
  <2>3. drive' \in Drives /\ TagsUpTo(drive', umsd.nCWBTag)
    <3>1. CASE drive' = drive
      BY <2>2, <3>1
    <3>2. CASE \E d \in {drive, Obeyed(drive, umsd.pc)} : drive' = [d EXCEPT !.faults = @ + 1]
      <4>1. PICK d \in {drive, Obeyed(drive, umsd.pc)} : drive' = [d EXCEPT !.faults = @ + 1]
        BY <3>2
      <4>2. d \in Drives /\ TagsUpTo(d, umsd.nCWBTag)
        BY <2>1, <2>2, ObeyedIs
      <4>3. QED
        BY <2>2, <4>1, <4>2, TagsAfterFault
    <3>3. QED
      BY <2>1, <3>1, <3>2
  <2>4. QED
    BY <2>1, <2>3, NotResetKeeps
<1>7. CASE ResetDevice
  BY <1>7, ResetDeviceKeeps DEF ResetDevice
<1>8. CASE ClearHalt
  <2>1. CASE umsd.pc = "clear1" /\ umsd' = [umsd EXCEPT !.pc = "clear2"] /\ drive' = Obeyed(drive, "clear1")
    BY <2>1, ClearKeeps
  <2>2. CASE umsd.pc = "clear2" /\ umsd' = Again(umsd) /\ drive' = Obeyed(drive, "clear2")
    BY <2>2, AgainKeeps
  <2>3. QED
    BY <1>8, <2>1, <2>2 DEF ClearHalt
<1>9. ASSUME NEW offset \in Offsets, Seek(offset)
      PROVE  StorageI'
  BY <1>9, SeekKeeps DEF Seek
<1>10. ASSUME NEW op \in Calls, NEW count \in Counts, NEW content \in Contents, ReadOrWrite(op, count, content)
       PROVE  StorageI'
  <2> DEFINE k == [umsd EXCEPT !.op = op, !.count = count, !.tries = Tries, !.calls = @ + 1,
                               !.since = drive.faults, !.unreset = IF @ = 2 THEN 1 ELSE 0,
                               !.data = IF op = "write" THEN <<content>> ELSE <<>>]
  <2>1. IsObject(umsd) /\ drive \in Drives /\ umsd.pc = "idle"
    BY <1>10 DEF StorageInv, ReadOrWrite
  <2>2. umsd' = Try(k) /\ drive' = drive
    BY <1>10 DEF ReadOrWrite
  <2>3. HasBegun(umsd, drive, k, op, count)
    BY <2>1, CallFields
  <2> HIDE DEF k
  <2>4. QED
    BY <2>1, <2>2, <2>3, CallKeeps
<1>11. ASSUME NEW count \in Counts, NEW content \in Contents,
              ReadOrWrite("read", count, content) \/ ReadOrWrite("write", count, content)
       PROVE  StorageI'
  BY <1>10, <1>11 DEF Calls
<1>12. QED
  BY <1>1, <1>2, <1>3, <1>4, <1>5, <1>6, <1>7, <1>8, <1>9, <1>11 DEF StorageNext

LEMMA StorageIsReal ==
  ASSUME StorageI
  PROVE  StorageTypeOK /\ SuccessIsReal
<1>1. StorageTypeOK
  BY DEF StorageI, StorageInv, StorageTypeOK
<1>2. SuccessIsReal
  BY DEF StorageI, StorageInv, RealInv, SuccessIsReal, Transferred, Calls
<1>3. QED
  BY <1>1, <1>2

-----------------------------------------------------------------------------
(* A device that the reset reaches, during a call that follows no failed    *)
(* reset: where the two are, and that each try used up has been paid for    *)
(* with a fault, unless the device is deaf.                                 *)

LEMMA SameFeasible ==
  ASSUME NEW h, NEW g, g.count = h.count, g.ullOffset = h.ullOffset
  PROVE  Feasible(g) = Feasible(h) /\ Aligned(g) = Aligned(h)
BY DEF Feasible, Aligned

LEMMA PaidKept ==
  ASSUME NEW h, IsObject(h), NEW g, SameCall(h, g), NEW d \in Drives, NEW e \in Drives, e.faults >= d.faults,
         Deaf(h, d) => Deaf(g, e)
  PROVE  (Paid(h, d) => Paid(g, e)) /\ (PaidNow(h, d) => PaidNow(g, e))
<1>1. /\ h.since \in Nat /\ h.tries \in Int /\ d.faults \in Nat /\ e.faults \in Nat /\ Tries \in Int
      /\ g.since = h.since /\ g.tries = h.tries
  BY DEF IsObject, Drives, Tries, SameCall
<1>2. Feasible(g) = Feasible(h)
  BY SameFeasible DEF SameCall
<1>3. QED
  BY <1>1, <1>2 DEF Paid, PaidNow

LEMMA FaultPays ==
  ASSUME NEW h, IsObject(h), NEW d \in Drives, NEW e \in Drives, e.faults >= d.faults + 1, Paid(h, d),
         Deaf(h, d) => Deaf(h, e)
  PROVE  PaidNow(h, e)
<1>1. h.since \in Nat /\ h.tries \in Int /\ d.faults \in Nat /\ e.faults \in Nat /\ Tries \in Int
  BY DEF IsObject, Drives, Tries
<1>2. QED
  BY <1>1 DEF Paid, PaidNow

LEMMA StatusKept ==
  ASSUME NEW h, IsObject(h), NEW g, SameCall(h, g), NEW d \in Drives, NEW e \in Drives, e.faults >= d.faults,
         Deaf(h, d) => Deaf(g, e), NEW p, IsStatus(h, d, p)
  PROVE  IsStatus(g, e, p)
<1>1. PaidNow(h, d) => PaidNow(g, e)
  BY PaidKept
<1>2. TransferLength(g) = TransferLength(h) /\ g.nCWBTag = h.nCWBTag /\ g.count = h.count
  BY SameBlock DEF SameCall
<1>3. QED
  BY <1>1, <1>2 DEF IsStatus

-----------------------------------------------------------------------------
(* The steps of a call.                                                      *)

LEMMA CallFails ==
  ASSUME NEW h, IsObject(h), h.op \in Calls, NEW d \in Drives,
         Resets(d) /\ h.unreset = 0 => h.tries \in 1 .. Tries /\ Apart(h, d) /\ PaidNow(h, d),
         NEW g, g = Reset(h)
  PROVE  CallInv(g, d)
<1>1. /\ IsObject(g) /\ g.pc = "reset" /\ g.op = h.op /\ g.result = -1 /\ g.nCWBTag = h.nCWBTag
      /\ g.count = h.count /\ g.data = h.data /\ g.ullOffset = h.ullOffset /\ g.tries = h.tries
      /\ g.pid = h.pid /\ g.named = h.named /\ g.since = h.since /\ g.unreset = h.unreset
  BY ResetFields
<1>2. SameCall(h, g) /\ d.faults >= d.faults
  BY <1>1 DEF SameCall, Drives
<1>3. (Deaf(h, d) => Deaf(g, d)) /\ (Apart(h, d) => Apart(g, d))
  BY <1>1 DEF Deaf, Apart
<1>4. PaidNow(h, d) => PaidNow(g, d)
  BY <1>2, <1>3, PaidKept
<1>5. QED
  BY <1>1, <1>3, <1>4 DEF CallInv

\* What fails while the device is in step has cost a fault.
LEMMA FailureIsPaid ==
  ASSUME NEW h, IsObject(h), h.op # "none", NEW d \in Drives,
         Resets(d) /\ h.unreset = 0 /\ h.op \in Calls => h.tries \in 1 .. Tries /\ Apart(h, d) /\ PaidNow(h, d),
         NEW g, g = After(h, -1)
  PROVE  CallInv(g, d)
<1>1. h.op \in Setup \cup Calls
  BY DEF IsObject
<1>2. /\ h.op \in Calls => g = Reset(h)
      /\ h.op \in Setup => g.op \in Setup
  BY FailureFollows
<1>3. CASE h.op \in Calls
  BY <1>2, <1>3, CallFails
<1>4. CASE h.op \in Setup
  BY <1>2, <1>4 DEF CallInv, Setup, Calls
<1>5. QED
  BY <1>1, <1>3, <1>4

LEMMA CommandMoved ==
  ASSUME NEW h, IsObject(h), NEW op, NEW count, NEW g, g = Command(h, op, count)
  PROVE  g.moved = 0
BY DEF Command, IsObject

LEMMA TryIsReady ==
  ASSUME NEW h, IsObject(h), h.op \in Calls, NEW d \in Drives,
         Resets(d) /\ h.unreset = 0 => h.tries \in 1 .. Tries /\ Sync(h, d) /\ Paid(h, d), NEW g, g = Try(h)
  PROVE  CallInv(g, d)
<1>1. CASE ~Aligned(h)
  <2>1. g = Reset(h)
    BY <1>1 DEF Try
  <2>2. PaidNow(h, d)
    BY <1>1 DEF PaidNow, Feasible
  <2>3. Sync(h, d) => Apart(h, d)
    BY DEF Sync
  <2>4. QED
    BY <2>1, <2>2, <2>3, CallFails
<1>2. CASE Aligned(h)
  <2> DEFINE op == h.op
             count == h.count
  <2>1. op \in Setup \cup Calls /\ count \in Nat /\ (op = "write" => Len(h.data) = 1) /\ g = Command(h, op, count)
    BY <1>2 DEF IsObject, Try
  <2> HIDE DEF op, count
  <2>2. /\ IsObject(g) /\ g.pc = "cbw" /\ g.op = op /\ g.count = count /\ g.nCWBTag = h.nCWBTag + 1
        /\ g.pid = h.pid /\ g.named = h.named /\ g.since = h.since /\ g.unreset = h.unreset
        /\ g.tries = h.tries /\ g.data = h.data /\ g.ullOffset = h.ullOffset /\ g.result = h.result
    BY <2>1, CommandFields
  <2>3. g.moved = 0
    BY <2>1, CommandMoved
  <2>4. g.count = h.count
    BY <2>2 DEF count
  <2>5. Feasible(g) = Feasible(h) /\ Aligned(g) = Aligned(h)
    BY <2>2, <2>4, SameFeasible
  <2>6. Paid(h, d) => Paid(g, d)
    BY <2>2, <2>5 DEF Paid, Deaf
  <2>7. Sync(h, d) => Sync(g, d) /\ Apart(g, d) /\ d.pid.out = g.pid.out
    BY <2>2 DEF Sync, Apart
  <2>8. QED
    BY <1>2, <2>2, <2>3, <2>5, <2>6, <2>7 DEF CallInv
<1>3. QED
  BY <1>1, <1>2

LEMMA DoneEmpty ==
  ASSUME NEW d \in Drives, NEW cbw \in CommandBlocks, cbw.bytes = 0, NEW s, s = Done(d, cbw)
  PROVE  s[1].residue = 0
<1>1. PICK moved \in Int : moved = 0
  OBVIOUS
<1>2. s = <<StatusOf(cbw, "passed", moved)>>
  BY <1>1 DEF Done
<1>3. s[1].residue = cbw.bytes - moved
  BY <1>2, PassedStatus
<1>4. QED
  BY <1>1, <1>3

LEMMA JoinedToNone ==
  ASSUME NEW s \in Seq(Packets)
  PROVE  Joined(<<>>, s) = s
BY ConcatEmptySeq DEF Joined

LEMMA CommandReady ==
  ASSUME NEW h, IsObject(h), h.op \in Calls, NEW d \in Drives, Paid(h, d), d.queue = <<>>, "out" \notin d.halted,
         NEW e \in Drives, e.pid.in = d.pid.in, CommandAnswered(d, CommandBlock(h), e)
  PROVE  e.faults >= d.faults /\ CommandStands(h, e)
<1> DEFINE c == CommandBlock(h)
           q == e.queue
<1>1. /\ c \in CommandBlocks /\ c.op = h.op /\ c.tag = h.nCWBTag /\ c.bytes = h.count
      /\ c.length = TransferLength(h) /\ TransferLength(h) \in Nat
  BY BlockOfCommand DEF Calls
<1>2. h.op \in {"read", "write"} /\ h.count \in Nat /\ d.faults \in Nat
  BY DEF Calls, IsObject, Drives
<1>3. \/ /\ c.op = "write" /\ c.bytes > 0 /\ e.writes = {c} /\ q = d.queue
         /\ e.halted = d.halted /\ e.faults = d.faults
      \/ /\ ~(c.op = "write" /\ c.bytes > 0) /\ e.writes = {} /\ Inside(c) /\ q = Joined(d.queue, Done(d, c))
         /\ e.halted = d.halted /\ e.faults = d.faults
      \/ /\ ~(c.op = "write" /\ c.bytes > 0) /\ e.writes = {} /\ q = Joined(d.queue, Failed(c))
         /\ e.halted = d.halted /\ e.faults = IF c.op = "ready" THEN d.faults ELSE d.faults + 1
      \/ /\ ~(c.op = "write" /\ c.bytes > 0) /\ e.writes = {}
         /\ q = Joined(d.queue, <<StatusOf(c, "failed", 0)>>)
         /\ e.halted = d.halted \cup {"in"} /\ e.faults = IF c.op = "ready" THEN d.faults ELSE d.faults + 1
  BY DEF CommandAnswered
<1> HIDE DEF c, q
<1>4. CASE /\ c.op = "write" /\ c.bytes > 0 /\ e.writes = {c} /\ q = d.queue
           /\ e.halted = d.halted /\ e.faults = d.faults
  <2>1. DataReady(h, e)
    BY <1>1, <1>4 DEF DataReady, c, q
  <2>2. QED
    BY <1>1, <1>2, <1>4, <2>1 DEF CommandStands
<1>5. CASE /\ ~(c.op = "write" /\ c.bytes > 0) /\ e.writes = {} /\ Inside(c) /\ q = Joined(d.queue, Done(d, c))
           /\ e.halted = d.halted /\ e.faults = d.faults
  <2> DEFINE s == Done(d, c)
  <2>1. /\ s \in Seq(Packets) /\ Len(s) = IF c.bytes = 0 THEN 1 ELSE 2
        /\ s[Len(s)].kind = "status" /\ s[Len(s)].tag = c.tag /\ s[Len(s)].status = "passed"
        /\ c.bytes > 0 => s[1].kind = "data" /\ s[1].tag = 0 /\ s[1].bytes = c.bytes
        /\ c.op = "read" /\ c.bytes > 0 =>
             /\ s[2].residue = c.bytes - BlockSize * c.length
             /\ s[2].residue = 0 => s[1].value = Stored(d, c)
    BY <1>1, <1>5, DoneIs
  <2>2. c.bytes = 0 => s[1].residue = 0
    BY <1>1, DoneEmpty
  <2> HIDE DEF s
  <2>3. q = s
    BY <1>5, <2>1, JoinedToNone DEF s
  <2>4. CASE c.bytes > 0
    <3>1. c.op = "read" /\ h.op # "write" /\ Len(q) = 2 /\ q[2] = s[2] /\ q[1] = s[1] /\ Len(s) = 2
      BY <1>1, <1>2, <1>5, <2>1, <2>3, <2>4
    <3>2. IsStatus(h, e, q[2])
      BY <1>1, <2>1, <2>4, <3>1 DEF IsStatus
    <3>3. q[1].bytes = h.count
      BY <1>1, <2>1, <2>4, <3>1
    <3>4. DataReady(h, e)
      BY <1>5, <3>1, <3>2, <3>3 DEF DataReady, q
    <3>5. QED
      BY <1>1, <1>2, <1>5, <2>4, <3>4 DEF CommandStands
  <2>5. CASE c.bytes = 0
    <3>1. Len(q) = 1 /\ q[1] = s[1] /\ s[1].kind = "status" /\ s[1].tag = c.tag /\ s[1].status = "passed"
      BY <2>1, <2>3, <2>5
    <3>2. h.count - BlockSize * TransferLength(h) = 0
      BY <1>1, <2>5 DEF TransferLength, BlockSize, LengthField
    <3>3. IsStatus(h, e, q[1])
      BY <1>1, <2>2, <2>5, <3>1, <3>2 DEF IsStatus
    <3>4. StatusReady(h, e)
      BY <1>5, <3>1, <3>3 DEF StatusReady, q
    <3>5. QED
      BY <1>1, <1>2, <1>5, <2>5, <3>4 DEF CommandStands
  <2>6. QED
    BY <1>1, <1>2, <2>4, <2>5
<1>6. CASE /\ ~(c.op = "write" /\ c.bytes > 0) /\ e.writes = {} /\ q = Joined(d.queue, Failed(c))
           /\ e.halted = d.halted /\ e.faults = IF c.op = "ready" THEN d.faults ELSE d.faults + 1
  <2> DEFINE s == Failed(c)
  <2>1. /\ s \in Seq(Packets) /\ Len(s) = IF c.bytes = 0 THEN 1 ELSE 2
        /\ s[Len(s)].kind = "status" /\ s[Len(s)].tag = c.tag /\ s[Len(s)].status = "failed"
        /\ c.bytes > 0 => s[1].kind = "data" /\ s[1].tag = 0 /\ s[1].bytes = c.bytes
    BY <1>1, FailedIs
  <2> HIDE DEF s
  <2>2. q = s
    BY <1>6, <2>1, JoinedToNone DEF s
  <2>3. e.faults = d.faults + 1
    BY <1>1, <1>2, <1>6
  <2>4. e.faults >= d.faults + 1
    BY <1>2, <2>3
  <2>5. PaidNow(h, e)
    <3>1. Deaf(h, d) => Deaf(h, e)
      BY <1>6 DEF Deaf
    <3>2. QED
      BY <2>4, <3>1, FaultPays
  <2>6. IsStatus(h, e, q[Len(q)])
    BY <1>1, <2>1, <2>2, <2>5 DEF IsStatus
  <2>7. CASE c.bytes > 0
    <3>1. h.op # "write" /\ Len(q) = 2 /\ q[1].bytes = h.count
      BY <1>1, <1>2, <1>6, <2>1, <2>2, <2>7
    <3>2. DataReady(h, e)
      BY <1>6, <2>6, <3>1 DEF DataReady, q
    <3>3. QED
      BY <1>1, <1>2, <2>3, <2>7, <3>2 DEF CommandStands
  <2>8. CASE c.bytes = 0
    <3>1. Len(q) = 1
      BY <2>1, <2>2, <2>8
    <3>2. StatusReady(h, e)
      BY <1>6, <2>5, <2>6, <3>1 DEF StatusReady, q
    <3>3. QED
      BY <1>1, <1>2, <2>3, <2>8, <3>2 DEF CommandStands
  <2>9. QED
    BY <1>1, <1>2, <2>7, <2>8
<1>7. CASE /\ ~(c.op = "write" /\ c.bytes > 0) /\ e.writes = {}
           /\ q = Joined(d.queue, <<StatusOf(c, "failed", 0)>>)
           /\ e.halted = d.halted \cup {"in"} /\ e.faults = IF c.op = "ready" THEN d.faults ELSE d.faults + 1
  <2> DEFINE s == <<StatusOf(c, "failed", 0)>>
  <2>1. /\ s \in Seq(Packets) /\ Len(s) = 1 /\ s[1].kind = "status" /\ s[1].tag = c.tag /\ s[1].status = "failed"
    BY <1>1, FailedStatus
  <2> HIDE DEF s
  <2>2. q = s
    BY <1>7, <2>1, JoinedToNone DEF s
  <2>3. e.faults = d.faults + 1
    BY <1>1, <1>2, <1>7
  <2>4. e.faults >= d.faults + 1
    BY <1>2, <2>3
  <2>5. PaidNow(h, e)
    <3>1. Deaf(h, d) => Deaf(h, e)
      BY <1>7 DEF Deaf
    <3>2. QED
      BY <2>4, <3>1, FaultPays
  <2>6. Len(q) = 1 /\ IsStatus(h, e, q[1])
    BY <1>1, <2>1, <2>2, <2>5 DEF IsStatus
  <2>7. "in" \in e.halted
    BY <1>7
  <2>8. StatusReady(h, e)
    BY <1>7, <2>5, <2>6 DEF StatusReady, q
  <2>9. h.count > 0 => DataReady(h, e)
    BY <1>1, <1>7, <2>5, <2>6, <2>7 DEF DataReady, q
  <2>10. QED
    BY <1>2, <2>3, <2>8, <2>9 DEF CommandStands
<1>8. QED
  BY <1>3, <1>4, <1>5, <1>6, <1>7

LEMMA DataReadyKept ==
  ASSUME NEW h, IsObject(h), NEW g, SameCall(h, g), NEW d \in Drives, Deaf(h, d) => Deaf(g, d), DataReady(h, d)
  PROVE  DataReady(g, d)
<1>1. d.faults >= d.faults
  BY DEF Drives
<1>2. CommandBlock(g) = CommandBlock(h) /\ g.op = h.op /\ g.count = h.count
  BY SameBlock DEF SameCall
<1>3. PaidNow(h, d) => PaidNow(g, d)
  BY <1>1, PaidKept
<1>4. \A p : IsStatus(h, d, p) => IsStatus(g, d, p)
  BY <1>1, StatusKept
<1>5. QED
  BY <1>2, <1>3, <1>4 DEF DataReady

LEMMA StatusReadyKept ==
  ASSUME NEW h, IsObject(h), NEW g, SameCall(h, g), NEW d \in Drives, Deaf(h, d) => Deaf(g, d), StatusReady(h, d)
  PROVE  StatusReady(g, d)
<1>1. d.faults >= d.faults
  BY DEF Drives
<1>2. PaidNow(h, d) => PaidNow(g, d)
  BY <1>1, PaidKept
<1>3. \A p : IsStatus(h, d, p) => IsStatus(g, d, p)
  BY <1>1, StatusKept
<1>4. QED
  BY <1>2, <1>3 DEF StatusReady

LEMMA SendCommandCall ==
  ASSUME NEW h, NEW d, StorageInv(h, d), CallInv(h, d), h.pc = "cbw",
         NEW t \in OutTransfer(h, d, "command", CommandBlock(h), 1),
         NEW g, g = IF t[2] THEN [h EXCEPT !.pc = IF h.count > 0 THEN "data" ELSE "csw", !.pid.out = Toggle(@, 1)]
                    ELSE After(h, -1)
  PROVE  CallInv(g, t[1])
<1> DEFINE e == t[1]
<1>1. IsObject(h) /\ h.op # "none" /\ d \in Drives /\ TagsInv(h, d) /\ h.nCWBTag \in Nat
  BY DEF StorageInv, IsObject
<1>2. TagsUpTo(d, h.nCWBTag)
  BY <1>1, TagsBehind DEF TagsInv
<1>3. \/ ~t[2] /\ SendFails(d, e, h.nCWBTag)
      \/ /\ t[2] /\ "out" \notin d.halted
         /\ \/ d.pid.out = h.pid.out /\ e \in Took(d, "command", CommandBlock(h), 1)
            \/ d.pid.out # h.pid.out /\ e = d
  BY <1>1, <1>2, CommandSent
<1> HIDE DEF e
<1>4. Resets(d) /\ h.unreset = 0 /\ h.op \in Calls =>
        /\ h.tries \in 1 .. Tries /\ Aligned(h) /\ Apart(h, d) /\ h.moved = 0 /\ Paid(h, d)
        /\ d.queue = <<>> /\ "out" \notin d.halted /\ d.writes = {} /\ d.pid.out = h.pid.out
  BY DEF CallInv, Sync
<1>5. CASE ~t[2] /\ SendFails(d, e, h.nCWBTag)
  <2>1. /\ e \in Drives /\ Resets(e) = Resets(d) /\ ("out" \in d.halted \/ e.faults >= d.faults + 1)
        /\ (Deaf(h, d) => Deaf(h, e)) /\ (Apart(h, d) => Apart(h, e))
    BY <1>5 DEF SendFails, Resets, Deaf, Apart
  <2>2. g = After(h, -1)
    BY <1>5
  <2>3. Resets(d) /\ h.unreset = 0 /\ h.op \in Calls => h.tries \in 1 .. Tries /\ Apart(h, e) /\ PaidNow(h, e)
    BY <1>1, <1>4, <2>1, FaultPays
  <2>4. Resets(e) /\ h.unreset = 0 /\ h.op \in Calls => h.tries \in 1 .. Tries /\ Apart(h, e) /\ PaidNow(h, e)
    BY <2>1, <2>3
  <2>5. CallInv(g, e)
    BY <1>1, <2>1, <2>2, <2>4, FailureIsPaid
  <2>6. QED
    BY <2>5 DEF e
<1>6. CASE /\ t[2] /\ "out" \notin d.halted
           /\ \/ d.pid.out = h.pid.out /\ e \in Took(d, "command", CommandBlock(h), 1)
              \/ d.pid.out # h.pid.out /\ e = d
  <2>1. PICK pc \in {"data", "csw"} : pc = IF h.count > 0 THEN "data" ELSE "csw"
    OBVIOUS
  <2>2. PICK n \in Nat : n = 1
    OBVIOUS
  <2>3. g = [h EXCEPT !.pc = pc, !.pid.out = Toggle(@, n)]
    BY <1>6, <2>1, <2>2
  <2>4. HasSent(h, g, pc, n)
    BY <1>1, <2>3, CommandSentFields
  <2>5. SUFFICES ASSUME Resets(e), g.op \in Calls, g.unreset = 0
                 PROVE  CallInv(g, e)
    BY DEF CallInv, e
  <2>6. h.op \in Calls /\ h.unreset = 0 /\ SameCall(h, g) /\ IsObject(g) /\ g.pc = pc /\ g.moved = h.moved
    BY <2>4, <2>5 DEF HasSent, SameCall
  <2> DEFINE c == CommandBlock(h)
  <2>7. c \in CommandBlocks
    BY <1>1, BlockOfCommand
  <2> HIDE DEF c
  <2>8. e = d \/ e \in Took(d, "command", c, 1)
    BY <1>6 DEF c
  <2>9. e = d \/ (e \in Drives /\ Resets(e) = Resets(d))
    BY <1>1, <2>7, <2>8, CommandTaken DEF Resets
  <2>10. /\ h.tries \in 1 .. Tries /\ Aligned(h) /\ Apart(h, d) /\ h.moved = 0 /\ Paid(h, d)
         /\ d.queue = <<>> /\ "out" \notin d.halted /\ d.writes = {} /\ d.pid.out = h.pid.out
    BY <1>4, <2>5, <2>6, <2>9
  <2>11. e \in Took(d, "command", c, 1)
    BY <1>6, <2>10 DEF c
  <2>12. /\ e \in Drives /\ e.obeys = d.obeys /\ e.medium = d.medium
         /\ e.pid.in = d.pid.in /\ e.pid.out = Toggle(d.pid.out, 1)
         /\ \/ d.writes = {} /\ CommandAnswered(d, c, e)
            \/ d.writes # {} /\ WriteSpoilt(d, e)
    BY <1>1, <2>7, <2>11, CommandTaken
  <2>13. CommandAnswered(d, CommandBlock(h), e)
    BY <2>10, <2>12 DEF c
  <2>14. e.faults >= d.faults /\ CommandStands(h, e)
    BY <1>1, <2>6, <2>10, <2>12, <2>13, CommandReady
  <2>15. e.pid.out = g.pid.out /\ Apart(g, e)
    BY <2>2, <2>4, <2>10, <2>12 DEF HasSent, Apart
  <2>16. Paid(g, e)
    <3>1. "in" \in d.halted => "in" \in e.halted
      BY <2>13 DEF CommandAnswered
    <3>2. Deaf(h, d) => Deaf(g, e)
      BY <2>4, <2>12, <3>1 DEF HasSent, Deaf
    <3>3. QED
      BY <1>1, <2>6, <2>10, <2>12, <2>14, <3>2, PaidKept
  <2>17. Aligned(g) /\ g.tries = h.tries /\ g.count = h.count
    BY <2>6, <2>10, SameFeasible, ZenonT(40) DEF SameCall
  <2> Deaf(h, e) => Deaf(g, e)
    BY <2>4 DEF HasSent, Deaf
  <2>18. CASE h.count > 0
    <3>1. DataReady(h, e)
      BY <2>14, <2>18 DEF CommandStands
    <3>2. DataReady(g, e)
      BY <1>1, <2>6, <2>12, <3>1, DataReadyKept
    <3>3. QED
      BY <2>1, <2>6, <2>10, <2>15, <2>16, <2>17, <2>18, <3>2 DEF CallInv
  <2>19. CASE ~(h.count > 0)
    <3>1. StatusReady(h, e)
      BY <2>14, <2>19 DEF CommandStands
    <3>2. StatusReady(g, e)
      BY <1>1, <2>6, <2>12, <3>1, StatusReadyKept
    <3>3. h.count = 0
      BY <1>1, <2>19 DEF IsObject
    <3>4. QED
      BY <2>1, <2>6, <2>10, <2>15, <2>16, <2>17, <2>19, <3>2, <3>3 DEF CallInv
  <2>20. QED
    BY <2>18, <2>19
<1>7. QED
  BY <1>3, <1>5, <1>6

LEMMA ReceiveDataCall ==
  ASSUME NEW h, NEW d, StorageInv(h, d), CallInv(h, d), h.pc = "data", h.op # "write", NEW t \in InTransfer(h, d),
         NEW g, g = IF t[2] /\ Head(d.queue).bytes <= h.count
                    THEN [h EXCEPT !.pc = "csw", !.data = Head(d.queue).value, !.moved = Head(d.queue).bytes,
                                   !.pid.in = Toggle(@, Blocks(Head(d.queue).bytes))]
                    ELSE After(h, -1)
  PROVE  CallInv(g, t[1])
<1> DEFINE e == t[1]
           q == d.queue
           first == Head(d.queue)
<1>1. IsObject(h) /\ h.op # "none" /\ d \in Drives /\ q \in Seq(Packets) /\ d.faults \in Nat
  BY DEF StorageInv, IsObject, Drives
<1>2. \/ ~t[2] /\ ReceiveFails(h, d, e)
      \/ t[2] /\ ReceiveWorks(h, d, e)
  BY <1>1, ReceivedIs
<1>3. Resets(d) /\ h.unreset = 0 /\ h.op \in Calls =>
        /\ h.tries \in 1 .. Tries /\ Aligned(h) /\ d.pid.out = h.pid.out /\ Apart(h, d) /\ Paid(h, d)
        /\ h.count > 0 /\ d.writes = {}
        /\ \/ Len(q) = 2 /\ q[1].bytes = h.count /\ IsStatus(h, d, q[2])
           \/ Len(q) = 1 /\ "in" \in d.halted
  BY DEF CallInv, DataReady
<1>5. e \in Drives /\ Resets(e) = Resets(d) /\ e.faults >= d.faults /\ e.faults \in Nat
  BY <1>1, <1>2 DEF ReceiveFails, ReceiveWorks, Drives, Resets
<1> HIDE DEF e, q, first
<1>6. CASE ~t[2] /\ ReceiveFails(h, d, e)
  <2>1. g = After(h, -1)
    BY <1>6
  <2>2. ASSUME Resets(d), h.unreset = 0, h.op \in Calls
        PROVE  h.tries \in 1 .. Tries /\ Apart(h, e) /\ PaidNow(h, e)
    <3>1. /\ Deaf(h, e) \/ e.faults >= d.faults + 1
          /\ (Deaf(h, d) => Deaf(h, e)) /\ (Apart(h, d) => Apart(h, e))
      BY <1>6 DEF ReceiveFails, Deaf, Apart
    <3>2. CASE Deaf(h, e)
      BY <1>3, <2>2, <3>1, <3>2 DEF PaidNow
    <3>3. CASE e.faults >= d.faults + 1
      BY <1>1, <1>3, <1>5, <2>2, <3>1, <3>3, FaultPays
    <3>4. QED
      BY <3>1, <3>2, <3>3
  <2>3. Resets(e) /\ h.unreset = 0 /\ h.op \in Calls => h.tries \in 1 .. Tries /\ Apart(h, e) /\ PaidNow(h, e)
    BY <1>5, <2>2
  <2>5. CallInv(g, e)
    BY <1>1, <1>5, <2>1, <2>3, FailureIsPaid
  <2>6. QED
    BY <2>5 DEF e
<1>7. CASE t[2] /\ ReceiveWorks(h, d, e)
  <2>1. /\ q # <<>> /\ "in" \notin d.halted /\ d.pid.in = h.pid.in /\ e.writes = d.writes /\ e.halted = d.halted
        /\ e.queue = Tail(q) /\ e.pid.out = d.pid.out /\ e.pid.in = Toggle(d.pid.in, Blocks(first.bytes))
    BY <1>7 DEF ReceiveWorks, q, first
  <2>2. IsRest(e.queue, q)
    BY <1>1, <2>1, RestIs
  <2>3. first = q[1] /\ first \in Packets /\ Len(e.queue) = Len(q) - 1 /\ \A k \in 1 .. Len(e.queue) : e.queue[k] = q[k + 1]
    BY <2>2 DEF IsRest, first, q
  <2>4. CASE first.bytes <= h.count
    <3>1. g = [h EXCEPT !.pc = "csw", !.data = first.value, !.moved = first.bytes,
                        !.pid.in = Toggle(@, Blocks(first.bytes))]
      BY <1>7, <2>4 DEF first
    <3>2. HasReceived(h, g, first)
      BY <1>1, <2>3, <3>1, DataReceivedFields
    <3>3. SUFFICES ASSUME Resets(e), g.op \in Calls, g.unreset = 0
                   PROVE  CallInv(g, e)
      BY DEF CallInv, e
    <3>4. /\ h.op \in Calls /\ h.unreset = 0 /\ SameCall(h, g) /\ IsObject(g) /\ g.pc = "csw"
          /\ g.moved = first.bytes
      BY <3>2, <3>3 DEF HasReceived, SameCall
    <3>5. /\ h.tries \in 1 .. Tries /\ Aligned(h) /\ d.pid.out = h.pid.out /\ Paid(h, d) /\ d.writes = {}
          /\ Len(q) = 2 /\ q[1].bytes = h.count /\ IsStatus(h, d, q[2])
      BY <1>3, <1>5, <2>1, <3>3, <3>4
    <3>6. Len(e.queue) = 1 /\ e.queue[1] = q[2]
      BY <2>3, <3>5
    <3> Deaf(h, d) => Deaf(g, e)
      BY <2>1 DEF Deaf
    <3>7. IsStatus(g, e, q[2])
      BY <1>1, <1>5, <3>4, <3>5, StatusKept
    <3>8. StatusReady(g, e)
      BY <2>1, <3>5, <3>6, <3>7 DEF StatusReady
    <3>9. e.pid.out = g.pid.out /\ Apart(g, e)
      BY <2>1, <3>2, <3>5 DEF HasReceived, Apart
    <3>10. Paid(g, e)
      BY <1>1, <1>5, <3>4, <3>5, PaidKept
    <3>11. Aligned(g) /\ g.tries = h.tries /\ g.count = h.count
      BY <3>4, <3>5, SameFeasible, ZenonT(40) DEF SameCall
    <3>12. g.moved = g.count
      BY <2>3, <3>4, <3>5, <3>11
    <3>13. QED
      BY <3>4, <3>5, <3>8, <3>9, <3>10, <3>11, <3>12 DEF CallInv
  <2>5. CASE ~(first.bytes <= h.count)
    <3>1. g = After(h, -1)
      BY <2>5 DEF first
    <3>2. h.count <= h.count
      BY <1>1 DEF IsObject
    <3>3. ~(Resets(d) /\ h.unreset = 0 /\ h.op \in Calls)
      BY <1>3, <2>1, <2>3, <2>5, <3>2
    <3>4. Resets(e) /\ h.unreset = 0 /\ h.op \in Calls => h.tries \in 1 .. Tries /\ Apart(h, e) /\ PaidNow(h, e)
      BY <1>5, <3>3
    <3>5. CallInv(g, e)
      BY <1>1, <1>5, <3>1, <3>4, FailureIsPaid
    <3>6. QED
      BY <3>5 DEF e
  <2>6. QED
    BY <2>4, <2>5
<1>8. QED
  BY <1>2, <1>6, <1>7

\* The data of a write, taken by a device that waits for it.
LEMMA WriteReady ==
  ASSUME NEW h, IsObject(h), h.op = "write", NEW d \in Drives, DataReady(h, d), Paid(h, d),
         NEW e \in Took(d, "data", h.data, Blocks(h.count))
  PROVE  /\ e \in Drives /\ e.obeys = d.obeys /\ e.pid.in = d.pid.in
         /\ e.pid.out = Toggle(d.pid.out, Blocks(h.count)) /\ e.faults >= d.faults /\ StatusReady(h, e)
         /\ ("in" \in d.halted => "in" \in e.halted)
<1> DEFINE n == Blocks(h.count)
           value == h.data
           c == CommandBlock(h)
           q == e.queue
<1>1. /\ n \in Nat /\ value \in Seq(Marks) /\ Len(value) = 1 /\ d.faults \in Nat
      /\ d.queue = <<>> /\ d.writes = {c}
  BY SMTT(30) DEF Blocks, BlockSize, IsObject, DataReady, Drives
<1>2. /\ c \in CommandBlocks /\ c.op = h.op /\ c.tag = h.nCWBTag /\ c.bytes = h.count
      /\ c.length = TransferLength(h) /\ TransferLength(h) \in Nat
  BY BlockOfCommand DEF Calls
<1>3. e \in Took(d, "data", value, n)
  OBVIOUS
<1> HIDE DEF n, value, c, q
<1>4. /\ e \in Drives /\ e.obeys = d.obeys
      /\ e.pid.in = d.pid.in /\ e.pid.out = Toggle(d.pid.out, n)
      /\ \/ /\ d.writes = {} /\ e.writes = {} /\ e.medium = d.medium /\ e.halted = d.halted
            /\ e.faults = d.faults /\ e.queue = d.queue
         \/ e.writes = {} /\ \E w \in d.writes : WriteAnswered(d, w, value, e)
  BY <1>1, <1>3, DataTaken
<1>5. e.writes = {} /\ WriteAnswered(d, c, value, e)
  BY <1>1, <1>4
<1>6. CASE /\ e.halted = d.halted /\ e.faults = d.faults
           /\ q = Joined(d.queue, <<StatusOf(c, "passed", BlockSize * c.length)>>)
  <2> DEFINE moved == BlockSize * c.length
             s == <<StatusOf(c, "passed", moved)>>
  <2>1. moved \in Int /\ moved = BlockSize * TransferLength(h)
    BY <1>2 DEF BlockSize
  <2> HIDE DEF moved
  <2>2. /\ s \in Seq(Packets) /\ Len(s) = 1 /\ s[1].kind = "status" /\ s[1].tag = c.tag
        /\ s[1].status = "passed" /\ s[1].residue = c.bytes - moved
    BY <1>2, <2>1, PassedStatus
  <2>3. q = Joined(d.queue, s)
    BY <1>6 DEF moved
  <2> HIDE DEF s
  <2>4. q = s
    BY <1>1, <2>2, <2>3, JoinedToNone
  <2>5. IsStatus(h, e, q[1])
    BY <1>2, <2>1, <2>2, <2>4 DEF IsStatus
  <2>6. StatusReady(h, e)
    BY <1>1, <1>5, <1>6, <2>2, <2>4, <2>5 DEF StatusReady, q
  <2>7. QED
    BY <1>1, <1>4, <1>6, <2>6 DEF n
<1>7. CASE /\ e.halted \in {d.halted, d.halted \cup {"out"}} /\ e.faults = d.faults + 1
           /\ q = Joined(d.queue, <<StatusOf(c, "failed", 0)>>)
  <2> DEFINE s == <<StatusOf(c, "failed", 0)>>
  <2>1. /\ s \in Seq(Packets) /\ Len(s) = 1 /\ s[1].kind = "status" /\ s[1].tag = c.tag /\ s[1].status = "failed"
    BY <1>2, FailedStatus
  <2> HIDE DEF s
  <2>2. q = s
    BY <1>1, <1>7, <2>1, JoinedToNone DEF s
  <2>3. e.faults >= d.faults + 1
    BY <1>1, <1>7
  <2>4. PaidNow(h, e)
    <3>1. Deaf(h, d) => Deaf(h, e)
      BY <1>4, <1>7 DEF Deaf
    <3>2. QED
      BY <1>4, <2>3, <3>1, FaultPays
  <2>5. IsStatus(h, e, q[1])
    BY <1>2, <2>1, <2>2, <2>4 DEF IsStatus
  <2>6. StatusReady(h, e)
    BY <1>1, <1>5, <1>7, <2>1, <2>2, <2>4, <2>5 DEF StatusReady, q
  <2>7. QED
    BY <1>1, <1>4, <1>7, <2>6 DEF n
<1>8. QED
  BY <1>5, <1>6, <1>7 DEF WriteAnswered, q

LEMMA SendDataCall ==
  ASSUME NEW h, NEW d, StorageInv(h, d), CallInv(h, d), h.pc = "data", h.op = "write",
         NEW t \in OutTransfer(h, d, "data", h.data, Blocks(h.count)),
         NEW g, g = IF t[2] THEN [h EXCEPT !.pc = "csw", !.moved = h.count, !.pid.out = Toggle(@, Blocks(h.count))]
                    ELSE After(h, -1)
  PROVE  CallInv(g, t[1])
<1> DEFINE e == t[1]
           n == Blocks(h.count)
<1>1. /\ IsObject(h) /\ h.op # "none" /\ d \in Drives /\ TagsUpTo(d, h.nCWBTag) /\ h.op \in Calls
      /\ n \in Nat /\ h.data \in Seq(Marks) /\ Len(h.data) = 1 /\ h.nCWBTag \in Nat
  BY DEF StorageInv, TagsInv, IsObject, Calls, Blocks, BlockSize
<1>2. \/ ~t[2] /\ SendFails(d, e, h.nCWBTag)
      \/ /\ t[2] /\ "out" \notin d.halted
         /\ \/ d.pid.out = h.pid.out /\ e \in Took(d, "data", h.data, n)
            \/ d.pid.out # h.pid.out /\ e = d
  BY <1>1, DataSent
<1>3. Resets(d) /\ h.unreset = 0 =>
        /\ h.tries \in 1 .. Tries /\ Aligned(h) /\ d.pid.out = h.pid.out /\ Apart(h, d) /\ Paid(h, d)
        /\ DataReady(h, d) /\ "out" \notin d.halted
  BY <1>1 DEF CallInv, DataReady
<1> HIDE DEF e
<1>4. CASE ~t[2] /\ SendFails(d, e, h.nCWBTag)
  <2>1. /\ e \in Drives /\ Resets(e) = Resets(d) /\ ("out" \in d.halted \/ e.faults >= d.faults + 1)
        /\ (Deaf(h, d) => Deaf(h, e)) /\ (Apart(h, d) => Apart(h, e))
    BY <1>4 DEF SendFails, Resets, Deaf, Apart
  <2>2. g = After(h, -1)
    BY <1>4
  <2>3. Resets(d) /\ h.unreset = 0 => h.tries \in 1 .. Tries /\ Apart(h, e) /\ PaidNow(h, e)
    BY <1>1, <1>3, <2>1, FaultPays
  <2>4. Resets(e) /\ h.unreset = 0 /\ h.op \in Calls => h.tries \in 1 .. Tries /\ Apart(h, e) /\ PaidNow(h, e)
    BY <2>1, <2>3
  <2>5. CallInv(g, e)
    BY <1>1, <2>1, <2>2, <2>4, FailureIsPaid
  <2>6. QED
    BY <2>5 DEF e
<1>5. CASE /\ t[2] /\ "out" \notin d.halted
           /\ \/ d.pid.out = h.pid.out /\ e \in Took(d, "data", h.data, n)
              \/ d.pid.out # h.pid.out /\ e = d
  <2> DEFINE k == [h EXCEPT !.moved = h.count]
  <2>1. g = [h EXCEPT !.pc = "csw", !.moved = h.count, !.pid.out = Toggle(@, Blocks(h.count))]
    BY <1>5
  <2>2. HasSent(k, g, "csw", Blocks(h.count))
    BY <1>1, <2>1, DataSentFields
  <2>3. SameCall(h, k) /\ k.pid = h.pid /\ k.moved = h.count
    BY <1>1 DEF SameCall, IsObject
  <2> HIDE DEF k
  <2>4. /\ IsObject(g) /\ g.pc = "csw" /\ SameCall(h, g) /\ g.moved = h.count /\ g.pid.in = h.pid.in
        /\ g.pid.out = Toggle(h.pid.out, n)
    BY <2>2, <2>3 DEF HasSent, SameCall
  <2> HIDE DEF n
  <2>5. SUFFICES ASSUME Resets(e), g.op \in Calls, g.unreset = 0
                 PROVE  CallInv(g, e)
    BY DEF CallInv, e
  <2>6. e = d \/ (e \in Drives /\ Resets(e) = Resets(d))
    BY <1>1, <1>5, DataTaken DEF Resets
  <2>7. h.unreset = 0 /\ Resets(d)
    BY <2>4, <2>5, <2>6 DEF SameCall
  <2>8. /\ h.tries \in 1 .. Tries /\ Aligned(h) /\ d.pid.out = h.pid.out /\ Apart(h, d) /\ Paid(h, d)
        /\ DataReady(h, d)
    BY <1>3, <2>7
  <2>9. e \in Took(d, "data", h.data, Blocks(h.count))
    BY <1>5, <2>8 DEF n
  <2>10. /\ e \in Drives /\ e.obeys = d.obeys /\ e.pid.in = d.pid.in
         /\ e.pid.out = Toggle(d.pid.out, Blocks(h.count)) /\ e.faults >= d.faults /\ StatusReady(h, e)
         /\ ("in" \in d.halted => "in" \in e.halted)
    BY <1>1, <2>8, <2>9, WriteReady
  <2> (Deaf(h, d) => Deaf(g, e)) /\ (Deaf(h, e) => Deaf(g, e))
    BY <2>4, <2>10 DEF Deaf
  <2>11. StatusReady(g, e)
    BY <1>1, <2>4, <2>10, StatusReadyKept
  <2>12. e.pid.out = g.pid.out /\ Apart(g, e)
    BY <2>4, <2>8, <2>10 DEF n, Apart
  <2>13. Paid(g, e)
    BY <1>1, <2>4, <2>8, <2>10, PaidKept
  <2>14. Aligned(g) /\ g.tries = h.tries /\ g.moved = g.count
    BY <2>4, <2>8, SameFeasible, ZenonT(40) DEF SameCall
  <2>15. QED
    BY <2>4, <2>8, <2>11, <2>12, <2>13, <2>14 DEF CallInv
<1>6. QED
  BY <1>2, <1>4, <1>5

\* A status of the command that is refused: it has been paid for, unless the call asks for more than it can have.
LEMMA RefusalIsPaid ==
  ASSUME NEW h, IsObject(h), NEW d \in Drives, Aligned(h), NEW p, IsStatus(h, d, p), ~Accepts(h, p)
  PROVE  PaidNow(h, d)
<1>1. CASE p.status = "passed" /\ p.residue = h.count - BlockSize * TransferLength(h)
  <2>1. ~(h.count \div BlockSize < LengthField)
    <3>1. SUFFICES ASSUME h.count \div BlockSize < LengthField
                   PROVE  FALSE
      OBVIOUS
    <3>2. h.count \in Nat /\ h.count % 512 = 0 /\ h.count \div 512 < 65536
      BY <3>1 DEF IsObject, Aligned, BlockSize, LengthField
    <3>3. h.count = 512 * (h.count \div 512)
      BY <3>2
    <3>4. (h.count \div 512) \in Nat
      BY <3>2
    <3>5. (h.count \div 512) % 65536 = h.count \div 512
      BY <3>2, <3>4
    <3>6. p.residue = 0
      BY <1>1, <3>2, <3>3, <3>5 DEF TransferLength, BlockSize, LengthField
    <3>7. QED
      BY <1>1, <3>6 DEF IsStatus, Accepts
  <2>2. QED
    BY <2>1 DEF PaidNow, Feasible
<1>2. QED
  BY <1>1 DEF IsStatus

LEMMA ReadStatusCall ==
  ASSUME NEW h, NEW d, StorageInv(h, d), CallInv(h, d), h.pc = "csw", NEW t \in InTransfer(h, d),
         NEW fits, fits = (t[2] /\ Head(d.queue).bytes <= CSWSize),
         NEW k, k = (IF fits THEN [h EXCEPT !.pid.in = Toggle(@, 1)] ELSE h),
         NEW g, g = After(k, IF fits /\ Accepts(h, Head(d.queue)) THEN h.moved ELSE -1)
  PROVE  CallInv(g, t[1])
<1> DEFINE e == t[1]
           q == d.queue
           first == Head(d.queue)
           result == IF fits /\ Accepts(h, first) THEN h.moved ELSE -1
<1>1. IsObject(h) /\ h.op \in Setup \cup Calls /\ h.op # "none" /\ d \in Drives /\ q \in Seq(Packets)
  BY DEF StorageInv, IsObject, Drives
<1>2. \/ ~t[2] /\ ReceiveFails(h, d, e)
      \/ t[2] /\ ReceiveWorks(h, d, e)
  BY <1>1, ReceivedIs
<1>3. Resets(d) /\ h.unreset = 0 /\ h.op \in Calls =>
        /\ h.tries \in 1 .. Tries /\ Aligned(h) /\ Apart(h, d) /\ Paid(h, d) /\ h.moved = h.count
        /\ Len(q) = 1 /\ IsStatus(h, d, q[1])
  BY DEF CallInv, StatusReady
<1>4. SameCall(h, h)
  BY DEF SameCall
<1>5. e \in Drives /\ Resets(e) = Resets(d) /\ e.faults >= d.faults
  BY <1>1, <1>2 DEF ReceiveFails, ReceiveWorks, Drives, Resets
<1>6. IsObject(k) /\ SameCall(h, k) /\ k.pc = h.pc
  <2>1. CASE fits
    BY <1>1, <2>1, StatusFields DEF HasHeard, SameCall
  <2>2. CASE ~fits
    BY <1>1, <1>4, <2>2
  <2>3. QED
    BY <2>1, <2>2
<1>7. result \in Int /\ g = After(k, result)
  BY <1>1 DEF IsObject
<1> HIDE DEF e, q, first, result
<1>8. CASE h.op \in Setup
  <2>1. g = Configured(k, result) /\ k.op \in Setup
    BY <1>6, <1>7, <1>8 DEF After, SameCall, Setup
  <2>2. g.op \in Setup
    BY <1>6, <1>7, <2>1, SetupFollows
  <2>3. QED
    BY <2>2 DEF CallInv, Setup, Calls
<1>9. CASE h.op \in Calls /\ ~t[2] /\ ReceiveFails(h, d, e)
  <2>1. g = After(h, -1)
    BY <1>9 DEF first
  <2>2. ASSUME Resets(d), h.unreset = 0
        PROVE  h.tries \in 1 .. Tries /\ Apart(h, e) /\ PaidNow(h, e)
    <3>1. /\ Deaf(h, e) \/ e.faults >= d.faults + 1
          /\ (Deaf(h, d) => Deaf(h, e)) /\ (Apart(h, d) => Apart(h, e))
      BY <1>9 DEF ReceiveFails, Deaf, Apart
    <3>2. CASE Deaf(h, e)
      BY <1>3, <1>9, <2>2, <3>1, <3>2 DEF PaidNow
    <3>3. CASE e.faults >= d.faults + 1
      BY <1>1, <1>3, <1>5, <1>9, <2>2, <3>1, <3>3, FaultPays
    <3>4. QED
      BY <3>1, <3>2, <3>3
  <2>3. Resets(e) /\ h.unreset = 0 /\ h.op \in Calls => h.tries \in 1 .. Tries /\ Apart(h, e) /\ PaidNow(h, e)
    BY <1>5, <2>2
  <2>5. CallInv(g, e)
    BY <1>1, <1>5, <2>1, <2>3, FailureIsPaid
  <2>6. QED
    BY <2>5 DEF e
<1>10. CASE h.op \in Calls /\ t[2] /\ ReceiveWorks(h, d, e)
  <2>1. q # <<>>
    BY <1>10 DEF ReceiveWorks, q
  <2>2. IsRest(Tail(q), q)
    BY <1>1, <2>1, RestIs
  <2>3. first = q[1] /\ first \in Packets
    BY <2>2 DEF IsRest, first, q
  <2>4. CASE fits /\ Accepts(h, first)
    <3>1. SUFFICES ASSUME Resets(e), g.op \in Calls, g.unreset = 0
                   PROVE  CallInv(g, e)
      BY DEF CallInv, e
    <3>2. result = h.moved /\ k.op \in Calls
      BY <1>6, <1>10, <2>4 DEF result, SameCall
    <3>3. \/ g = Return(k, k.count)
          \/ g = Reset(k) /\ ((k.op = "read" /\ result # k.count) \/ (k.op = "write" /\ ~(result >= 0)))
      BY <1>7, <3>2 DEF After, Calls
    <3>4. CASE g = Return(k, k.count)
      <4> DEFINE count == k.count
      <4>1. count \in Int /\ count >= 0 /\ g = Return(k, count)
        BY <1>6, <3>4 DEF IsObject
      <4> HIDE DEF count
      <4>2. HasReturned(k, g, count)
        BY <1>6, <4>1, ReturnFields
      <4>3. g.pc = "idle" /\ g.result = count
        BY <4>2, Zenon DEF HasReturned
      <4>4. ~(count < 0)
        BY <4>1
      <4>5. g.pc = "idle" /\ ~(g.result < 0)
        BY <4>3, <4>4, Zenon
      <4>6. QED
        BY <4>5 DEF CallInv
    <3>5. CASE g = Reset(k) /\ ((k.op = "read" /\ result # k.count) \/ (k.op = "write" /\ ~(result >= 0)))
      <4>1. g.unreset = h.unreset
        BY <1>6, <3>2, <3>5 DEF Reset, SameCall, IsObject
      <4>2. h.moved = h.count
        BY <1>3, <1>5, <1>10, <3>1, <4>1
      <4>3. result = k.count /\ result >= 0
        BY <1>1, <1>6, <3>2, <4>2 DEF SameCall, IsObject
      <4>4. QED
        BY <3>5, <4>3
    <3>6. QED
      BY <3>3, <3>4, <3>5
  <2>5. CASE ~(fits /\ Accepts(h, first))
    <3>1. g = After(k, -1)
      BY <1>7, <2>5 DEF result
    <3>2. ASSUME Resets(d), h.unreset = 0
          PROVE  h.tries \in 1 .. Tries /\ Apart(k, e) /\ PaidNow(k, e)
      <4>1. /\ h.tries \in 1 .. Tries /\ Aligned(h) /\ IsStatus(h, d, first)
        BY <1>3, <1>10, <2>3, <3>2
      <4>2. first.bytes = CSWSize
        BY <2>3, <4>1 DEF IsStatus, Packets
      <4>3. CSWSize <= CSWSize
        BY DEF CSWSize
      <4>4. ~Accepts(h, first)
        BY <1>10, <2>5, <4>2, <4>3 DEF first
      <4>5. PaidNow(h, d)
        BY <1>1, <4>1, <4>4, RefusalIsPaid
      <4>6. (Deaf(h, d) => Deaf(k, e)) /\ Apart(k, e)
        <5>1. "in" \notin d.halted /\ d.pid.in = h.pid.in /\ e.pid.in = Toggle(d.pid.in, Blocks(first.bytes))
          BY <1>10 DEF ReceiveWorks, first
        <5>2. fits
          BY <1>10, <4>2, <4>3 DEF first
        <5>3. k.pid.in = Toggle(h.pid.in, 1)
          BY <1>1, <5>2, StatusFields DEF HasHeard
        <5>4. Blocks(first.bytes) = 1
          BY <4>2 DEF Blocks, BlockSize, CSWSize
        <5>5. QED
          BY <5>1, <5>3, <5>4 DEF Deaf, Apart
      <4>7. PaidNow(k, e)
        BY <1>1, <1>5, <1>6, <4>5, <4>6, PaidKept
      <4>8. QED
        BY <4>1, <4>6, <4>7
    <3>3. Resets(e) /\ k.unreset = 0 /\ k.op \in Calls => k.tries \in 1 .. Tries /\ Apart(k, e) /\ PaidNow(k, e)
      BY <1>5, <1>6, <3>2 DEF SameCall
    <3>4. k.op # "none"
      BY <1>1, <1>6 DEF SameCall
    <3>5. CallInv(g, e)
      BY <1>5, <1>6, <3>1, <3>3, <3>4, FailureIsPaid
    <3>6. QED
      BY <3>5 DEF e
  <2>6. QED
    BY <2>4, <2>5
<1>11. QED
  BY <1>1, <1>2, <1>8, <1>9, <1>10

LEMMA ResetGoesOn ==
  ASSUME NEW h, IsObject(h), NEW d \in Drives, CallInv(h, d), h.pc \in {"reset", "clear1", "clear2"},
         NEW e \in Drives, e.faults = d.faults, e.obeys = d.obeys, e.pid.in = d.pid.in,
         ("in" \in e.halted) = ("in" \in d.halted),
         NEW pc \in {"clear1", "clear2"}, NEW g, HasPc(h, g, pc)
  PROVE  CallInv(g, e)
<1>1. SameCall(h, g) /\ g.pc = pc
  BY DEF HasPc, SameCall
<1>2. e.faults >= d.faults /\ Resets(e) = Resets(d)
  BY DEF Drives, Resets
<1>3. (Deaf(h, d) => Deaf(g, e)) /\ (Apart(h, d) => Apart(g, e))
  BY DEF HasPc, Deaf, Apart
<1>4. PaidNow(h, d) => PaidNow(g, e)
  BY <1>1, <1>2, <1>3, PaidKept
<1>5. QED
  BY <1>1, <1>2, <1>3, <1>4 DEF CallInv, SameCall

LEMMA ResetDeviceCall ==
  ASSUME NEW h, NEW d, StorageInv(h, d), CallInv(h, d), h.pc = "reset", NEW e, e = Obeyed(d, "reset"),
         NEW g, g = [h EXCEPT !.pc = "clear1"]
  PROVE  CallInv(g, e)
<1>1. IsObject(h) /\ d \in Drives
  BY DEF StorageInv
<1>2. HasPc(h, g, "clear1")
  BY ResetDeviceKeeps
<1>3. PICK pc \in {"clear1", "clear2"} : pc = "clear1"
  OBVIOUS
<1>4. /\ e \in Drives /\ e.obeys = d.obeys /\ e.faults = d.faults /\ e.pid.in = d.pid.in
      /\ ("in" \in e.halted) = ("in" \in d.halted)
  BY <1>1, ObeyedIs
<1>5. HasPc(h, g, pc)
  BY <1>2, <1>3
<1>6. QED
  BY <1>1, <1>4, <1>5, ResetGoesOn

LEMMA ClearCall ==
  ASSUME NEW h, NEW d, StorageInv(h, d), CallInv(h, d), h.pc = "clear1", NEW e, e = Obeyed(d, "clear1"),
         NEW g, g = [h EXCEPT !.pc = "clear2"]
  PROVE  CallInv(g, e)
<1>1. IsObject(h) /\ d \in Drives
  BY DEF StorageInv
<1>2. HasPc(h, g, "clear2")
  BY ClearKeeps
<1>3. PICK pc \in {"clear1", "clear2"} : pc = "clear2"
  OBVIOUS
<1>4. /\ e \in Drives /\ e.obeys = d.obeys /\ e.faults = d.faults /\ e.pid.in = d.pid.in
      /\ ("in" \in e.halted) = ("in" \in d.halted)
  BY <1>1, ObeyedIs
<1>5. HasPc(h, g, pc)
  BY <1>2, <1>3
<1>6. QED
  BY <1>1, <1>4, <1>5, ResetGoesOn

\* The next try starts in step; the last has left a fault for each.
LEMMA AgainCall ==
  ASSUME NEW h, NEW d, StorageInv(h, d), CallInv(h, d), h.pc = "clear2", NEW e, e = Obeyed(d, "clear2"),
         NEW g, g = Again(h)
  PROVE  CallInv(g, e)
<1> DEFINE k == [h EXCEPT !.pid = [in |-> 0, out |-> 0]]
<1>1. /\ HasPc([h EXCEPT !.pid = k.pid], k, "clear2") /\ (Resets(d) => Sync(k, e))
      /\ (Apart(h, d) /\ Deaf(h, d) => Deaf(k, e))
      /\ e \in Drives /\ e.obeys = d.obeys /\ e.faults = d.faults /\ TagsUpTo(e, h.nCWBTag)
  BY ClearSyncs
<1>2. IsObject(h) /\ h.op \in Calls /\ d \in Drives /\ d.faults \in Nat /\ h.tries \in Int /\ h.since \in Nat
  BY DEF StorageInv, IsObject, Drives
<1>3. /\ IsObject(k) /\ k.op = h.op /\ k.unreset = h.unreset /\ k.count = h.count /\ k.ullOffset = h.ullOffset
      /\ k.tries = h.tries /\ k.since = h.since
  BY <1>1, <1>2 DEF HasPc, IsObject
<1>4. g = IF h.tries > 1 THEN Try([k EXCEPT !.tries = h.tries - 1]) ELSE Return(k, -1)
  BY <1>2 DEF Again, IsObject
<1>5. Resets(d) /\ h.unreset = 0 => h.tries \in 1 .. Tries /\ Apart(h, d) /\ PaidNow(h, d)
  BY <1>2 DEF CallInv
<1>6. Feasible(k) = Feasible(h)
  BY <1>3, SameFeasible
<1> HIDE DEF k
<1>7. CASE h.tries > 1
  <2> DEFINE n == h.tries - 1
             l == [k EXCEPT !.tries = n]
  <2>1. n \in Int
    BY <1>2
  <2>2. g = Try(l)
    BY <1>4, <1>7
  <2>3. Resets(d) /\ h.unreset = 0 => n \in 1 .. Tries
    BY <1>2, <1>5, <1>7 DEF Tries
  <2>4. Tries - n = Tries - h.tries + 1
    BY <1>2 DEF Tries
  <2> HIDE DEF n
  <2>5. /\ IsObject(l) /\ l.pc = k.pc /\ l.op = k.op /\ l.result = k.result /\ l.nCWBTag = k.nCWBTag
        /\ l.count = k.count /\ l.data = k.data /\ l.ullOffset = k.ullOffset /\ l.tries = n
        /\ l.pid = k.pid /\ l.named = k.named /\ l.since = k.since /\ l.unreset = k.unreset
    BY <1>3, <2>1, TriesFields
  <2> HIDE DEF l
  <2>6. Feasible(l) = Feasible(h)
    BY <1>3, <2>5, SameFeasible
  <2> Deaf(l, e) = Deaf(k, e)
    BY <2>5 DEF Deaf
  <2>7. Apart(h, d) /\ PaidNow(h, d) => Paid(l, e)
    BY <1>1, <1>3, <2>4, <2>5, <2>6 DEF PaidNow, Paid
  <2>8. (Sync(k, e) => Sync(l, e)) /\ Resets(e) = Resets(d)
    BY <1>1, <2>5 DEF Sync, Apart, Resets
  <2>9. Resets(e) /\ l.unreset = 0 => l.tries \in 1 .. Tries /\ Sync(l, e) /\ Paid(l, e)
    BY <1>1, <1>3, <1>5, <2>3, <2>5, <2>7, <2>8
  <2>10. l.op \in Calls
    BY <1>2, <1>3, <2>5
  <2>11. QED
    BY <1>1, <2>2, <2>5, <2>9, <2>10, TryIsReady
<1>8. CASE ~(h.tries > 1)
  <2>1. PICK result \in Int : result = -1
    OBVIOUS
  <2>2. g = Return(k, result)
    BY <1>4, <1>8, <2>1
  <2>3. HasReturned(k, g, result)
    BY <1>3, <2>2, ReturnFields
  <2>4. g.count = h.count /\ g.ullOffset = h.ullOffset /\ g.since = h.since /\ g.pc = "idle" /\ g.unreset = h.unreset
        /\ g.pid = k.pid
    BY <1>3, <2>3 DEF HasReturned
  <2>5. Feasible(g) = Feasible(h)
    BY <2>4, SameFeasible
  <2>6. Resets(d) /\ h.unreset = 0 => h.tries = 1 /\ Apart(h, d) /\ PaidNow(h, d)
    BY <1>2, <1>5, <1>8
  <2>7. h.tries = 1 => Tries - h.tries + 1 = Tries
    BY DEF Tries
  <2> Deaf(g, e) = Deaf(k, e) /\ Resets(e) = Resets(d)
    BY <1>1, <2>4 DEF Deaf, Resets
  <2>8. Resets(d) /\ h.unreset = 0 /\ Feasible(g) => e.faults - g.since >= Tries \/ Deaf(g, e)
    BY <1>1, <2>4, <2>5, <2>6, <2>7 DEF PaidNow
  <2>9. QED
    BY <1>1, <2>4, <2>8 DEF CallInv
<1>9. QED
  BY <1>7, <1>8

\* A call that follows no failed reset finds both in step.
LEMMA BeginCall ==
  ASSUME NEW h, NEW d, StorageInv(h, d), h.pc = "idle", h.named, NEW op \in Calls, NEW count \in Counts,
         NEW k, HasBegun(h, d, k, op, count), NEW g, g = Try(k)
  PROVE  CallInv(g, d)
<1>1. /\ IsObject(h) /\ d \in Drives /\ SyncInv(h, d) /\ d.faults \in Nat
      /\ IsObject(k) /\ k.op \in Calls /\ k.pid = h.pid /\ k.since = d.faults /\ k.tries = Tries
      /\ k.unreset = IF h.unreset = 2 THEN 1 ELSE 0
  BY DEF StorageInv, HasBegun, Drives
<1>2. Resets(d) /\ k.unreset = 0 => Sync(k, d)
  BY <1>1 DEF SyncInv, Sync, Apart
<1>3. k.tries \in 1 .. Tries /\ Paid(k, d)
  BY <1>1 DEF Paid, Tries
<1>4. QED
  BY <1>1, <1>2, <1>3, TryIsReady

LEMMA CallStarts ==
  ASSUME Init
  PROVE  CallI
BY StorageBegins DEF CallI, CallInv, Calls

LEMMA CallKept ==
  ASSUME StorageI, CallI, [StorageNext]_storageVars
  PROVE  CallI'
<1> USE DEF StorageI, CallI
<1>1. CASE UNCHANGED storageVars
  BY <1>1 DEF storageVars
<1>2. CASE Configure
  <2>1. umsd'.op = "inquiry"
    BY <1>2 DEF Configure, Command, StorageInv, IsObject
  <2>2. QED
    BY <2>1 DEF CallInv, Calls
<1>3. CASE SendCommand
  BY <1>3, SendCommandCall DEF SendCommand
<1>4. CASE MoveData
  <2>1. CASE Incoming(umsd)
    <3>1. umsd.op # "write"
      BY <2>1 DEF Incoming
    <3>2. QED
      BY <1>4, <2>1, <3>1, ReceiveDataCall DEF MoveData
  <2>2. CASE ~Incoming(umsd)
    <3>1. umsd.op = "write"
      BY <2>2 DEF Incoming
    <3>2. QED
      BY <1>4, <2>2, <3>1, SendDataCall DEF MoveData
  <2>3. QED
    BY <2>1, <2>2
<1>5. CASE ReadStatus
  <2>1. PICK t \in InTransfer(umsd, drive) :
          /\ drive' = t[1]
          /\ LET csw   == Head(drive.queue)
                 fits  == t[2] /\ csw.bytes <= CSWSize
                 moved == IF fits THEN [umsd EXCEPT !.pid.in = Toggle(@, 1)] ELSE umsd
             IN umsd' = After(moved, IF fits /\ Accepts(umsd, csw) THEN umsd.moved ELSE -1)
    BY <1>5 DEF ReadStatus
  <2> DEFINE fits == t[2] /\ Head(drive.queue).bytes <= CSWSize
             moved == IF fits THEN [umsd EXCEPT !.pid.in = Toggle(@, 1)] ELSE umsd
  <2>2. umsd' = After(moved, IF fits /\ Accepts(umsd, Head(drive.queue)) THEN umsd.moved ELSE -1)
    BY <2>1
  <2>3. umsd.pc = "csw"
    BY <1>5 DEF ReadStatus
  <2>4. CallInv(umsd', t[1])
    BY <2>2, <2>3, ReadStatusCall
  <2>5. QED
    BY <2>1, <2>4
<1>6. CASE NotReset
  <2>1. umsd'.unreset = 2
    BY <1>6 DEF NotReset, Return, StorageInv, IsObject
  <2>2. QED
    BY <2>1 DEF CallInv
<1>7. CASE ResetDevice
  BY <1>7, ResetDeviceCall DEF ResetDevice
<1>8. CASE ClearHalt
  <2>1. CASE umsd.pc = "clear1" /\ umsd' = [umsd EXCEPT !.pc = "clear2"] /\ drive' = Obeyed(drive, "clear1")
    BY <2>1, ClearCall
  <2>2. CASE umsd.pc = "clear2" /\ umsd' = Again(umsd) /\ drive' = Obeyed(drive, "clear2")
    BY <2>2, AgainCall
  <2>3. QED
    BY <1>8, <2>1, <2>2 DEF ClearHalt
<1>9. ASSUME NEW offset \in Offsets, Seek(offset)
      PROVE  CallI'
  <2>1. umsd'.op = "none"
    BY <1>9 DEF Seek, StorageInv, IsObject
  <2>2. QED
    BY <2>1 DEF CallInv, Calls
<1>10. ASSUME NEW op \in Calls, NEW count \in Counts, NEW content \in Contents, ReadOrWrite(op, count, content)
       PROVE  CallI'
  <2> DEFINE k == [umsd EXCEPT !.op = op, !.count = count, !.tries = Tries, !.calls = @ + 1,
                               !.since = drive.faults, !.unreset = IF @ = 2 THEN 1 ELSE 0,
                               !.data = IF op = "write" THEN <<content>> ELSE <<>>]
  <2>1. IsObject(umsd) /\ drive \in Drives /\ umsd.pc = "idle" /\ umsd.named
    BY <1>10 DEF StorageInv, ReadOrWrite
  <2>2. umsd' = Try(k) /\ drive' = drive
    BY <1>10 DEF ReadOrWrite
  <2>3. HasBegun(umsd, drive, k, op, count)
    BY <2>1, CallFields
  <2> HIDE DEF k
  <2>4. QED
    BY <2>1, <2>2, <2>3, BeginCall
<1>11. ASSUME NEW count \in Counts, NEW content \in Contents,
              ReadOrWrite("read", count, content) \/ ReadOrWrite("write", count, content)
       PROVE  CallI'
  BY <1>10, <1>11 DEF Calls
<1>12. QED
  BY <1>1, <1>2, <1>3, <1>4, <1>5, <1>6, <1>7, <1>8, <1>9, <1>11 DEF StorageNext

LEMMA CallSuffices ==
  ASSUME StorageI, CallI
  PROVE  RetriesSuffice
<1>1. SUFFICES ASSUME Resets(drive), umsd.op \in Calls, umsd.unreset = 0
               PROVE  /\ umsd.pc = "idle" /\ umsd.result < 0 /\ Aligned(umsd)
                         /\ umsd.count \div BlockSize < LengthField /\ Inside(CommandBlock(umsd))
                           => drive.faults - umsd.since >= Tries \/ Deaf(umsd, drive)
                      /\ (umsd.pc = "data" /\ Incoming(umsd)) \/ umsd.pc = "csw"
                           => drive.queue # <<>> \/ "in" \in drive.halted
  BY DEF RetriesSuffice, Calls
<1>2. umsd.pc = "idle" /\ umsd.result < 0 /\ Feasible(umsd) => drive.faults - umsd.since >= Tries \/ Deaf(umsd, drive)
  BY <1>1 DEF CallI, CallInv
<1>3. /\ umsd.pc = "data" => DataReady(umsd, drive)
      /\ umsd.pc = "csw" => StatusReady(umsd, drive)
  BY <1>1 DEF CallI, CallInv
<1>4. Len(<<>>) = 0
  BY EmptySeq
<1>5. umsd.pc = "data" /\ Incoming(umsd) => drive.queue # <<>>
  <2>1. SUFFICES ASSUME umsd.pc = "data", Incoming(umsd)
                 PROVE  Len(drive.queue) # 0
    BY <1>4
  <2>2. Len(drive.queue) = 2 \/ Len(drive.queue) = 1
    BY <1>3, <2>1 DEF DataReady, Incoming
  <2>3. QED
    BY <2>2
<1>6. umsd.pc = "csw" => drive.queue # <<>>
  BY <1>3, <1>4 DEF StatusReady
<1>7. QED
  BY <1>2, <1>5, <1>6 DEF Feasible

-----------------------------------------------------------------------------
(* The driver among the functions.                                           *)

LEMMA StorageInvariant == Spec => [](StorageI /\ CallI)
<1>1. Init => StorageI /\ CallI
  BY StorageBegins, CallStarts
<1>2. StorageI /\ CallI /\ [Next]_functionVars => (StorageI /\ CallI)'
  BY StorageSteps, StorageKept, CallKept
<1>3. QED
  BY <1>1, <1>2, PTL DEF Spec

(***************************************************************************)
(* The object and the device keep their types.                             *)
(***************************************************************************)
THEOREM StorageTypeCorrect == Spec => []StorageTypeOK
<1>1. StorageI => StorageTypeOK
  BY StorageIsReal
<1>2. QED
  BY <1>1, StorageInvariant, PTL

(***************************************************************************)
(* Read and Write of CUSBBulkOnlyMassStorageDevice: what they report as    *)
(* done is done, for every size of medium, every offset and count, however *)
(* many calls and failed transfers there are, and whichever messages of    *)
(* the reset have an effect on the device.                                 *)
(***************************************************************************)
THEOREM SuccessIsAlwaysReal == Spec => []SuccessIsReal
<1>1. StorageI => SuccessIsReal
  BY StorageIsReal
<1>2. QED
  BY <1>1, StorageInvariant, PTL

(***************************************************************************)
(* With a device that forgets its command when it is reset and puts up     *)
(* with both clear messages, a call that could succeed gives up only after *)
(* four faults, after a failed reset, or because its endpoint to the host, *)
(* which no message clears, is halted or at the other data identifier; and *)
(* it waits only for what is there or comes.                               *)
(***************************************************************************)
THEOREM RetriesAlwaysSuffice == Spec => []RetriesSuffice
<1>1. StorageI /\ CallI => RetriesSuffice
  BY CallSuffices
<1>2. QED
  BY <1>1, StorageInvariant, PTL

-----------------------------------------------------------------------------
(* The programs.                                                            *)

LEMMA LawfulSteps ==
  ASSUME NEW kind, NEW steps \in Seq(Lawful(kind))
  PROVE  steps \in Seq(LanSteps)
<1>1. Lawful(kind) \subseteq LanSteps
  BY DEF Lawful
<1>2. QED
  BY <1>1, SeqMonotonic

-----------------------------------------------------------------------------

LEMMA PHYSteps ==
  ASSUME NEW kind \in {"lan7800", "smsc951x"}, NEW index \in {"STATUS", "LED_MODE"}
  PROVE  PHYRead(index) \in Seq(Lawful(kind)) /\ PHYWrite(index) \in Seq(Lawful(kind))
<1>1. PHYNotBusy \in Lawful(kind) /\ ReadReg("MII_DATA") \in Lawful(kind)
  BY DEF PHYNotBusy, ReadReg, WaitReg, Step, Lawful, Sets, LanSteps, Registers, Bits
<1>2. /\ WriteReg("MII_ADDR", {index, "BUSY"}) \in Lawful(kind)
      /\ WriteReg("MII_ADDR", {index, "WRITE", "BUSY"}) \in Lawful(kind)
      /\ WriteReg("MII_DATA", {"LEDs"}) \in Lawful(kind)
  BY DEF WriteReg, Step, Lawful, Sets, LanSteps, Right, Wanted, Unwanted, Registers, Bits
<1>3. QED
  BY <1>1, <1>2 DEF PHYRead, PHYWrite

LEMMA SMSCSteps == StartSMSC951x \in Seq(Lawful("smsc951x"))
<1>1. /\ WriteReg("ADDR", {"own"}) \in Lawful("smsc951x")
      /\ WriteReg("LED_GPIO_CFG", {"LEDs"}) \in Lawful("smsc951x")
      /\ WriteReg("MAC_CR", {"RCVOWN", "TXEN", "RXEN"}) \in Lawful("smsc951x")
      /\ WriteReg("TX_CFG", {"ON"}) \in Lawful("smsc951x")
  BY DEF WriteReg, Step, Lawful, Sets, LanSteps, Right, Wanted, Unwanted, Registers, Bits
<1>2. QED
  BY <1>1 DEF StartSMSC951x

LEMMA MACSteps == InitMACAddress \in Seq(Lawful("lan7800"))
<1>1. WriteReg("ADDR", {"own"}) \in Lawful("lan7800") /\ WriteReg("MAF", {"own", "VALID"}) \in Lawful("lan7800")
  BY DEF WriteReg, Step, Lawful, Sets, LanSteps, Right, Wanted, Unwanted, Registers, Bits
<1>2. QED
  BY <1>1 DEF InitMACAddress

LEMMA RegisterSteps == InitRegisters \in Seq(Lawful("lan7800"))
<1>1. /\ WriteReg("BURST_CAP", {"24"}) \in Lawful("lan7800")
      /\ WriteReg("BULK_IN_DLY", {"default"}) \in Lawful("lan7800")
      /\ WriteReg("FCT_FIFO_END", {"12K"}) \in Lawful("lan7800")
      /\ WriteReg("INT_EP_CTL", {}) \in Lawful("lan7800")
      /\ WriteReg("INT_STS", {"CLEAR_ALL"}) \in Lawful("lan7800")
      /\ WriteReg("FLOW", {}) \in Lawful("lan7800")
      /\ WriteReg("FCT_FLOW", {}) \in Lawful("lan7800")
  BY DEF WriteReg, Step, Lawful, Sets, LanSteps, Right, Wanted, Unwanted, Registers, Bits
<1>2. /\ ReadWriteReg("HW_CFG", {"LEDs"}, {"MEF"}) \in Lawful("lan7800")
      /\ ReadWriteReg("USB_CFG0", {"BCE"}, {"BIR"}) \in Lawful("lan7800")
      /\ ReadWriteReg("RFE_CTL", {"BCAST_EN", "DA_PERFECT"}, {}) \in Lawful("lan7800")
      /\ ReadWriteReg("PMT_CTL", {"PHY_RST"}, {}) \in Lawful("lan7800")
      /\ ReadWriteReg("MAC_CR", {"AUTO_DUPLEX", "AUTO_SPEED"}, {}) \in Lawful("lan7800")
  BY DEF ReadWriteReg, Step, Lawful, Sets, LanSteps, Right, Wanted, Unwanted, Registers, Bits
<1>3. /\ ReadWriteReg("MAC_TX", {"TXEN"}, {}) \in Lawful("lan7800")
      /\ ReadWriteReg("FCT_TX_CTL", {"EN"}, {}) \in Lawful("lan7800")
      /\ ReadWriteReg("MAC_RX", {"RXEN", "1518", "VLAN_FSE"}, {"0"}) \in Lawful("lan7800")
      /\ ReadWriteReg("FCT_RX_CTL", {"EN"}, {}) \in Lawful("lan7800")
  BY DEF ReadWriteReg, Step, Lawful, Sets, LanSteps, Right, Wanted, Unwanted, Registers, Bits
<1>4. WaitReg("PMT_CTL", {"READY"}, {"PHY_RST"}) \in Lawful("lan7800")
  BY DEF WaitReg, Step, Lawful, Sets, LanSteps, Registers, Bits
<1>5. QED
  BY <1>1, <1>2, <1>3, <1>4 DEF InitRegisters

LEMMA SetUpIsLawful ==
  /\ SetUp \in Seq(Lawful("lan7800")) /\ SetUp # <<>>
  /\ InitRegisters \o InitPHY \in Seq(Lawful("lan7800")) /\ InitPHY \in Seq(Lawful("lan7800"))
<1>1. InitPHY \in Seq(Lawful("lan7800"))
  BY PHYSteps, ConcatProperties DEF InitPHY
<1>2. InitRegisters \o InitPHY \in Seq(Lawful("lan7800"))
  BY <1>1, RegisterSteps, ConcatProperties
<1>3. SetUp \in Seq(Lawful("lan7800")) /\ Len(SetUp) = Len(InitMACAddress) + Len(InitRegisters \o InitPHY)
  BY <1>2, MACSteps, ConcatProperties DEF SetUp
<1>4. Len(InitMACAddress) = 2 /\ Len(InitRegisters \o InitPHY) \in Nat
  BY <1>2, LenProperties DEF InitMACAddress
<1>5. QED
  BY <1>1, <1>2, <1>3, <1>4, EmptySeq

LEMMA ResetThenSetUp ==
  ASSUME NEW a \in LanSteps, NEW b \in LanSteps, NEW c \in LanSteps, NEW s \in Seq(LanSteps)
  PROVE  <<a, b, c>> \o s = <<a>> \o (<<b>> \o (<<c>> \o s))
<1>1. /\ <<a>> \in Seq(LanSteps) /\ <<b>> \in Seq(LanSteps) /\ <<c>> \in Seq(LanSteps)
      /\ <<a, b>> \in Seq(LanSteps) /\ <<a, b>> = <<a>> \o <<b>> /\ <<a, b, c>> = <<a, b>> \o <<c>>
  <2>1. /\ <<a>> \in Seq(LanSteps) /\ <<b>> \in Seq(LanSteps) /\ <<c>> \in Seq(LanSteps)
        /\ <<a, b>> \in Seq(LanSteps) /\ <<a, b, c>> \in Seq(LanSteps)
        /\ Len(<<a>>) = 1 /\ Len(<<b>>) = 1 /\ Len(<<c>>) = 1 /\ Len(<<a, b>>) = 2 /\ Len(<<a, b, c>>) = 3
    OBVIOUS
  <2>2. <<a, b>> = <<a>> \o <<b>>
    <3>1. /\ <<a>> \o <<b>> \in Seq(LanSteps) /\ Len(<<a>> \o <<b>>) = 2
          /\ \A i \in 1 .. 2 : (<<a>> \o <<b>>)[i] = IF i <= 1 THEN <<a>>[i] ELSE <<b>>[i - 1]
      BY <2>1, ConcatProperties
    <3>2. \A i \in 1 .. 2 : <<a, b>>[i] = (<<a>> \o <<b>>)[i]
      BY <3>1
    <3>3. QED
      BY <2>1, <3>1, <3>2, SeqEqual
  <2>3. <<a, b, c>> = <<a, b>> \o <<c>>
    <3>1. /\ <<a, b>> \o <<c>> \in Seq(LanSteps) /\ Len(<<a, b>> \o <<c>>) = 3
          /\ \A i \in 1 .. 3 : (<<a, b>> \o <<c>>)[i] = IF i <= 2 THEN <<a, b>>[i] ELSE <<c>>[i - 2]
      BY <2>1, ConcatProperties
    <3>2. \A i \in 1 .. 3 : <<a, b, c>>[i] = (<<a, b>> \o <<c>>)[i]
      BY <3>1
    <3>3. QED
      BY <2>1, <3>1, <3>2, SeqEqual
  <2>4. QED
    BY <2>1, <2>2, <2>3
<1>2. <<c>> \o s \in Seq(LanSteps)
  BY <1>1, ConcatProperties
<1>3. <<a, b, c>> \o s = <<a, b>> \o (<<c>> \o s)
  BY <1>1, ConcatAssociative
<1>4. <<a, b>> \o (<<c>> \o s) = <<a>> \o (<<b>> \o (<<c>> \o s))
  BY <1>1, <1>2, ConcatAssociative
<1>5. QED
  BY <1>3, <1>4

LEMMA StartOfLAN7800 ==
  StartLAN7800 = <<ReadReg("ID_REV")>> \o (<<ReadWriteReg("HW_CFG", {"LRST"}, {})>> \o
                   (<<WaitReg("HW_CFG", {}, {"LRST"})>> \o SetUp))
<1>1. /\ ReadReg("ID_REV") \in LanSteps /\ ReadWriteReg("HW_CFG", {"LRST"}, {}) \in LanSteps
      /\ WaitReg("HW_CFG", {}, {"LRST"}) \in LanSteps
  BY DEF ReadReg, ReadWriteReg, WaitReg, Step, LanSteps, Registers, Bits
<1>2. ResetLAN7800 \in Seq(LanSteps)
  BY <1>1 DEF ResetLAN7800
<1>3. /\ InitMACAddress \in Seq(LanSteps) /\ InitRegisters \in Seq(LanSteps) /\ InitPHY \in Seq(LanSteps)
      /\ InitRegisters \o InitPHY \in Seq(LanSteps) /\ SetUp \in Seq(LanSteps)
  BY MACSteps, RegisterSteps, SetUpIsLawful, LawfulSteps
<1>4. ((ResetLAN7800 \o InitMACAddress) \o InitRegisters) \o InitPHY
        = (ResetLAN7800 \o InitMACAddress) \o (InitRegisters \o InitPHY)
  <2>1. ResetLAN7800 \o InitMACAddress \in Seq(LanSteps)
    BY <1>2, <1>3, ConcatProperties
  <2>2. \A p \in Seq(LanSteps) : (p \o InitRegisters) \o InitPHY = p \o (InitRegisters \o InitPHY)
    BY <1>3, ConcatAssociative, SMTT(30)
  <2>3. QED
    BY <2>1, <2>2
<1>5. (ResetLAN7800 \o InitMACAddress) \o (InitRegisters \o InitPHY) = ResetLAN7800 \o SetUp
  BY <1>2, <1>3, ConcatAssociative, SMTT(30) DEF SetUp
<1>6. ResetLAN7800 \o SetUp
        = <<ReadReg("ID_REV")>> \o (<<ReadWriteReg("HW_CFG", {"LRST"}, {})>> \o
            (<<WaitReg("HW_CFG", {}, {"LRST"})>> \o SetUp))
  <2>1. PICK a \in LanSteps, b \in LanSteps, c \in LanSteps :
          a = ReadReg("ID_REV") /\ b = ReadWriteReg("HW_CFG", {"LRST"}, {}) /\ c = WaitReg("HW_CFG", {}, {"LRST"})
    BY <1>1
  <2>2. <<a, b, c>> \o SetUp = <<a>> \o (<<b>> \o (<<c>> \o SetUp))
    <3>1. \A s \in Seq(LanSteps) : <<a, b, c>> \o s = <<a>> \o (<<b>> \o (<<c>> \o s))
      BY ResetThenSetUp, Zenon
    <3>2. QED
      BY <1>3, <3>1, Zenon
  <2>3. ResetLAN7800 = <<a, b, c>>
    BY <2>1 DEF ResetLAN7800
  <2>4. QED
    BY <2>1, <2>2, <2>3
<1>7. QED
  BY <1>4, <1>5, <1>6 DEF StartLAN7800

LEMMA ConcatTouches ==
  ASSUME NEW S, NEW s \in Seq(S), NEW t \in Seq(S), NEW reg, Untouched(reg, s \o t)
  PROVE  Untouched(reg, s) /\ Untouched(reg, t)
<1>1. /\ DOMAIN s = 1 .. Len(s) /\ DOMAIN t = 1 .. Len(t) /\ DOMAIN (s \o t) = 1 .. (Len(s) + Len(t))
      /\ Len(s) \in Nat /\ Len(t) \in Nat
      /\ \A i \in 1 .. Len(s) + Len(t) : (s \o t)[i] = IF i <= Len(s) THEN s[i] ELSE t[i - Len(s)]
  BY LenProperties, ConcatProperties
<1>2. \A i \in DOMAIN s : i \in DOMAIN (s \o t) /\ (s \o t)[i] = s[i]
  BY <1>1
<1>3. \A i \in DOMAIN t : Len(s) + i \in DOMAIN (s \o t) /\ (s \o t)[Len(s) + i] = t[i]
  BY <1>1
<1>4. QED
  BY <1>2, <1>3 DEF Untouched

LEMMA SetUpTouches ==
  ASSUME NEW reg \in {"MAF", "HW_CFG", "USB_CFG0", "RFE_CTL", "MAC_TX", "FCT_TX_CTL", "MAC_RX", "FCT_RX_CTL"}
  PROVE  ~Untouched(reg, SetUp)
<1>1. reg = "MAF" => ~Untouched(reg, InitMACAddress)
  BY DEF Untouched, InitMACAddress, Sets, WriteReg, Step
<1>2. reg = "HW_CFG" => ~Untouched(reg, InitRegisters)
  <2>1. 3 \in DOMAIN InitRegisters /\ InitRegisters[3] = ReadWriteReg("HW_CFG", {"LEDs"}, {"MEF"})
    BY DEF InitRegisters
  <2>2. QED
    BY <2>1 DEF Untouched, Sets, ReadWriteReg, Step
<1>3. reg = "USB_CFG0" => ~Untouched(reg, InitRegisters)
  <2>1. 4 \in DOMAIN InitRegisters /\ InitRegisters[4] = ReadWriteReg("USB_CFG0", {"BCE"}, {"BIR"})
    BY DEF InitRegisters
  <2>2. QED
    BY <2>1 DEF Untouched, Sets, ReadWriteReg, Step
<1>4. reg = "RFE_CTL" => ~Untouched(reg, InitRegisters)
  <2>1. 10 \in DOMAIN InitRegisters /\ InitRegisters[10] = ReadWriteReg("RFE_CTL", {"BCAST_EN", "DA_PERFECT"}, {})
    BY DEF InitRegisters
  <2>2. QED
    BY <2>1 DEF Untouched, Sets, ReadWriteReg, Step
<1>5. reg = "MAC_TX" => ~Untouched(reg, InitRegisters)
  <2>1. 14 \in DOMAIN InitRegisters /\ InitRegisters[14] = ReadWriteReg("MAC_TX", {"TXEN"}, {})
    BY DEF InitRegisters
  <2>2. QED
    BY <2>1 DEF Untouched, Sets, ReadWriteReg, Step
<1>6. reg = "FCT_TX_CTL" => ~Untouched(reg, InitRegisters)
  <2>1. 15 \in DOMAIN InitRegisters /\ InitRegisters[15] = ReadWriteReg("FCT_TX_CTL", {"EN"}, {})
    BY DEF InitRegisters
  <2>2. QED
    BY <2>1 DEF Untouched, Sets, ReadWriteReg, Step
<1>7. reg = "MAC_RX" => ~Untouched(reg, InitRegisters)
  <2>1. 16 \in DOMAIN InitRegisters /\ InitRegisters[16] = ReadWriteReg("MAC_RX", {"RXEN", "1518", "VLAN_FSE"}, {"0"})
    BY DEF InitRegisters
  <2>2. QED
    BY <2>1 DEF Untouched, Sets, ReadWriteReg, Step
<1>8. reg = "FCT_RX_CTL" => ~Untouched(reg, InitRegisters)
  <2>1. 17 \in DOMAIN InitRegisters /\ InitRegisters[17] = ReadWriteReg("FCT_RX_CTL", {"EN"}, {})
    BY DEF InitRegisters
  <2>2. QED
    BY <2>1 DEF Untouched, Sets, ReadWriteReg, Step
<1>9. Untouched(reg, SetUp) => Untouched(reg, InitMACAddress) /\ Untouched(reg, InitRegisters)
  BY MACSteps, RegisterSteps, SetUpIsLawful, ConcatTouches, Zenon DEF SetUp
<1>10. QED
  BY <1>1, <1>2, <1>3, <1>4, <1>5, <1>6, <1>7, <1>8, <1>9

LEMMA SetUpCovers ==
  ASSUME NEW regs
  PROVE  Covered("lan7800", SetUp, regs)
<1>1. ASSUME NEW reg \in Registers, Untouched(reg, SetUp)
      PROVE  Right("lan7800", reg, regs[reg])
  <2>1. reg \notin {"MAF", "HW_CFG", "USB_CFG0", "RFE_CTL", "MAC_TX", "FCT_TX_CTL", "MAC_RX", "FCT_RX_CTL"}
    BY <1>1, SetUpTouches
  <2>2. Wanted("lan7800", reg) = {} /\ Unwanted("lan7800", reg) = {}
    BY <2>1 DEF Wanted, Unwanted
  <2>3. QED
    BY <2>2 DEF Right
<1>2. QED
  BY <1>1 DEF Covered

LEMMA SMSCCovers ==
  ASSUME NEW regs
  PROVE  Covered("smsc951x", StartSMSC951x, regs)
<1>1. /\ ~Untouched("ADDR", StartSMSC951x) /\ ~Untouched("MAC_CR", StartSMSC951x)
      /\ ~Untouched("TX_CFG", StartSMSC951x)
  <2>1. /\ 1 \in DOMAIN StartSMSC951x /\ StartSMSC951x[1] = WriteReg("ADDR", {"own"})
        /\ 3 \in DOMAIN StartSMSC951x /\ StartSMSC951x[3] = WriteReg("MAC_CR", {"RCVOWN", "TXEN", "RXEN"})
        /\ 4 \in DOMAIN StartSMSC951x /\ StartSMSC951x[4] = WriteReg("TX_CFG", {"ON"})
    BY DEF StartSMSC951x
  <2>2. QED
    BY <2>1 DEF Untouched, Sets, WriteReg, Step
<1>2. ASSUME NEW reg \in Registers, Untouched(reg, StartSMSC951x)
      PROVE  Right("smsc951x", reg, regs[reg])
  <2>1. reg \notin {"ADDR", "MAC_CR", "TX_CFG"}
    BY <1>1, <1>2
  <2>2. Wanted("smsc951x", reg) = {}
    BY <2>1 DEF Wanted
  <2>3. Unwanted("smsc951x", reg) \cap regs[reg] = {}
    BY DEF Unwanted
  <2>4. QED
    BY <2>2, <2>3 DEF Right
<1>3. QED
  BY <1>2 DEF Covered

-----------------------------------------------------------------------------
(* One step after the other.                                                *)

LEMMA BeforeIs ==
  ASSUME NEW S, NEW s \in S, NEW steps \in Seq(S)
  PROVE  /\ Before(s, steps) \in Seq(S) /\ Before(s, steps) # <<>>
         /\ Head(Before(s, steps)) = s /\ Tail(Before(s, steps)) = steps
         /\ DOMAIN Before(s, steps) = 1 .. (Len(steps) + 1)
         /\ \A i \in DOMAIN Before(s, steps) : Before(s, steps)[i] = IF i = 1 THEN s ELSE steps[i - 1]
<1>1. <<s>> \in Seq(S) /\ Len(<<s>>) = 1 /\ <<s>>[1] = s
  OBVIOUS
<1>2. Len(steps) \in Nat
  BY LenProperties
<1>3. /\ Before(s, steps) \in Seq(S) /\ Len(Before(s, steps)) = 1 + Len(steps)
      /\ \A i \in 1 .. 1 + Len(steps) : Before(s, steps)[i] = IF i <= 1 THEN <<s>>[i] ELSE steps[i - 1]
  BY <1>1, ConcatProperties DEF Before
<1>4. DOMAIN Before(s, steps) = 1 .. (Len(steps) + 1)
  BY <1>2, <1>3, LenProperties
<1>5. \A i \in DOMAIN Before(s, steps) : Before(s, steps)[i] = IF i = 1 THEN s ELSE steps[i - 1]
  BY <1>1, <1>2, <1>3, <1>4
<1>6. Before(s, steps) # <<>>
  BY <1>2, <1>3, EmptySeq
<1>7. Head(Before(s, steps)) = s
  <2>1. Head(Before(s, steps)) = Before(s, steps)[1]
    BY <1>3, <1>6
  <2>2. QED
    BY <1>2, <1>4, <1>5, <2>1
<1>8. Tail(Before(s, steps)) = steps
  <2>1. /\ Tail(Before(s, steps)) \in Seq(S) /\ Len(Tail(Before(s, steps))) = Len(Before(s, steps)) - 1
        /\ \A i \in 1 .. Len(Tail(Before(s, steps))) : Tail(Before(s, steps))[i] = Before(s, steps)[i + 1]
    BY <1>3, <1>6, HeadTailProperties
  <2>2. Len(Tail(Before(s, steps))) = Len(steps)
    BY <1>2, <1>3, <2>1
  <2>3. \A i \in 1 .. Len(steps) : Before(s, steps)[i + 1] = steps[i]
    BY <1>2, <1>3
  <2>4. \A i \in 1 .. Len(steps) : Tail(Before(s, steps))[i] = steps[i]
    BY <2>1, <2>2, <2>3
  <2>5. QED
    BY <2>1, <2>2, <2>4, SeqEqual
<1>9. QED
  BY <1>3, <1>4, <1>5, <1>6, <1>7, <1>8

LEMMA TailUntouched ==
  ASSUME NEW S, NEW steps \in Seq(S), steps # <<>>, NEW reg,
         Untouched(reg, Tail(steps)), ~Sets(Head(steps), reg)
  PROVE  Untouched(reg, steps)
<1>1. /\ Len(steps) \in Nat \ {0} /\ DOMAIN steps = 1 .. Len(steps) /\ Head(steps) = steps[1]
      /\ Tail(steps) \in Seq(S)
      /\ Len(Tail(steps)) = Len(steps) - 1 /\ \A i \in 1 .. Len(Tail(steps)) : Tail(steps)[i] = steps[i + 1]
  BY EmptySeq, LenProperties, HeadTailProperties
<1>2. DOMAIN Tail(steps) = 1 .. (Len(steps) - 1)
  BY <1>1, LenProperties
<1>3. ASSUME NEW i \in DOMAIN steps
      PROVE  ~Sets(steps[i], reg)
  <2>1. CASE i = 1
    BY <1>1, <2>1
  <2>2. CASE i # 1
    <3>1. i - 1 \in 1 .. (Len(steps) - 1) /\ i - 1 + 1 = i
      BY <1>1, <2>2
    <3>2. ~Sets(Tail(steps)[i - 1], reg) /\ Tail(steps)[i - 1] = steps[i]
      BY <1>1, <1>2, <3>1 DEF Untouched
    <3>3. QED
      BY <3>2
  <2>3. QED
    BY <2>1, <2>2
<1>4. QED
  BY <1>3 DEF Untouched

LEMMA StepCovers ==
  ASSUME NEW kind, NEW steps \in Seq(Lawful(kind)), steps # <<>>, NEW regs \in RegisterFiles,
         Covered(kind, steps, regs), Head(steps).op # "update"
  PROVE  Covered(kind, Tail(steps), AfterStep(regs, Head(steps)))
<1> DEFINE s == Head(steps)
<1>1. s \in Lawful(kind)
  BY HeadTailProperties
<1>2. s \in LanSteps /\ (s.op = "write" => Right(kind, s.reg, s.on))
  BY <1>1 DEF Lawful
<1> HIDE DEF s
<1>3. ASSUME NEW reg \in Registers, Untouched(reg, Tail(steps))
      PROVE  Right(kind, reg, AfterStep(regs, s)[reg])
  <2>1. CASE Sets(s, reg)
    <3>1. s.op = "write" /\ s.reg = reg
      BY <2>1 DEF Sets, s
    <3>2. AfterStep(regs, s)[reg] = s.on
      BY <3>1 DEF AfterStep, RegisterFiles
    <3>3. QED
      BY <1>2, <3>1, <3>2
  <2>2. CASE ~Sets(s, reg)
    <3>1. Untouched(reg, steps)
      BY <1>3, <2>2, TailUntouched DEF s
    <3>2. AfterStep(regs, s)[reg] = regs[reg]
      BY <1>2, <2>2 DEF AfterStep, RegisterFiles, Sets, LanSteps
    <3>3. QED
      BY <3>1, <3>2 DEF Covered
  <2>3. QED
    BY <2>1, <2>2
<1>4. QED
  BY <1>3 DEF Covered, s

LEMMA StepKeeps ==
  ASSUME NEW kind, NEW s \in Lawful(kind), NEW regs \in RegisterFiles
  PROVE  /\ AfterStep(regs, s) \in RegisterFiles
         /\ "LRST" \notin regs["HW_CFG"] => "LRST" \notin AfterStep(regs, s)["HW_CFG"]
         /\ "READY" \in regs["PMT_CTL"] => "READY" \in AfterStep(regs, s)["PMT_CTL"]
         /\ kind = "smsc951x" => AfterStep(regs, s)["HW_CFG"] = regs["HW_CFG"]
<1>1. /\ s \in LanSteps /\ (s.op = "write" /\ s.reg = "HW_CFG" => "LRST" \notin s.on /\ kind # "smsc951x")
      /\ (s.op = "write" /\ s.reg = "PMT_CTL" => "READY" \in s.on)
  BY DEF Lawful, Sets
<1>2. "HW_CFG" \in Registers /\ "PMT_CTL" \in Registers
  BY DEF Registers
<1>3. QED
  BY <1>1, <1>2 DEF AfterStep, RegisterFiles, LanSteps

LEMMA WriteBackIsLawful ==
  ASSUME NEW kind, NEW s \in Lawful(kind), NEW regs \in RegisterFiles, s.op = "update",
         "LRST" \notin regs["HW_CFG"], "READY" \in regs["PMT_CTL"]
  PROVE  WriteBack(s, regs) \in Lawful(kind)
<1> DEFINE v == (regs[s.reg] \ s.off) \cup s.on
<1>1. /\ s \in LanSteps /\ Right(kind, s.reg, s.on) /\ Unwanted(kind, s.reg) \subseteq s.off
      /\ (s.reg = "HW_CFG" => "LRST" \notin s.on /\ kind # "smsc951x") /\ (s.reg = "PMT_CTL" => "READY" \notin s.off)
  BY DEF Lawful, Sets
<1>2. s.reg \in Registers /\ regs[s.reg] \in SUBSET Bits /\ s.on \in SUBSET Bits
  BY <1>1 DEF LanSteps, RegisterFiles
<1>3. v \in SUBSET Bits
  BY <1>2
<1>4. Right(kind, s.reg, v)
  BY <1>1 DEF Right
<1>5. (s.reg = "HW_CFG" => "LRST" \notin v /\ kind # "smsc951x") /\ (s.reg = "PMT_CTL" => "READY" \in v)
  BY <1>1
<1> HIDE DEF v
<1>6. WriteReg(s.reg, v) \in Lawful(kind)
  BY <1>2, <1>3, <1>4, <1>5 DEF WriteReg, Step, Lawful, Sets, LanSteps
<1>7. QED
  BY <1>6 DEF WriteBack, v

LEMMA WriteBackCovers ==
  ASSUME NEW kind, NEW steps \in Seq(Lawful(kind)), steps # <<>>, NEW regs \in RegisterFiles,
         Covered(kind, steps, regs), Head(steps).op = "update",
         "LRST" \notin regs["HW_CFG"], "READY" \in regs["PMT_CTL"]
  PROVE  /\ Before(WriteBack(Head(steps), regs), Tail(steps)) \in Seq(Lawful(kind))
         /\ Covered(kind, Before(WriteBack(Head(steps), regs), Tail(steps)), regs)
<1> DEFINE w == WriteBack(Head(steps), regs)
           t == Tail(steps)
<1>1. Head(steps) \in Lawful(kind) /\ t \in Seq(Lawful(kind))
  BY HeadTailProperties
<1>2. w \in Lawful(kind)
  BY <1>1, WriteBackIsLawful
<1>3. w.op = "write" /\ w.reg = Head(steps).reg
  BY DEF WriteBack, WriteReg, Step
<1> HIDE DEF w, t
<1>4. /\ Before(w, t) \in Seq(Lawful(kind))
      /\ DOMAIN Before(w, t) = 1 .. (Len(t) + 1)
      /\ \A i \in DOMAIN Before(w, t) : Before(w, t)[i] = IF i = 1 THEN w ELSE t[i - 1]
  BY <1>1, <1>2, BeforeIs
<1>5. Len(t) \in Nat /\ DOMAIN t = 1 .. Len(t)
  BY <1>1, LenProperties
<1>6. ASSUME NEW reg \in Registers, Untouched(reg, Before(w, t))
      PROVE  Right(kind, reg, regs[reg])
  <2>1. ~Sets(w, reg)
    <3>1. 1 \in DOMAIN Before(w, t) /\ Before(w, t)[1] = w
      BY <1>4, <1>5
    <3>2. QED
      BY <1>6, <3>1 DEF Untouched
  <2>2. ~Sets(Head(steps), reg)
    BY <1>3, <2>1 DEF Sets
  <2>3. ASSUME NEW i \in DOMAIN t
        PROVE  i + 1 \in DOMAIN Before(w, t) /\ Before(w, t)[i + 1] = t[i]
    <3>1. i \in Nat \ {0} /\ i + 1 \in DOMAIN Before(w, t)
      BY <1>4, <1>5
    <3>2. i + 1 # 1 /\ i + 1 - 1 = i
      BY <3>1
    <3>3. QED
      BY <1>4, <3>1, <3>2
  <2>4. Untouched(reg, t)
    BY <1>6, <2>3 DEF Untouched
  <2>5. Untouched(reg, steps)
    BY <2>2, <2>4, TailUntouched DEF t
  <2>6. QED
    BY <2>5 DEF Covered
<1>7. QED
  BY <1>4, <1>6 DEF Covered, w, t

-----------------------------------------------------------------------------
(* A message either fails, or is tried again, or is the first half of an    *)
(* update, or ends a step.                                                  *)

LEMMA MessageCases ==
  ASSUME EthernetTypeOK, MessageFails \/ Write \/ Update \/ Wait \/ Read
  PROVE  GivesUp \/ TriesAgain \/ ReadsFirst \/ EndsStep
<1>1. CASE MessageFails
  BY <1>1 DEF MessageFails, GivesUp
<1>2. CASE Write
  BY <1>2 DEF Write, EndsStep, AfterStep
<1>3. CASE Update
  BY <1>3 DEF Update, ReadsFirst, WriteBack, Before
<1>4. CASE Wait
  <2>1. Head(lan.steps).op = "wait" /\ AfterStep(chip.regs, Head(lan.steps)) = chip.regs
    BY <1>4 DEF Wait, AfterStep
  <2>2. [chip EXCEPT !.regs = chip.regs] = chip
    BY DEF EthernetTypeOK, ChipTypes
  <2>3. QED
    BY <1>4, <2>1, <2>2 DEF Wait, EndsStep, GivesUp, TriesAgain
<1>5. CASE Read
  <2>1. Head(lan.steps).op = "read" /\ AfterStep(chip.regs, Head(lan.steps)) = chip.regs
    BY <1>5 DEF Read, AfterStep
  <2>2. [chip EXCEPT !.regs = chip.regs] = chip
    BY DEF EthernetTypeOK, ChipTypes
  <2>3. QED
    BY <1>5, <2>1, <2>2 DEF Read, EndsStep, GivesUp
<1>6. QED
  BY <1>1, <1>2, <1>3, <1>4, <1>5

-----------------------------------------------------------------------------
(* The adapters: what every step does to their types.                      *)

LEMMA EndsIs ==
  ASSUME lan \in LanTypes, ConfigI, lan.steps # <<>>, NEW done \in BOOLEAN, lan' = Ends(done)
  PROVE  /\ lan' \in LanTypes
         /\ lan.pc \in {"configure", "link"}
         /\ lan'.pc = IF lan.pc = "configure" /\ ~done THEN "failed" ELSE "idle"
         /\ lan'.named = IF lan.pc = "configure" THEN done ELSE lan.named
         /\ lan'.steps = <<>> /\ lan'.got = lan.got /\ lan'.sent = lan.sent /\ lan'.links = lan.links
         /\ lan'.answer = IF lan.pc = "configure" THEN lan.answer
                          ELSE IF ~done THEN "none" ELSE IF "up" \in chip.regs["MII_DATA"] THEN "up" ELSE "down"
<1>1. lan.pc \in {"configure", "link"}
  BY DEF ConfigI, LanTypes
<1>2. CASE lan.pc = "configure"
  <2>1. lan' = [lan EXCEPT !.pc = IF done THEN "idle" ELSE "failed", !.named = done, !.steps = <<>>]
    BY <1>2 DEF Ends
  <2>2. PICK pc \in {"failed", "idle"} : pc = IF done THEN "idle" ELSE "failed"
    OBVIOUS
  <2>3. lan' = [lan EXCEPT !.pc = pc, !.named = done, !.steps = <<>>]
    BY <2>1, <2>2
  <2>4. <<>> \in Seq(LanSteps)
    OBVIOUS
  <2>5. /\ lan' \in LanTypes /\ lan'.pc = pc /\ lan'.named = done /\ lan'.steps = <<>>
        /\ lan'.got = lan.got /\ lan'.sent = lan.sent /\ lan'.links = lan.links /\ lan'.answer = lan.answer
    BY <2>3, <2>4 DEF LanTypes
  <2>6. QED
    BY <1>1, <1>2, <2>2, <2>5
<1>3. CASE lan.pc = "link"
  <2>1. lan' = [lan EXCEPT !.pc = "idle", !.steps = <<>>,
                           !.answer = IF done /\ On("MII_DATA", {"up"}) THEN "up"
                                      ELSE IF done THEN "down" ELSE "none"]
    BY <1>3 DEF Ends
  <2>2. On("MII_DATA", {"up"}) <=> "up" \in chip.regs["MII_DATA"]
    BY DEF On
  <2>3. PICK answer \in LinkStates \cup {"none"} :
          answer = IF ~done THEN "none" ELSE IF "up" \in chip.regs["MII_DATA"] THEN "up" ELSE "down"
    BY DEF LinkStates
  <2>4. lan' = [lan EXCEPT !.pc = "idle", !.steps = <<>>, !.answer = answer]
    BY <2>1, <2>2, <2>3
  <2>5. <<>> \in Seq(LanSteps)
    OBVIOUS
  <2>6. /\ lan' \in LanTypes /\ lan'.pc = "idle" /\ lan'.named = lan.named /\ lan'.steps = <<>>
        /\ lan'.got = lan.got /\ lan'.sent = lan.sent /\ lan'.links = lan.links /\ lan'.answer = answer
    BY <2>4, <2>5 DEF LanTypes
  <2>7. QED
    BY <1>1, <1>3, <2>3, <2>6
<1>4. QED
  BY <1>1, <1>2, <1>3

LEMMA StepToCome ==
  ASSUME EthernetTypeOK, lan.steps # <<>>
  PROVE  Head(lan.steps) \in LanSteps /\ Tail(lan.steps) \in Seq(LanSteps)
BY HeadTailProperties DEF EthernetTypeOK, LanTypes

\* What the end of a step is, if it is not that of the call.
LEMMA ContinueIs ==
  ASSUME lan \in LanTypes, NEW tail \in Seq(LanSteps), tail # <<>>, lan' = Continue(tail)
  PROVE  /\ lan' \in LanTypes /\ lan'.steps = tail
         /\ lan'.pc = lan.pc /\ lan'.named = lan.named /\ lan'.got = lan.got /\ lan'.sent = lan.sent
         /\ lan'.links = lan.links /\ lan'.answer = lan.answer
<1>1. lan' = [lan EXCEPT !.steps = tail, !.tries = WaitReads]
  BY DEF Continue
<1>2. WaitReads \in Int
  BY EthernetAssumption
<1>3. QED
  BY <1>1, <1>2 DEF LanTypes

LEMMA AfterStepTyped ==
  ASSUME NEW s \in LanSteps, NEW regs \in RegisterFiles
  PROVE  AfterStep(regs, s) \in RegisterFiles
BY DEF AfterStep, RegisterFiles, LanSteps

LEMMA RegsTyped ==
  ASSUME chip \in ChipTypes, NEW regs \in RegisterFiles, chip' = [chip EXCEPT !.regs = regs]
  PROVE  /\ chip' \in ChipTypes /\ chip'.regs = regs
         /\ chip'.kind = chip.kind /\ chip'.config = chip.config /\ chip'.link = chip.link
         /\ chip'.unplugs = chip.unplugs
         /\ chip'.fifo = chip.fifo /\ chip'.due = chip.due /\ chip'.arrived = chip.arrived /\ chip'.wire = chip.wire
BY DEF ChipTypes

LEMMA EndsStepChip ==
  ASSUME EthernetTypeOK, EndsStep
  PROVE  /\ chip' \in ChipTypes /\ chip'.regs = AfterStep(chip.regs, Head(lan.steps))
         /\ chip'.kind = chip.kind /\ chip'.config = chip.config /\ chip'.link = chip.link
         /\ chip'.fifo = chip.fifo /\ chip'.due = chip.due /\ chip'.arrived = chip.arrived /\ chip'.wire = chip.wire
<1>1. Head(lan.steps) \in LanSteps /\ chip.regs \in RegisterFiles
  BY StepToCome DEF EndsStep, EthernetTypeOK, ChipTypes
<1>2. AfterStep(chip.regs, Head(lan.steps)) \in RegisterFiles
  BY <1>1, AfterStepTyped
<1>3. QED
  BY <1>2, RegsTyped DEF EndsStep, EthernetTypeOK

LEMMA ReadsFirstIs ==
  ASSUME EthernetTypeOK, ReadsFirst
  PROVE  /\ lan' \in LanTypes /\ lan'.steps = Before(WriteBack(Head(lan.steps), chip.regs), Tail(lan.steps))
         /\ lan'.pc = lan.pc /\ lan'.named = lan.named /\ lan'.got = lan.got /\ lan'.sent = lan.sent
         /\ lan'.links = lan.links /\ lan'.answer = lan.answer
<1> DEFINE new == Before(WriteBack(Head(lan.steps), chip.regs), Tail(lan.steps))
<1>1. Head(lan.steps) \in LanSteps /\ Tail(lan.steps) \in Seq(LanSteps)
  BY StepToCome DEF ReadsFirst
<1>2. WriteBack(Head(lan.steps), chip.regs) \in LanSteps
  <2>1. /\ Head(lan.steps).reg \in Registers /\ Head(lan.steps).on \in SUBSET Bits
        /\ chip.regs[Head(lan.steps).reg] \in SUBSET Bits
    BY <1>1 DEF LanSteps, EthernetTypeOK, ChipTypes, RegisterFiles
  <2>2. QED
    BY <2>1 DEF WriteBack, WriteReg, Step, LanSteps
<1>3. new \in Seq(LanSteps)
  BY <1>1, <1>2, BeforeIs
<1>4. lan' = [lan EXCEPT !.steps = new]
  BY DEF ReadsFirst
<1> HIDE DEF new
<1>5. /\ lan' \in LanTypes /\ lan'.steps = new
      /\ lan'.pc = lan.pc /\ lan'.named = lan.named /\ lan'.got = lan.got /\ lan'.sent = lan.sent
      /\ lan'.links = lan.links /\ lan'.answer = lan.answer
  BY <1>3, <1>4 DEF EthernetTypeOK, LanTypes
<1>6. QED
  BY <1>5 DEF new

LEMMA TriesAgainIs ==
  ASSUME EthernetTypeOK, TriesAgain
  PROVE  /\ lan' \in LanTypes /\ lan'.steps = lan.steps
         /\ lan'.pc = lan.pc /\ lan'.named = lan.named /\ lan'.got = lan.got /\ lan'.sent = lan.sent
         /\ lan'.links = lan.links /\ lan'.answer = lan.answer
<1>1. PICK tries \in Int : tries = lan.tries - 1
  BY DEF EthernetTypeOK, LanTypes
<1>2. lan' = [lan EXCEPT !.tries = tries]
  BY <1>1 DEF TriesAgain
<1>3. QED
  BY <1>2 DEF EthernetTypeOK, LanTypes

LEMMA MessagesTyped ==
  ASSUME EthernetTypeOK, ConfigI, MessageFails \/ Write \/ Update \/ Wait \/ Read
  PROVE  EthernetTypeOK'
<1>1. CASE GivesUp
  <2>1. lan' \in LanTypes
    BY <1>1, EndsIs DEF GivesUp, EthernetTypeOK
  <2>2. QED
    BY <1>1, <2>1 DEF GivesUp, EthernetTypeOK
<1>2. CASE TriesAgain
  BY <1>2, TriesAgainIs DEF TriesAgain, EthernetTypeOK
<1>3. CASE ReadsFirst
  BY <1>3, ReadsFirstIs DEF ReadsFirst, EthernetTypeOK
<1>4. CASE EndsStep
  <2>1. Tail(lan.steps) \in Seq(LanSteps)
    BY <1>4, StepToCome DEF EndsStep
  <2>2. lan' \in LanTypes
    <3>1. CASE Tail(lan.steps) = <<>>
      BY <1>4, <3>1, EndsIs DEF EndsStep, Continue, EthernetTypeOK
    <3>2. CASE Tail(lan.steps) # <<>>
      BY <1>4, <2>1, <3>2, ContinueIs DEF EndsStep, EthernetTypeOK
    <3>3. QED
      BY <3>1, <3>2
  <2>3. QED
    BY <1>4, <2>2, EndsStepChip DEF EthernetTypeOK
<1>5. QED
  BY <1>1, <1>2, <1>3, <1>4, MessageCases

-----------------------------------------------------------------------------
(* The registers and the call: messages.                                    *)

LEMMA ResettingSteps ==
  /\ WaitForReset \in Seq(LanSteps) /\ WaitForReset # <<>>
  /\ Head(WaitForReset) = WaitReg("HW_CFG", {}, {"LRST"}) /\ Tail(WaitForReset) = SetUp
  /\ AskForReset \in Seq(LanSteps) /\ AskForReset # <<>>
  /\ Head(AskForReset) = ReadWriteReg("HW_CFG", {"LRST"}, {}) /\ Tail(AskForReset) = WaitForReset
  /\ Before(ReadReg("ID_REV"), AskForReset) \in Seq(LanSteps)
  /\ Head(Before(ReadReg("ID_REV"), AskForReset)) = ReadReg("ID_REV")
  /\ Tail(Before(ReadReg("ID_REV"), AskForReset)) = AskForReset
  /\ \A bits \in SUBSET Bits :
       /\ Head(Before(WriteReg("HW_CFG", bits), WaitForReset)) = WriteReg("HW_CFG", bits)
       /\ Tail(Before(WriteReg("HW_CFG", bits), WaitForReset)) = WaitForReset
<1>1. /\ ReadReg("ID_REV") \in LanSteps /\ ReadWriteReg("HW_CFG", {"LRST"}, {}) \in LanSteps
      /\ WaitReg("HW_CFG", {}, {"LRST"}) \in LanSteps
  BY DEF ReadReg, ReadWriteReg, WaitReg, Step, LanSteps, Registers, Bits
<1>2. \A bits \in SUBSET Bits : WriteReg("HW_CFG", bits) \in LanSteps
  BY DEF WriteReg, Step, LanSteps, Registers
<1>3. SetUp \in Seq(LanSteps)
  BY SetUpIsLawful, LawfulSteps
<1>4. \A s \in LanSteps, steps \in Seq(LanSteps) :
        /\ Before(s, steps) \in Seq(LanSteps) /\ Before(s, steps) # <<>>
        /\ Head(Before(s, steps)) = s /\ Tail(Before(s, steps)) = steps
  BY BeforeIs
<1>5. /\ WaitForReset \in Seq(LanSteps) /\ WaitForReset # <<>>
      /\ Head(WaitForReset) = WaitReg("HW_CFG", {}, {"LRST"}) /\ Tail(WaitForReset) = SetUp
  BY <1>1, <1>3, <1>4, Zenon DEF WaitForReset
<1>6. /\ AskForReset \in Seq(LanSteps) /\ AskForReset # <<>>
      /\ Head(AskForReset) = ReadWriteReg("HW_CFG", {"LRST"}, {}) /\ Tail(AskForReset) = WaitForReset
  BY <1>1, <1>4, <1>5, Zenon DEF AskForReset
<1>7. /\ Before(ReadReg("ID_REV"), AskForReset) \in Seq(LanSteps)
      /\ Head(Before(ReadReg("ID_REV"), AskForReset)) = ReadReg("ID_REV")
      /\ Tail(Before(ReadReg("ID_REV"), AskForReset)) = AskForReset
  BY <1>1, <1>4, <1>6, Zenon
<1>8. \A bits \in SUBSET Bits :
       /\ Head(Before(WriteReg("HW_CFG", bits), WaitForReset)) = WriteReg("HW_CFG", bits)
       /\ Tail(Before(WriteReg("HW_CFG", bits), WaitForReset)) = WaitForReset
  BY <1>2, <1>4, <1>5, Zenon
<1>9. QED
  BY <1>5, <1>6, <1>7, <1>8

LEMMA ReadingSteps ==
  /\ Reading4 \in Seq(LanSteps) /\ Reading4 # <<>>
  /\ Head(Reading4) = ReadReg("MII_DATA") /\ Tail(Reading4) = <<>>
  /\ Reading3 \in Seq(LanSteps) /\ Reading3 # <<>> /\ Head(Reading3) = PHYNotBusy /\ Tail(Reading3) = Reading4
  /\ Reading2 \in Seq(LanSteps) /\ Reading2 # <<>>
  /\ Head(Reading2) = WriteReg("MII_ADDR", {"STATUS", "BUSY"}) /\ Tail(Reading2) = Reading3
  /\ Reading1 \in Seq(LanSteps) /\ Reading1 # <<>> /\ Head(Reading1) = PHYNotBusy /\ Tail(Reading1) = Reading2
<1>1. /\ ReadReg("MII_DATA") \in LanSteps /\ PHYNotBusy \in LanSteps
      /\ WriteReg("MII_ADDR", {"STATUS", "BUSY"}) \in LanSteps
  BY DEF PHYNotBusy, ReadReg, WriteReg, WaitReg, Step, LanSteps, Registers, Bits
<1>2. <<>> \in Seq(LanSteps)
  OBVIOUS
<1>3. \A s \in LanSteps, steps \in Seq(LanSteps) :
        /\ Before(s, steps) \in Seq(LanSteps) /\ Before(s, steps) # <<>>
        /\ Head(Before(s, steps)) = s /\ Tail(Before(s, steps)) = steps
  BY BeforeIs
<1>4. /\ Reading4 \in Seq(LanSteps) /\ Reading4 # <<>>
      /\ Head(Reading4) = ReadReg("MII_DATA") /\ Tail(Reading4) = <<>>
  BY <1>1, <1>2, <1>3, Zenon DEF Reading4
<1>5. Reading3 \in Seq(LanSteps) /\ Reading3 # <<>> /\ Head(Reading3) = PHYNotBusy /\ Tail(Reading3) = Reading4
  BY <1>1, <1>3, <1>4, Zenon DEF Reading3
<1>6. /\ Reading2 \in Seq(LanSteps) /\ Reading2 # <<>>
      /\ Head(Reading2) = WriteReg("MII_ADDR", {"STATUS", "BUSY"}) /\ Tail(Reading2) = Reading3
  BY <1>1, <1>3, <1>5, Zenon DEF Reading2
<1>7. Reading1 \in Seq(LanSteps) /\ Reading1 # <<>> /\ Head(Reading1) = PHYNotBusy /\ Tail(Reading1) = Reading2
  BY <1>1, <1>3, <1>6, Zenon DEF Reading1
<1>8. QED
  BY <1>4, <1>5, <1>6, <1>7

\* IsLinkUp sets no register but those of the PHY.
LEMMA LinkHead ==
  ASSUME LinkI, lan.pc = "link"
  PROVE  /\ Head(lan.steps).op # "update"
         /\ Head(lan.steps).op = "write" => Head(lan.steps).reg = "MII_ADDR"
<1>1. /\ ReadReg("MII_DATA").op = "read" /\ PHYNotBusy.op = "wait"
      /\ WriteReg("MII_ADDR", {"STATUS", "BUSY"}).op = "write"
      /\ WriteReg("MII_ADDR", {"STATUS", "BUSY"}).reg = "MII_ADDR"
  BY DEF ReadReg, PHYNotBusy, WaitReg, WriteReg, Step
<1>2. lan.steps \in {Reading1, Reading2, Reading3, Reading4}
  BY DEF LinkI
<1>3. Head(lan.steps) \in {PHYNotBusy, WriteReg("MII_ADDR", {"STATUS", "BUSY"}), ReadReg("MII_DATA")}
  BY <1>2, ReadingSteps
<1>4. QED
  BY <1>1, <1>3

LEMMA OthersKeepRight ==
  ASSUME NEW kind \in {"lan7800", "smsc951x"}, NEW regs, NEW new,
         \A reg \in Registers \ {"MII_ADDR", "MII_DATA", "PMT_CTL"} : new[reg] = regs[reg]
  PROVE  \A reg \in Registers : Right(kind, reg, regs[reg]) => Right(kind, reg, new[reg])
<1>1. \A reg \in {"MII_ADDR", "MII_DATA", "PMT_CTL"} : Wanted(kind, reg) = {} /\ Unwanted(kind, reg) = {}
  BY DEF Wanted, Unwanted
<1>2. QED
  BY <1>1 DEF Right

\* A change of no other register leaves everything as it should be.
LEMMA OthersKeep ==
  ASSUME EthernetTypeOK, ConfigI, chip'.kind = chip.kind, lan'.steps = lan.steps, lan'.pc = lan.pc,
         lan'.named = lan.named,
         \A reg \in Registers \ {"MII_ADDR", "MII_DATA", "PMT_CTL"} : chip'.regs[reg] = chip.regs[reg],
         "READY" \in chip'.regs["PMT_CTL"]
  PROVE  ConfigI'
<1>1. chip.kind \in {"lan7800", "smsc951x"}
  BY DEF EthernetTypeOK, ChipTypes
<1>2. \A reg \in Registers : Right(chip.kind, reg, chip.regs[reg]) => Right(chip.kind, reg, chip'.regs[reg])
  BY <1>1, OthersKeepRight
<1>3. chip'.regs["HW_CFG"] = chip.regs["HW_CFG"]
  BY DEF Registers
<1>4. Settled => Settled'
  BY <1>2, <1>3 DEF Settled, Covered
<1>5. Resetting => Resetting'
  BY DEF Resetting
<1>6. Working => Working'
  BY <1>2, <1>3 DEF Working
<1>7. QED
  BY <1>4, <1>5, <1>6 DEF ConfigI

LEMMA CoversAll ==
  ASSUME NEW kind, NEW regs, Covered(kind, <<>>, regs)
  PROVE  \A reg \in Registers : Right(kind, reg, regs[reg])
<1>1. DOMAIN <<>> = {}
  OBVIOUS
<1>2. QED
  BY <1>1 DEF Covered, Untouched

LEMMA ReadsFirstConfig ==
  ASSUME EthernetTypeOK, ConfigI, LinkI, ReadsFirst
  PROVE  ConfigI'
<1>1. lan.pc = "configure"
  BY LinkHead DEF ReadsFirst, ConfigI, EthernetTypeOK, LanTypes
<1>2. /\ lan'.steps = Before(WriteBack(Head(lan.steps), chip.regs), Tail(lan.steps)) /\ lan'.pc = lan.pc
      /\ lan'.named = lan.named /\ chip' = chip
  BY ReadsFirstIs DEF ReadsFirst
<1>3. Settled => Settled'
  <2>1. chip.regs \in RegisterFiles
    BY DEF EthernetTypeOK, ChipTypes
  <2>2. QED
    BY <1>2, <2>1, WriteBackCovers DEF Settled, ConfigI, ReadsFirst
<1>4. Resetting => Resetting'
  <2> SUFFICES ASSUME Resetting
               PROVE  Resetting'
    OBVIOUS
  <2>1. lan.steps = AskForReset
    <3>1. Head(lan.steps).op = "update"
      BY DEF ReadsFirst
    <3>2. /\ ReadReg("ID_REV").op # "update" /\ WaitReg("HW_CFG", {}, {"LRST"}).op # "update"
          /\ \A bits \in SUBSET Bits : WriteReg("HW_CFG", bits).op # "update"
      BY DEF ReadReg, WaitReg, WriteReg, Step
    <3>3. QED
      BY <3>1, <3>2, ResettingSteps DEF Resetting
  <2>2. PICK s : s = Head(lan.steps)
    OBVIOUS
  <2>3. s.reg = "HW_CFG" /\ s.on = {"LRST"}
    BY <2>1, <2>2, ResettingSteps DEF ReadWriteReg, Step
  <2>4. PICK bits \in SUBSET Bits : bits = (chip.regs[s.reg] \ s.off) \cup s.on
    BY <2>3 DEF EthernetTypeOK, ChipTypes, RegisterFiles, Registers, Bits
  <2>5. WriteBack(s, chip.regs) = WriteReg("HW_CFG", bits)
    BY <2>3, <2>4 DEF WriteBack
  <2>6. lan'.steps = Before(WriteReg("HW_CFG", bits), WaitForReset)
    BY <1>2, <2>1, <2>2, <2>5, ResettingSteps
  <2>7. QED
    BY <1>2, <2>6 DEF Resetting
<1>5. QED
  BY <1>1, <1>2, <1>3, <1>4 DEF ConfigI

LEMMA SettledStep ==
  ASSUME EthernetTypeOK, ConfigI, lan.pc = "configure", Settled, EndsStep
  PROVE  ConfigI'
<1>1. /\ chip.regs \in RegisterFiles /\ lan.steps \in Seq(Lawful(chip.kind)) /\ lan.steps # <<>>
      /\ Covered(chip.kind, lan.steps, chip.regs) /\ Head(lan.steps).op # "update"
      /\ "LRST" \notin chip.regs["HW_CFG"] /\ "READY" \in chip.regs["PMT_CTL"]
  BY DEF EthernetTypeOK, ChipTypes, Settled, EndsStep, ConfigI
<1>2. Head(lan.steps) \in Lawful(chip.kind) /\ Tail(lan.steps) \in Seq(Lawful(chip.kind))
  BY <1>1, HeadTailProperties
<1>3. chip'.regs = AfterStep(chip.regs, Head(lan.steps)) /\ chip'.kind = chip.kind
  BY EndsStepChip
<1>4. Covered(chip'.kind, Tail(lan.steps), chip'.regs)
  BY <1>1, <1>3, StepCovers
<1>5. "LRST" \notin chip'.regs["HW_CFG"] /\ "READY" \in chip'.regs["PMT_CTL"]
  BY <1>1, <1>2, <1>3, StepKeeps
<1>6. CASE Tail(lan.steps) = <<>>
  <2>1. lan' = Ends(TRUE)
    BY <1>6 DEF EndsStep, Continue
  <2>2. lan'.pc = "idle" /\ lan'.named = TRUE /\ lan'.steps = <<>>
    BY <1>1, <2>1, EndsIs DEF EthernetTypeOK
  <2>3. \A reg \in Registers : Right(chip'.kind, reg, chip'.regs[reg])
    BY <1>4, <1>6, CoversAll
  <2>4. QED
    BY <1>5, <2>2, <2>3 DEF ConfigI, Working
<1>7. CASE Tail(lan.steps) # <<>>
  <2>1. Tail(lan.steps) \in Seq(LanSteps) /\ lan' = Continue(Tail(lan.steps))
    BY <1>1, StepToCome DEF EndsStep
  <2>2. lan'.steps = Tail(lan.steps) /\ lan'.pc = lan.pc /\ lan'.named = lan.named
    BY <1>7, <2>1, ContinueIs DEF EthernetTypeOK
  <2>3. Settled'
    BY <1>2, <1>3, <1>4, <1>5, <2>2 DEF Settled
  <2>4. QED
    BY <1>5, <2>2, <2>3 DEF ConfigI
<1>8. QED
  BY <1>6, <1>7

LEMMA ResettingStep ==
  ASSUME EthernetTypeOK, ConfigI, lan.pc = "configure", Resetting, EndsStep
  PROVE  ConfigI'
<1>1. /\ chip.regs \in RegisterFiles /\ lan.steps # <<>> /\ chip.kind = "lan7800"
      /\ Head(lan.steps).op # "update" /\ "READY" \in chip.regs["PMT_CTL"]
  BY DEF EthernetTypeOK, ChipTypes, EndsStep, ConfigI, Resetting
<1>2. chip'.regs = AfterStep(chip.regs, Head(lan.steps)) /\ chip'.kind = chip.kind
  BY EndsStepChip
<1>3. lan.steps # AskForReset
  BY <1>1, ResettingSteps DEF ReadWriteReg, Step
<1>4. CASE lan.steps = WaitForReset
  <2>1. Head(lan.steps) = WaitReg("HW_CFG", {}, {"LRST"}) /\ Tail(lan.steps) = SetUp
    BY <1>4, ResettingSteps
  <2>2. /\ Head(lan.steps).op = "wait" /\ Head(lan.steps).reg = "HW_CFG" /\ Head(lan.steps).off = {"LRST"}
    BY <2>1 DEF WaitReg, Step
  <2>3. chip'.regs = chip.regs
    BY <1>2, <2>2 DEF AfterStep
  <2>4. "LRST" \notin chip.regs["HW_CFG"]
    BY <2>2 DEF EndsStep
  <2>5. Tail(lan.steps) \in Seq(LanSteps) /\ Tail(lan.steps) # <<>> /\ lan' = Continue(Tail(lan.steps))
    BY <1>1, <2>1, SetUpIsLawful, StepToCome DEF EndsStep
  <2>6. lan'.steps = SetUp /\ lan'.pc = lan.pc /\ lan'.named = lan.named
    BY <2>1, <2>5, ContinueIs DEF EthernetTypeOK
  <2>7. Settled'
    BY <1>1, <1>2, <2>3, <2>4, <2>6, SetUpIsLawful, SetUpCovers DEF Settled
  <2>8. QED
    BY <1>1, <2>3, <2>6, <2>7 DEF ConfigI
<1>5. CASE lan.steps # WaitForReset
  <2>1. /\ Tail(lan.steps) \in {AskForReset, WaitForReset}
        /\ Head(lan.steps).op = "write" => Head(lan.steps).reg = "HW_CFG"
    <3>1. CASE lan.steps = Before(ReadReg("ID_REV"), AskForReset)
      <4>1. Head(lan.steps) = ReadReg("ID_REV") /\ Tail(lan.steps) = AskForReset
        BY <3>1, ResettingSteps
      <4>2. QED
        BY <4>1 DEF ReadReg, Step
    <3>2. CASE \E bits \in SUBSET Bits : lan.steps = Before(WriteReg("HW_CFG", bits), WaitForReset)
      <4>1. PICK bits \in SUBSET Bits : lan.steps = Before(WriteReg("HW_CFG", bits), WaitForReset)
        BY <3>2
      <4>2. Head(lan.steps) = WriteReg("HW_CFG", bits) /\ Tail(lan.steps) = WaitForReset
        BY <4>1, ResettingSteps
      <4>3. QED
        BY <4>2 DEF WriteReg, Step
    <3>3. QED
      BY <1>3, <1>5, <3>1, <3>2 DEF Resetting
  <2>2. chip'.regs["PMT_CTL"] = chip.regs["PMT_CTL"]
    BY <1>1, <1>2, <2>1 DEF AfterStep, RegisterFiles, Registers
  <2>3. Tail(lan.steps) \in Seq(LanSteps) /\ Tail(lan.steps) # <<>> /\ lan' = Continue(Tail(lan.steps))
    BY <2>1, ResettingSteps DEF EndsStep
  <2>4. lan'.steps = Tail(lan.steps) /\ lan'.pc = lan.pc /\ lan'.named = lan.named
    BY <2>3, ContinueIs DEF EthernetTypeOK
  <2>5. Resetting'
    BY <1>1, <1>2, <2>1, <2>4 DEF Resetting
  <2>6. QED
    BY <1>1, <2>2, <2>4, <2>5 DEF ConfigI
<1>6. QED
  BY <1>4, <1>5

LEMMA LinkStep ==
  ASSUME EthernetTypeOK, ConfigI, LinkI, lan.pc = "link", EndsStep
  PROVE  ConfigI'
<1>1. /\ chip.regs \in RegisterFiles /\ lan.steps # <<>> /\ chip.kind \in {"lan7800", "smsc951x"}
      /\ "READY" \in chip.regs["PMT_CTL"] /\ lan.named /\ Working
  BY DEF EthernetTypeOK, ChipTypes, EndsStep, ConfigI
<1>2. chip'.regs = AfterStep(chip.regs, Head(lan.steps)) /\ chip'.kind = chip.kind
  BY EndsStepChip
<1>3. Head(lan.steps).op = "write" => Head(lan.steps).reg = "MII_ADDR"
  BY LinkHead
<1>4. \A reg \in Registers \ {"MII_ADDR"} : chip'.regs[reg] = chip.regs[reg]
  BY <1>1, <1>2, <1>3 DEF AfterStep, RegisterFiles
<1>5. \A reg \in Registers : Right(chip.kind, reg, chip.regs[reg]) => Right(chip.kind, reg, chip'.regs[reg])
  BY <1>1, <1>4, OthersKeepRight
<1>6. chip'.regs["HW_CFG"] = chip.regs["HW_CFG"] /\ chip'.regs["PMT_CTL"] = chip.regs["PMT_CTL"]
  BY <1>4 DEF Registers
<1>7. Working'
  BY <1>1, <1>2, <1>5, <1>6 DEF Working
<1>8. /\ lan'.pc \in {"idle", "link"} /\ lan'.named = lan.named
      /\ lan'.pc = "idle" => lan'.steps = <<>>
  <2>1. CASE Tail(lan.steps) = <<>>
    <3>1. lan' = Ends(TRUE)
      BY <2>1 DEF EndsStep, Continue
    <3>2. QED
      BY <1>1, <3>1, EndsIs DEF EthernetTypeOK
  <2>2. CASE Tail(lan.steps) # <<>>
    <3>1. Tail(lan.steps) \in Seq(LanSteps) /\ lan' = Continue(Tail(lan.steps))
      BY <1>1, StepToCome DEF EndsStep
    <3>2. QED
      BY <2>2, <3>1, ContinueIs DEF EthernetTypeOK
  <2>3. QED
    BY <2>1, <2>2
<1>9. QED
  BY <1>1, <1>6, <1>7, <1>8 DEF ConfigI

LEMMA MessagesConfig ==
  ASSUME EthernetTypeOK, ConfigI, LinkI, MessageFails \/ Write \/ Update \/ Wait \/ Read
  PROVE  ConfigI'
<1>1. CASE GivesUp
  <2>1. /\ lan.pc \in {"configure", "link"}
        /\ lan'.pc = IF lan.pc = "configure" THEN "failed" ELSE "idle"
        /\ lan'.named = IF lan.pc = "configure" THEN FALSE ELSE lan.named
        /\ lan'.steps = <<>>
    BY <1>1, EndsIs DEF GivesUp, EthernetTypeOK
  <2>2. chip' = chip
    BY <1>1 DEF GivesUp
  <2>3. QED
    BY <2>1, <2>2 DEF ConfigI, Working
<1>2. CASE TriesAgain
  <2>1. /\ lan'.pc = lan.pc /\ lan'.steps = lan.steps /\ lan'.named = lan.named /\ chip' = chip
    BY <1>2, TriesAgainIs DEF TriesAgain
  <2>2. QED
    BY <2>1 DEF ConfigI, Working, Settled, Resetting
<1>3. CASE ReadsFirst
  BY <1>3, ReadsFirstConfig
<1>4. CASE EndsStep
  <2>1. lan.pc \in {"configure", "link"}
    BY <1>4 DEF EndsStep, ConfigI, EthernetTypeOK, LanTypes
  <2>2. lan.pc = "configure" => Settled \/ Resetting
    BY DEF ConfigI
  <2>3. QED
    BY <1>4, <2>1, <2>2, SettledStep, ResettingStep, LinkStep
<1>5. QED
  BY <1>1, <1>2, <1>3, <1>4, MessageCases

-----------------------------------------------------------------------------
(* The registers and the call: what the chip does, and the other calls.     *)

LEMMA FourSteps ==
  ASSUME NEW a \in LanSteps, NEW b \in LanSteps, NEW c \in LanSteps, NEW d \in LanSteps
  PROVE  <<a, b, c, d>> = Before(a, Before(b, Before(c, Before(d, <<>>))))
<1>1. /\ <<d>> \in Seq(LanSteps) /\ <<a, b, c>> \in Seq(LanSteps) /\ <<a, b, c, d>> \in Seq(LanSteps)
      /\ Len(<<d>>) = 1 /\ Len(<<a, b, c>>) = 3 /\ Len(<<a, b, c, d>>) = 4
  OBVIOUS
<1>2. <<d>> \o <<>> = <<d>>
  BY <1>1, ConcatEmptySeq
<1>3. <<a, b, c>> \o <<d>> = <<a>> \o (<<b>> \o (<<c>> \o <<d>>))
  <2>1. \A s \in Seq(LanSteps) : <<a, b, c>> \o s = <<a>> \o (<<b>> \o (<<c>> \o s))
    BY ResetThenSetUp, ZenonT(40)
  <2>2. QED
    BY <1>1, <2>1, Zenon
<1>4. <<a, b, c, d>> = <<a, b, c>> \o <<d>>
  <2>1. /\ <<a, b, c>> \o <<d>> \in Seq(LanSteps) /\ Len(<<a, b, c>> \o <<d>>) = 4
        /\ \A i \in 1 .. 4 : (<<a, b, c>> \o <<d>>)[i] = IF i <= 3 THEN <<a, b, c>>[i] ELSE <<d>>[i - 3]
    BY <1>1, ConcatProperties
  <2>2. \A i \in 1 .. 4 : <<a, b, c, d>>[i] = (<<a, b, c>> \o <<d>>)[i]
    BY <2>1
  <2>3. QED
    BY <1>1, <2>1, <2>2, SeqEqual
<1>5. QED
  BY <1>2, <1>3, <1>4, Zenon DEF Before

LEMMA ReadingIsPHYRead == PHYRead("STATUS") = Reading1
<1> PICK a \in LanSteps : a = PHYNotBusy
  BY DEF PHYNotBusy, WaitReg, Step, LanSteps, Registers, Bits
<1> PICK b \in LanSteps : b = WriteReg("MII_ADDR", {"STATUS", "BUSY"})
  BY DEF WriteReg, Step, LanSteps, Registers, Bits
<1> PICK c \in LanSteps : c = ReadReg("MII_DATA")
  BY DEF ReadReg, Step, LanSteps, Registers, Bits
<1>1. <<a, b, a, c>> = Before(a, Before(b, Before(a, Before(c, <<>>))))
  <2>1. \A w, x, y, z \in LanSteps : <<w, x, y, z>> = Before(w, Before(x, Before(y, Before(z, <<>>))))
    BY FourSteps, Zenon
  <2>2. QED
    BY <2>1
<1>2. PHYRead("STATUS") = <<a, b, a, c>>
  BY DEF PHYRead
<1>3. Reading1 = Before(a, Before(b, Before(a, Before(c, <<>>))))
  BY DEF Reading1, Reading2, Reading3, Reading4
<1>4. QED
  BY <1>1, <1>2, <1>3

LEMMA LanFields ==
  ASSUME lan \in LanTypes
  PROVE  /\ lan.steps \in Seq(LanSteps) /\ lan.named \in BOOLEAN /\ lan.got \in Seq(LanFrames)
         /\ lan.sent \in Seq(Nat) /\ lan.links \in SUBSET LinkStates
         /\ lan.pc \in {"configure", "failed", "idle", "link", "waits", "asserts"}
BY DEF LanTypes

LEMMA ChipFields ==
  ASSUME chip \in ChipTypes
  PROVE  /\ chip.kind \in {"lan7800", "smsc951x"} /\ chip.config \in SUBSET {"MEF", "BIR"}
         /\ chip.regs \in RegisterFiles /\ chip.link \in LinkStates /\ chip.unplugs \in Nat
         /\ chip.fifo \in Seq(LanFrames) /\ chip.due \in SUBSET LanFrames /\ chip.arrived \in Nat
         /\ chip.wire \in Seq(Nat)
BY DEF ChipTypes

LEMMA PowerUpIs ==
  ASSUME NEW kind \in {"lan7800", "smsc951x"}, NEW config \in SUBSET {"MEF", "BIR"}
  PROVE  /\ PowerUp(kind, config) \in RegisterFiles /\ PowerUp(kind, config)["PMT_CTL"] = {"READY"}
         /\ "LRST" \notin PowerUp(kind, config)["HW_CFG"]
         /\ kind = "smsc951x" => PowerUp(kind, config)["HW_CFG"] = config
BY DEF PowerUp, RegisterFiles, Registers, Bits

LEMMA StartSame ==
  ASSUME StartI, chip'.kind = chip.kind, chip'.config = chip.config,
         chip.kind = "smsc951x" => chip'.regs["HW_CFG"] = chip.regs["HW_CFG"],
         lan'.pc = lan.pc \/ lan'.pc \notin {"waits", "asserts"}
  PROVE  StartI'
BY DEF StartI, MakesWait, Combines

\* The reset of the whole chip ends before the registers are set up.
LEMMA ResetDoneKeeps ==
  ASSUME EthernetTypeOK, ConfigI, LinkI, StartI, ResetDone
  PROVE  EthernetTypeOK' /\ ConfigI' /\ LinkI' /\ StartI'
<1> DEFINE regs == [PowerUp(chip.kind, chip.config) EXCEPT !["ADDR"] = {}]
<1>1. /\ regs \in RegisterFiles /\ regs["PMT_CTL"] = {"READY"}
      /\ chip.kind = "smsc951x" => regs["HW_CFG"] = chip.config
  BY PowerUpIs, ChipFields DEF EthernetTypeOK, RegisterFiles, Registers
<1>2. chip' = [chip EXCEPT !.regs = regs] /\ lan' = lan /\ "LRST" \in chip.regs["HW_CFG"]
  BY DEF ResetDone, On
<1> HIDE DEF regs
<1>3. chip' \in ChipTypes /\ chip'.regs = regs /\ chip'.kind = chip.kind /\ chip'.config = chip.config
      /\ chip'.link = chip.link
  BY <1>1, <1>2, RegsTyped DEF EthernetTypeOK
<1>4. ~lan.named /\ ~Settled
  BY <1>2 DEF ConfigI, Working, Settled
<1>5. ConfigI'
  BY <1>1, <1>2, <1>3, <1>4 DEF ConfigI, Resetting
<1>6. LinkI'
  BY <1>2, <1>4 DEF ConfigI, LinkI
<1>7. StartI'
  BY <1>1, <1>2, <1>3 DEF StartI, MakesWait, Combines
<1>8. QED
  BY <1>2, <1>3, <1>5, <1>6, <1>7 DEF EthernetTypeOK

LEMMA PHYResetDoneKeeps ==
  ASSUME EthernetTypeOK, ConfigI, LinkI, StartI, PHYResetDone
  PROVE  EthernetTypeOK' /\ ConfigI' /\ LinkI' /\ StartI'
<1> DEFINE regs == [chip.regs EXCEPT !["PMT_CTL"] = {"READY"}]
<1>1. /\ regs \in RegisterFiles /\ regs["PMT_CTL"] = {"READY"}
      /\ \A reg \in Registers \ {"PMT_CTL"} : regs[reg] = chip.regs[reg]
      /\ regs["MII_ADDR"] = chip.regs["MII_ADDR"] /\ regs["MII_DATA"] = chip.regs["MII_DATA"]
      /\ regs["HW_CFG"] = chip.regs["HW_CFG"]
  BY ChipFields DEF EthernetTypeOK, RegisterFiles, Registers, Bits
<1>2. chip' = [chip EXCEPT !.regs = regs] /\ lan' = lan
  BY DEF PHYResetDone
<1> HIDE DEF regs
<1>3. chip' \in ChipTypes /\ chip'.regs = regs /\ chip'.kind = chip.kind /\ chip'.config = chip.config
      /\ chip'.link = chip.link
  BY <1>1, <1>2, RegsTyped DEF EthernetTypeOK
<1>4. ConfigI'
  BY <1>1, <1>2, <1>3, OthersKeep
<1>5. LinkI'
  BY <1>1, <1>2, <1>3 DEF LinkI, Answered
<1>6. StartI'
  BY <1>1, <1>2, <1>3, StartSame
<1>7. QED
  BY <1>2, <1>3, <1>4, <1>5, <1>6 DEF EthernetTypeOK

LEMMA PHYDoneKeeps ==
  ASSUME EthernetTypeOK, ConfigI, LinkI, StartI, PHYDone
  PROVE  EthernetTypeOK' /\ ConfigI' /\ LinkI' /\ StartI'
<1> DEFINE addr == chip.regs["MII_ADDR"] \ {"BUSY"}
           data == IF On("MII_ADDR", {"WRITE"}) THEN chip.regs["MII_DATA"]
                   ELSE IF On("MII_ADDR", {"STATUS"}) THEN {chip.link} ELSE {"LEDs"}
           regs == [chip.regs EXCEPT !["MII_ADDR"] = addr, !["MII_DATA"] = data]
<1>1. chip.regs \in RegisterFiles /\ chip.link \in {"up", "down"}
  BY ChipFields DEF EthernetTypeOK, LinkStates
<1>2. addr \in SUBSET Bits /\ "BUSY" \notin addr
  BY <1>1 DEF RegisterFiles, Registers
<1>3. data \in SUBSET Bits
  BY <1>1 DEF RegisterFiles, Registers, Bits
<1>4. "STATUS" \in chip.regs["MII_ADDR"] /\ "WRITE" \notin chip.regs["MII_ADDR"] => data = {chip.link}
  BY DEF On
<1>5. chip' = [chip EXCEPT !.regs = regs] /\ lan' = lan /\ "BUSY" \in chip.regs["MII_ADDR"]
  BY DEF PHYDone, On
<1> HIDE DEF addr, data
<1>6. /\ regs \in RegisterFiles /\ regs["MII_ADDR"] = addr /\ regs["MII_DATA"] = data
      /\ \A reg \in Registers \ {"MII_ADDR", "MII_DATA"} : regs[reg] = chip.regs[reg]
      /\ regs["HW_CFG"] = chip.regs["HW_CFG"]
  BY <1>1, <1>2, <1>3 DEF RegisterFiles, Registers
<1> HIDE DEF regs
<1>7. chip' \in ChipTypes /\ chip'.regs = regs /\ chip'.kind = chip.kind /\ chip'.config = chip.config
      /\ chip'.link = chip.link
  BY <1>5, <1>6, RegsTyped DEF EthernetTypeOK
<1>8. ConfigI'
  <2>1. regs["PMT_CTL"] = chip.regs["PMT_CTL"]
    BY <1>6 DEF Registers
  <2>2. "READY" \in chip.regs["PMT_CTL"]
    BY DEF ConfigI
  <2>3. QED
    BY <1>5, <1>6, <1>7, <2>1, <2>2, OthersKeep
<1>9. LinkI'
  BY <1>2, <1>4, <1>5, <1>6, <1>7 DEF LinkI, Answered
<1>10. StartI'
  BY <1>5, <1>6, <1>7, StartSame
<1>11. QED
  BY <1>5, <1>7, <1>8, <1>9, <1>10 DEF EthernetTypeOK

LEMMA LinkChangesKeeps ==
  ASSUME EthernetTypeOK, ConfigI, LinkI, LinkChanges
  PROVE  /\ EthernetTypeOK' /\ ConfigI' /\ LinkI'
         /\ lan'.pc = lan.pc /\ lan'.named = lan.named /\ lan'.got = lan.got /\ lan'.sent = lan.sent
         /\ chip'.kind = chip.kind /\ chip'.config = chip.config /\ chip'.regs = chip.regs
         /\ chip'.fifo = chip.fifo /\ chip'.due = chip.due /\ chip'.arrived = chip.arrived /\ chip'.wire = chip.wire
<1>1. PICK link \in LinkStates : link = IF chip.link = "up" THEN "down" ELSE "up"
  BY DEF LinkStates
<1>2. PICK unplugs \in Nat : unplugs = chip.unplugs + 1
  BY ChipFields DEF EthernetTypeOK
<1>3. PICK links \in SUBSET LinkStates : links = IF lan.pc = "link" THEN lan.links \cup {link} ELSE lan.links
  BY <1>1, LanFields DEF EthernetTypeOK
<1>4. chip' = [chip EXCEPT !.link = link, !.unplugs = unplugs] /\ lan' = [lan EXCEPT !.links = links]
  BY <1>1, <1>2, <1>3 DEF LinkChanges
<1>5. /\ chip' \in ChipTypes /\ chip'.link = link /\ chip'.kind = chip.kind /\ chip'.config = chip.config
      /\ chip'.regs = chip.regs
      /\ chip'.fifo = chip.fifo /\ chip'.due = chip.due /\ chip'.arrived = chip.arrived /\ chip'.wire = chip.wire
  BY <1>4 DEF EthernetTypeOK, ChipTypes
<1>6. /\ lan' \in LanTypes /\ lan'.links = links /\ lan'.pc = lan.pc /\ lan'.named = lan.named
      /\ lan'.steps = lan.steps /\ lan'.got = lan.got /\ lan'.sent = lan.sent /\ lan'.answer = lan.answer
  BY <1>4 DEF EthernetTypeOK, LanTypes
<1>7. ConfigI'
  BY <1>5, <1>6, OthersKeep DEF ConfigI
<1>8. Answered => Answered'
  BY <1>3, <1>5, <1>6 DEF Answered
<1>9. LinkI'
  BY <1>3, <1>5, <1>6, <1>8 DEF LinkI
<1>10. QED
  BY <1>5, <1>6, <1>7, <1>9 DEF EthernetTypeOK

LEMMA MessagesLink ==
  ASSUME EthernetTypeOK, ConfigI, LinkI, MessageFails \/ Write \/ Update \/ Wait \/ Read
  PROVE  LinkI'
<1>1. CASE GivesUp
  <2>1. /\ lan'.pc \in {"failed", "idle"} /\ lan'.links = lan.links
        /\ lan'.answer = IF lan.pc = "configure" THEN lan.answer ELSE "none"
    BY <1>1, EndsIs DEF GivesUp, EthernetTypeOK
  <2>2. QED
    BY <2>1 DEF LinkI
<1>2. CASE TriesAgain
  <2>1. /\ lan'.pc = lan.pc /\ lan'.steps = lan.steps /\ lan'.links = lan.links /\ lan'.answer = lan.answer
        /\ chip' = chip
    BY <1>2, TriesAgainIs DEF TriesAgain
  <2>2. QED
    BY <2>1 DEF LinkI, Answered
<1>3. CASE ReadsFirst
  <2>1. lan.pc # "link"
    BY <1>3, LinkHead DEF ReadsFirst
  <2>2. lan'.pc = lan.pc /\ lan'.links = lan.links /\ lan'.answer = lan.answer
    BY <1>3, ReadsFirstIs
  <2>3. QED
    BY <2>1, <2>2 DEF LinkI
<1>4. CASE EndsStep /\ lan.pc # "link"
  <2>1. lan.steps # <<>> /\ Tail(lan.steps) \in Seq(LanSteps)
    BY <1>4, StepToCome DEF EndsStep
  <2>2. lan'.pc # "link" /\ lan'.links = lan.links /\ lan'.answer = lan.answer
    <3>1. CASE Tail(lan.steps) = <<>>
      <4>1. lan' = Ends(TRUE)
        BY <1>4, <3>1 DEF EndsStep, Continue
      <4>2. QED
        BY <1>4, <2>1, <4>1, EndsIs DEF EthernetTypeOK
    <3>2. CASE Tail(lan.steps) # <<>>
      BY <1>4, <2>1, <3>2, ContinueIs DEF EndsStep, EthernetTypeOK
    <3>3. QED
      BY <3>1, <3>2
  <2>3. QED
    BY <1>4, <2>2 DEF LinkI
<1>5. CASE EndsStep /\ lan.pc = "link"
  <2>1. /\ lan.steps # <<>> /\ chip.regs \in RegisterFiles /\ lan.links \in SUBSET {"up", "down"}
        /\ chip.link \in lan.links
    BY <1>5, ChipFields, LanFields DEF EndsStep, EthernetTypeOK, LinkI, LinkStates
  <2>2. chip'.regs = AfterStep(chip.regs, Head(lan.steps)) /\ chip'.link = chip.link
    BY <1>5, EndsStepChip
  <2>3. ASSUME Tail(lan.steps) \in {Reading2, Reading3, Reading4}
        PROVE  lan'.steps = Tail(lan.steps) /\ lan'.pc = "link" /\ lan'.links = lan.links
    <3>1. Tail(lan.steps) \in Seq(LanSteps) /\ Tail(lan.steps) # <<>>
      BY <2>3, ReadingSteps
    <3>2. QED
      BY <1>5, <3>1, ContinueIs DEF EndsStep, EthernetTypeOK
  <2>4. CASE lan.steps = Reading1
    <3>1. Tail(lan.steps) = Reading2
      BY <2>4, ReadingSteps
    <3>2. QED
      BY <2>1, <2>2, <2>3, <3>1 DEF LinkI
  <2>5. CASE lan.steps = Reading2
    <3>1. Head(lan.steps) = WriteReg("MII_ADDR", {"STATUS", "BUSY"}) /\ Tail(lan.steps) = Reading3
      BY <2>5, ReadingSteps
    <3>2. chip'.regs["MII_ADDR"] = {"STATUS", "BUSY"}
      BY <2>1, <2>2, <3>1 DEF AfterStep, WriteReg, Step, RegisterFiles, Registers
    <3>3. QED
      BY <2>1, <2>2, <2>3, <3>1, <3>2 DEF LinkI
  <2>6. CASE /\ lan.steps = Reading3
             /\ IF "BUSY" \in chip.regs["MII_ADDR"]
                THEN "STATUS" \in chip.regs["MII_ADDR"] /\ "WRITE" \notin chip.regs["MII_ADDR"]
                ELSE Answered
    <3>1. Head(lan.steps) = PHYNotBusy /\ Tail(lan.steps) = Reading4
      BY <2>6, ReadingSteps
    <3>2. PHYNotBusy.op = "wait" /\ PHYNotBusy.reg = "MII_ADDR" /\ PHYNotBusy.off = {"BUSY"}
      BY DEF PHYNotBusy, WaitReg, Step
    <3>3. "BUSY" \notin chip.regs["MII_ADDR"] /\ chip'.regs = chip.regs
      BY <1>5, <2>2, <3>1, <3>2 DEF EndsStep, AfterStep
    <3>4. Answered'
      BY <2>3, <2>6, <3>1, <3>3 DEF Answered
    <3>5. QED
      BY <2>1, <2>2, <2>3, <3>1, <3>3, <3>4 DEF LinkI
  <2>7. CASE lan.steps = Reading4 /\ "BUSY" \notin chip.regs["MII_ADDR"] /\ Answered
    <3>1. Tail(lan.steps) = <<>>
      BY <2>7, ReadingSteps
    <3>2. lan' = Ends(TRUE)
      BY <1>5, <3>1 DEF EndsStep, Continue
    <3>3. /\ lan'.pc = "idle" /\ lan'.links = lan.links
          /\ lan'.answer = IF "up" \in chip.regs["MII_DATA"] THEN "up" ELSE "down"
      BY <1>5, <2>1, <3>2, EndsIs DEF EthernetTypeOK
    <3>4. lan'.answer \in lan.links
      BY <2>1, <2>7, <3>3 DEF Answered
    <3>5. QED
      BY <3>3, <3>4 DEF LinkI
  <2>8. QED
    BY <1>5, <2>4, <2>5, <2>6, <2>7 DEF LinkI
<1>6. QED
  BY <1>1, <1>2, <1>3, <1>4, <1>5, MessageCases

LEMMA IsLinkUpKeeps ==
  ASSUME EthernetTypeOK, ConfigI, LinkI, IsLinkUp
  PROVE  /\ EthernetTypeOK' /\ ConfigI' /\ LinkI' /\ chip' = chip
         /\ lan'.pc = "link" /\ lan'.named = lan.named /\ lan'.got = lan.got /\ lan'.sent = lan.sent
<1>1. chip' = chip /\ lan.named /\ lan.pc = "idle"
  BY DEF IsLinkUp
<1>2. lan' = [lan EXCEPT !.pc = "link", !.steps = Reading1, !.tries = WaitReads, !.links = {chip.link},
                         !.answer = "none"]
  BY ReadingIsPHYRead DEF IsLinkUp
<1>3. Reading1 \in Seq(LanSteps) /\ WaitReads \in Int /\ {chip.link} \in SUBSET LinkStates
  BY ReadingSteps, EthernetAssumption, ChipFields DEF EthernetTypeOK
<1>4. PICK links \in SUBSET LinkStates : links = {chip.link}
  BY <1>3
<1>5. lan' = [lan EXCEPT !.pc = "link", !.steps = Reading1, !.tries = WaitReads, !.links = links, !.answer = "none"]
  BY <1>2, <1>4
<1>6. /\ lan' \in LanTypes /\ lan'.pc = "link" /\ lan'.steps = Reading1 /\ lan'.links = links
      /\ lan'.named = lan.named /\ lan'.got = lan.got /\ lan'.sent = lan.sent
  BY <1>3, <1>5 DEF EthernetTypeOK, LanTypes
<1>7. ConfigI'
  BY <1>1, <1>6 DEF ConfigI, Working
<1>8. LinkI'
  BY <1>1, <1>4, <1>6 DEF LinkI
<1>9. QED
  BY <1>1, <1>6, <1>7, <1>8 DEF EthernetTypeOK

-----------------------------------------------------------------------------
(* The frames.                                                              *)

LEMMA FramesSame ==
  ASSUME FramesI, lan'.got = lan.got, lan'.sent = lan.sent, chip'.fifo = chip.fifo, chip'.due = chip.due,
         chip'.arrived = chip.arrived, chip'.wire = chip.wire, chip'.kind = chip.kind, chip'.config = chip.config
  PROVE  FramesI'
BY DEF FramesI, Combines

LEMMA AppendIs ==
  ASSUME NEW frames \in Seq(LanFrames), NEW frame \in LanFrames
  PROVE  /\ Append(frames, frame) \in Seq(LanFrames)
         /\ DOMAIN frames = 1 .. Len(frames) /\ Len(frames) \in Nat
         /\ DOMAIN Append(frames, frame) = 1 .. (Len(frames) + 1)
         /\ \A i \in 1 .. Len(frames) : Append(frames, frame)[i] = frames[i]
         /\ Append(frames, frame)[Len(frames) + 1] = frame
<1>1. /\ Append(frames, frame) \in Seq(LanFrames) /\ Len(Append(frames, frame)) = Len(frames) + 1
      /\ \A i \in 1 .. Len(frames) : Append(frames, frame)[i] = frames[i]
      /\ Append(frames, frame)[Len(frames) + 1] = frame
  BY AppendProperties
<1>2. /\ DOMAIN frames = 1 .. Len(frames) /\ Len(frames) \in Nat
      /\ DOMAIN Append(frames, frame) = 1 .. Len(Append(frames, frame))
  BY <1>1, LenProperties
<1>3. QED
  BY <1>1, <1>2

LEMMA AppendRises ==
  ASSUME NEW frames \in Seq(LanFrames), NEW frame \in LanFrames, Rising(frames),
         \A i \in DOMAIN frames : frames[i].id < frame.id
  PROVE  Rising(Append(frames, frame))
<1> DEFINE new == Append(frames, frame)
<1>1. /\ DOMAIN frames = 1 .. Len(frames) /\ Len(frames) \in Nat
      /\ DOMAIN new = 1 .. (Len(frames) + 1)
      /\ \A i \in 1 .. Len(frames) : new[i] = frames[i]
      /\ new[Len(frames) + 1] = frame
  BY AppendIs
<1> HIDE DEF new
<1>2. ASSUME NEW i \in DOMAIN new, NEW j \in DOMAIN new, i < j
      PROVE  new[i].id < new[j].id
  <2>1. i \in 1 .. Len(frames) /\ (j \in 1 .. Len(frames) \/ j = Len(frames) + 1)
    BY <1>1, <1>2
  <2>2. CASE j \in 1 .. Len(frames)
    BY <1>1, <1>2, <2>1, <2>2 DEF Rising
  <2>3. CASE j = Len(frames) + 1
    BY <1>1, <2>1, <2>3
  <2>4. QED
    BY <2>1, <2>2, <2>3
<1>3. QED
  BY <1>2 DEF Rising, new

LEMMA TailIs ==
  ASSUME NEW frames \in Seq(LanFrames), frames # <<>>
  PROVE  /\ Head(frames) \in LanFrames /\ Tail(frames) \in Seq(LanFrames)
         /\ 1 \in DOMAIN frames /\ frames[1] = Head(frames)
         /\ \A i \in DOMAIN Tail(frames) : i \in Nat \ {0} /\ i + 1 \in DOMAIN frames /\ Tail(frames)[i] = frames[i + 1]
         /\ \A i \in DOMAIN frames : i = 1 \/ (i - 1 \in DOMAIN Tail(frames) /\ Tail(frames)[i - 1] = frames[i])
<1> DEFINE t == Tail(frames)
<1>1. /\ Head(frames) \in LanFrames /\ t \in Seq(LanFrames) /\ Len(t) = Len(frames) - 1
      /\ \A i \in 1 .. Len(t) : t[i] = frames[i + 1]
  BY HeadTailProperties
<1>2. Len(frames) \in Nat \ {0} /\ DOMAIN frames = 1 .. Len(frames) /\ frames[1] = Head(frames)
  BY EmptySeq, LenProperties
<1>3. DOMAIN t = 1 .. (Len(frames) - 1)
  BY <1>1, LenProperties
<1> HIDE DEF t
<1>4. 1 \in DOMAIN frames
  BY <1>2
<1>5. \A i \in DOMAIN t : i \in Nat \ {0} /\ i + 1 \in DOMAIN frames /\ t[i] = frames[i + 1]
  BY <1>1, <1>2, <1>3
<1>6. ASSUME NEW i \in DOMAIN frames, i # 1
      PROVE  i - 1 \in DOMAIN t /\ t[i - 1] = frames[i]
  <2>1. i - 1 \in 1 .. (Len(frames) - 1) /\ i - 1 + 1 = i
    BY <1>2, <1>6
  <2>2. QED
    BY <1>1, <1>3, <2>1
<1>7. QED
  BY <1>1, <1>2, <1>4, <1>5, <1>6 DEF t

LEMMA TailRises ==
  ASSUME NEW frames \in Seq(LanFrames), frames # <<>>, Rising(frames)
  PROVE  /\ Rising(Tail(frames))
         /\ \A i \in DOMAIN Tail(frames) : Head(frames).id < Tail(frames)[i].id
<1> DEFINE t == Tail(frames)
<1>1. /\ 1 \in DOMAIN frames /\ frames[1] = Head(frames)
      /\ \A i \in DOMAIN t : i \in Nat \ {0} /\ i + 1 \in DOMAIN frames /\ t[i] = frames[i + 1]
  BY TailIs
<1> HIDE DEF t
<1>2. ASSUME NEW i \in DOMAIN t, NEW j \in DOMAIN t, i < j
      PROVE  t[i].id < t[j].id
  <2>1. i + 1 < j + 1
    BY <1>1, <1>2
  <2>2. QED
    BY <1>1, <2>1 DEF Rising
<1>3. ASSUME NEW i \in DOMAIN t
      PROVE  Head(frames).id < t[i].id
  <2>1. 1 < i + 1
    BY <1>1
  <2>2. QED
    BY <1>1, <2>1 DEF Rising
<1>4. QED
  BY <1>2, <1>3 DEF Rising, t

-----------------------------------------------------------------------------
(* An adapter that has its name receives and transmits.  It brings one frame *)
(* in a transfer and never lets one wait, unless an SMSC951x started so.     *)

LEMMA NamedWorks ==
  ASSUME EthernetTypeOK, ConfigI, lan.named
  PROVE  Transmits /\ \A frame \in LanFrames : frame.to \in {"own", "all"} => Receives(frame)
<1>1. /\ \A reg \in Registers : Right(chip.kind, reg, chip.regs[reg])
      /\ "READY" \in chip.regs["PMT_CTL"] /\ chip.kind \in {"lan7800", "smsc951x"}
  BY ChipFields DEF ConfigI, Working, EthernetTypeOK
<1>2. \A reg \in Registers : Wanted(chip.kind, reg) \subseteq chip.regs[reg]
  BY <1>1 DEF Right
<1>4. CASE chip.kind = "lan7800"
  <2>1. /\ {"own", "VALID"} \subseteq chip.regs["MAF"] /\ {"BCAST_EN", "DA_PERFECT"} \subseteq chip.regs["RFE_CTL"]
        /\ {"TXEN"} \subseteq chip.regs["MAC_TX"] /\ {"EN"} \subseteq chip.regs["FCT_TX_CTL"]
        /\ {"RXEN", "1518"} \subseteq chip.regs["MAC_RX"] /\ {"EN"} \subseteq chip.regs["FCT_RX_CTL"]
    <3>1. {"MAF", "RFE_CTL", "MAC_TX", "FCT_TX_CTL", "MAC_RX", "FCT_RX_CTL"} \subseteq Registers
      BY DEF Registers
    <3>2. /\ Wanted(chip.kind, "MAF") = {"own", "VALID"} /\ Wanted(chip.kind, "RFE_CTL") = {"BCAST_EN", "DA_PERFECT"}
          /\ Wanted(chip.kind, "MAC_TX") = {"TXEN"} /\ Wanted(chip.kind, "FCT_TX_CTL") = {"EN"}
          /\ Wanted(chip.kind, "MAC_RX") = {"RXEN", "1518"} /\ Wanted(chip.kind, "FCT_RX_CTL") = {"EN"}
      BY <1>4 DEF Wanted
    <3>3. QED
      BY <1>2, <3>1, <3>2
  <2>2. QED
    BY <1>1, <1>4, <2>1 DEF Transmits, Receives, On
<1>5. CASE chip.kind = "smsc951x"
  <2>1. /\ {"own"} \subseteq chip.regs["ADDR"] /\ {"TXEN", "RXEN"} \subseteq chip.regs["MAC_CR"]
        /\ {"ON"} \subseteq chip.regs["TX_CFG"]
    <3>1. {"ADDR", "MAC_CR", "TX_CFG"} \subseteq Registers
      BY DEF Registers
    <3>2. /\ Wanted(chip.kind, "ADDR") = {"own"} /\ Wanted(chip.kind, "MAC_CR") = {"TXEN", "RXEN"}
          /\ Wanted(chip.kind, "TX_CFG") = {"ON"}
      BY <1>5 DEF Wanted
    <3>3. QED
      BY <1>2, <3>1, <3>2
  <2>2. QED
    BY <1>5, <2>1 DEF Transmits, Receives, On
<1>6. QED
  BY <1>1, <1>4, <1>5

LEMMA NamedTransfers ==
  ASSUME EthernetTypeOK, ConfigI, StartI, lan.named
  PROVE  /\ Transfer = IF Combines THEN chip.fifo ELSE <<Head(chip.fifo)>>
         /\ WaitsForFrame => MakesWait
<1>1. /\ Right(chip.kind, "HW_CFG", chip.regs["HW_CFG"]) /\ Right(chip.kind, "USB_CFG0", chip.regs["USB_CFG0"])
      /\ chip.kind \in {"lan7800", "smsc951x"}
  BY ChipFields DEF ConfigI, Working, EthernetTypeOK, Registers
<1>2. CASE chip.kind = "lan7800"
  <2>1. "MEF" \notin chip.regs["HW_CFG"] /\ "BIR" \notin chip.regs["USB_CFG0"]
    BY <1>1, <1>2 DEF Right, Unwanted
  <2>2. QED
    BY <1>2, <2>1 DEF Transfer, WaitsForFrame, Combines, On
<1>3. CASE chip.kind = "smsc951x"
  BY <1>3 DEF StartI, Transfer, WaitsForFrame, Combines, MakesWait, On
<1>4. QED
  BY <1>1, <1>2, <1>3

-----------------------------------------------------------------------------
(* Frames arrive, are sent and are received.                                *)

LEMMA ArriveKeeps ==
  ASSUME EthernetTypeOK, ConfigI, LinkI, StartI, FramesI,
         NEW to \in {"own", "all", "other"}, NEW good \in BOOLEAN, Arrive(to, good)
  PROVE  EthernetTypeOK' /\ ConfigI' /\ LinkI' /\ StartI' /\ FramesI'
<1> DEFINE new == [to |-> to, good |-> good, id |-> chip.arrived]
           wanted == lan.named /\ to \in {"own", "all"}
           fifo == IF Receives(new) THEN Append(chip.fifo, new) ELSE chip.fifo
           due == IF wanted /\ good THEN chip.due \cup {new} ELSE chip.due
<1>1. /\ chip.kind \in {"lan7800", "smsc951x"} /\ chip.fifo \in Seq(LanFrames) /\ chip.due \in SUBSET LanFrames
      /\ chip.arrived \in Nat
  BY ChipFields DEF EthernetTypeOK
<1>2. /\ new \in LanFrames /\ new.to = to /\ new.good = good /\ new.id = chip.arrived
  BY <1>1 DEF LanFrames
<1>3. chip' = [chip EXCEPT !.arrived = chip.arrived + 1, !.fifo = fifo, !.due = due] /\ lan' = lan
  BY DEF Arrive
<1>4. Receives(new) => to # "other"
  BY <1>2 DEF Receives
<1>5. wanted => Receives(new)
  BY <1>2, NamedWorks
<1>6. /\ Append(chip.fifo, new) \in Seq(LanFrames)
      /\ DOMAIN chip.fifo = 1 .. Len(chip.fifo) /\ Len(chip.fifo) \in Nat
      /\ DOMAIN Append(chip.fifo, new) = 1 .. (Len(chip.fifo) + 1)
      /\ \A i \in 1 .. Len(chip.fifo) : Append(chip.fifo, new)[i] = chip.fifo[i]
      /\ Append(chip.fifo, new)[Len(chip.fifo) + 1] = new
  BY <1>1, <1>2, AppendIs
<1>7. Rising(Append(chip.fifo, new))
  BY <1>1, <1>2, AppendRises DEF FramesI
<1> HIDE DEF new
<1>8. /\ fifo \in Seq(LanFrames) /\ Rising(fifo)
      /\ \A i \in DOMAIN fifo : (i \in DOMAIN chip.fifo /\ fifo[i] = chip.fifo[i]) \/ (fifo[i] = new /\ Receives(new))
      /\ \A i \in DOMAIN chip.fifo : i \in DOMAIN fifo /\ fifo[i] = chip.fifo[i]
      /\ Receives(new) => Among(new, fifo)
  <2>1. CASE Receives(new)
    <3>1. fifo = Append(chip.fifo, new)
      BY <2>1
    <3> HIDE DEF fifo
    <3>2. \A i \in DOMAIN fifo : (i \in DOMAIN chip.fifo /\ fifo[i] = chip.fifo[i]) \/ (fifo[i] = new /\ Receives(new))
      BY <1>6, <2>1, <3>1
    <3>3. \A i \in DOMAIN chip.fifo : i \in DOMAIN fifo /\ fifo[i] = chip.fifo[i]
      BY <1>6, <3>1
    <3>4. Among(new, fifo)
      <4>1. Len(chip.fifo) + 1 \in DOMAIN fifo
        BY <1>6, <3>1
      <4>2. QED
        BY <1>6, <3>1, <4>1 DEF Among
    <3>5. QED
      BY <1>6, <1>7, <3>1, <3>2, <3>3, <3>4
  <2>2. CASE ~Receives(new)
    BY <1>1, <2>2 DEF FramesI
  <2>3. QED
    BY <2>1, <2>2
<1>9. due \in SUBSET LanFrames /\ \A frame \in due : frame \in chip.due \/ (frame = new /\ wanted /\ good)
  BY <1>1, <1>2
<1> HIDE DEF fifo, due, wanted
<1>10. PICK arrived \in Nat : arrived = chip.arrived + 1
  BY <1>1
<1>11. chip' = [chip EXCEPT !.arrived = arrived, !.fifo = fifo, !.due = due]
  BY <1>3, <1>10
<1>12. /\ chip' \in ChipTypes /\ chip'.kind = chip.kind /\ chip'.config = chip.config
       /\ chip'.regs = chip.regs /\ chip'.link = chip.link
       /\ chip'.arrived = arrived /\ chip'.fifo = fifo /\ chip'.due = due /\ chip'.wire = chip.wire
  BY <1>8, <1>9, <1>11 DEF EthernetTypeOK, ChipTypes
<1>13. ConfigI'
  BY <1>3, <1>12, OthersKeep DEF ConfigI
<1>14. LinkI'
  BY <1>3, <1>12 DEF LinkI, Answered
<1>15. FramesI'
  <2>1. /\ lan.got \in Seq(LanFrames) /\ \A i \in DOMAIN lan.got : lan.got[i].id \in Nat
    <3>1. lan.got \in Seq(LanFrames)
      BY LanFields DEF EthernetTypeOK
    <3>2. \A i \in DOMAIN lan.got : lan.got[i] \in LanFrames
      BY <3>1, ElementOfSeq, LenProperties
    <3>3. QED
      BY <3>1, <3>2 DEF LanFrames
  <2>2. \A i \in DOMAIN chip.fifo : chip.fifo[i].id \in Nat
    <3>1. \A i \in DOMAIN chip.fifo : chip.fifo[i] \in LanFrames
      BY <1>1, ElementOfSeq, LenProperties
    <3>2. QED
      BY <3>1 DEF LanFrames
  <2>3. \A i \in DOMAIN lan.got, j \in DOMAIN fifo : lan.got[i].id < fifo[j].id
    BY <1>2, <1>8 DEF FramesI
  <2>4. \A i \in DOMAIN lan.got : lan.got[i].id < arrived /\ lan.got[i].good /\ lan.got[i].to # "other"
    BY <1>1, <1>10, <2>1 DEF FramesI
  <2>5. \A i \in DOMAIN fifo : fifo[i].id < arrived /\ fifo[i].to # "other"
    <3>1. \A i \in DOMAIN chip.fifo : chip.fifo[i].id < arrived /\ chip.fifo[i].to # "other"
      BY <1>1, <1>10, <2>2 DEF FramesI
    <3>2. new.id < arrived
      BY <1>1, <1>2, <1>10
    <3>3. Receives(new) => new.to # "other"
      BY <1>2, <1>4
    <3>4. QED
      BY <1>8, <3>1, <3>2, <3>3
  <2>6. \A frame \in due : frame.good /\ (Combines \/ Among(frame, lan.got) \/ Among(frame, fifo))
    <3>1. ASSUME NEW frame \in chip.due
          PROVE  frame.good /\ (Combines \/ Among(frame, lan.got) \/ Among(frame, fifo))
      BY <1>8 DEF FramesI, Among
    <3>2. wanted /\ good => new.good /\ Among(new, fifo)
      BY <1>2, <1>5, <1>8
    <3>3. QED
      BY <1>9, <3>1, <3>2
  <2>7. Rising(lan.got) /\ chip.wire = lan.sent
    BY DEF FramesI
  <2>8. QED
    BY <1>3, <1>8, <1>12, <2>3, <2>4, <2>5, <2>6, <2>7 DEF FramesI, Combines
<1>16. StartI'
  BY <1>3, <1>12, StartSame
<1>17. QED
  BY <1>3, <1>12, <1>13, <1>14, <1>15, <1>16 DEF EthernetTypeOK

LEMMA SendFrameKeeps ==
  ASSUME EthernetTypeOK, ConfigI, LinkI, StartI, FramesI, NEW length \in Lengths, SendFrame(length)
  PROVE  EthernetTypeOK' /\ ConfigI' /\ LinkI' /\ StartI' /\ FramesI'
<1>1. length \in Nat
  BY EthernetAssumption
<1>2. LengthSent(length) = length
  <2>1. length < 1593
    BY <1>1 DEF SendFrame, TooLong, FRAME_BUFFER_SIZE, TX_HEADER_SIZE
  <2>2. length % 1048576 = length /\ length % 2048 = length
    BY <1>1, <2>1
  <2>3. QED
    BY <2>2 DEF LengthSent
<1>3. Transmits
  BY NamedWorks DEF SendFrame
<1>4. PICK sent \in Seq(Nat) : sent = Append(lan.sent, length)
  <2>1. lan.sent \in Seq(Nat)
    BY LanFields DEF EthernetTypeOK
  <2>2. QED
    BY <1>1, <2>1, AppendProperties
<1>5. chip.wire = lan.sent
  BY DEF FramesI
<1>6. lan' = [lan EXCEPT !.sent = sent] /\ chip' = [chip EXCEPT !.wire = sent]
  BY <1>2, <1>3, <1>4, <1>5 DEF SendFrame
<1>7. /\ lan' \in LanTypes /\ lan'.sent = sent /\ lan'.pc = lan.pc /\ lan'.steps = lan.steps
      /\ lan'.named = lan.named /\ lan'.got = lan.got /\ lan'.links = lan.links /\ lan'.answer = lan.answer
  BY <1>6 DEF EthernetTypeOK, LanTypes
<1>8. /\ chip' \in ChipTypes /\ chip'.kind = chip.kind /\ chip'.config = chip.config
      /\ chip'.regs = chip.regs /\ chip'.link = chip.link
      /\ chip'.arrived = chip.arrived /\ chip'.fifo = chip.fifo /\ chip'.due = chip.due /\ chip'.wire = sent
  BY <1>6 DEF EthernetTypeOK, ChipTypes
<1>9. ConfigI'
  BY <1>7, <1>8, OthersKeep DEF ConfigI
<1>10. LinkI'
  BY <1>7, <1>8 DEF LinkI, Answered
<1>11. FramesI'
  BY <1>7, <1>8 DEF FramesI, Combines
<1>12. StartI'
  BY <1>7, <1>8, StartSame
<1>13. QED
  BY <1>7, <1>8, <1>9, <1>10, <1>11, <1>12 DEF EthernetTypeOK

LEMMA ReceiveFrameKeeps ==
  ASSUME EthernetTypeOK, ConfigI, LinkI, StartI, FramesI, NEW transferred \in BOOLEAN, ReceiveFrame(transferred)
  PROVE  EthernetTypeOK' /\ ConfigI' /\ LinkI' /\ StartI' /\ FramesI'
<1>1. /\ Transfer = IF Combines THEN chip.fifo ELSE <<Head(chip.fifo)>>
      /\ WaitsForFrame => MakesWait
      /\ lan.pc \in {"idle", "waits"} /\ lan.named
  BY NamedTransfers DEF ReceiveFrame
<1>2. CASE chip.fifo = <<>>
  <2>1. PICK pc \in {"idle", "waits"} : pc = IF WaitsForFrame THEN "waits" ELSE "idle"
    OBVIOUS
  <2>2. lan' = [lan EXCEPT !.pc = pc] /\ chip' = chip
    BY <1>2, <2>1 DEF ReceiveFrame
  <2>3. /\ lan' \in LanTypes /\ lan'.got = lan.got /\ lan'.pc = pc /\ lan'.steps = lan.steps
        /\ lan'.named = lan.named /\ lan'.sent = lan.sent /\ lan'.links = lan.links /\ lan'.answer = lan.answer
    BY <2>2 DEF EthernetTypeOK, LanTypes
  <2>4. ConfigI' /\ LinkI' /\ FramesI'
    BY <1>1, <2>2, <2>3 DEF ConfigI, Working, LinkI, FramesI, Combines
  <2>5. StartI'
    BY <1>1, <2>1, <2>2, <2>3 DEF StartI, MakesWait
  <2>6. QED
    BY <2>2, <2>3, <2>4, <2>5 DEF EthernetTypeOK
<1>3. CASE chip.fifo # <<>>
  <2> DEFINE head == Head(chip.fifo)
             tail == Tail(chip.fifo)
             rest == IF Combines THEN <<>> ELSE tail
             got == IF transferred /\ head.good THEN Append(lan.got, head) ELSE lan.got
             pc == IF transferred /\ head.good /\ Len(Transfer) # 1 THEN "asserts" ELSE "idle"
             due == IF transferred THEN chip.due ELSE chip.due \ ToSet(Transfer)
  <2>1. chip.fifo \in Seq(LanFrames) /\ chip.due \in SUBSET LanFrames /\ lan.got \in Seq(LanFrames)
    BY ChipFields, LanFields DEF EthernetTypeOK
  <2>2. /\ head \in LanFrames /\ tail \in Seq(LanFrames)
        /\ 1 \in DOMAIN chip.fifo /\ chip.fifo[1] = head
        /\ \A i \in DOMAIN tail : i \in Nat \ {0} /\ i + 1 \in DOMAIN chip.fifo /\ tail[i] = chip.fifo[i + 1]
        /\ \A i \in DOMAIN chip.fifo : i = 1 \/ (i - 1 \in DOMAIN tail /\ tail[i - 1] = chip.fifo[i])
    BY <1>3, <2>1, TailIs
  <2>3. /\ rest \in Seq(LanFrames) /\ Rising(rest) /\ \A i \in DOMAIN rest : head.id < rest[i].id
        /\ \A i \in DOMAIN rest : i + 1 \in DOMAIN chip.fifo /\ rest[i] = chip.fifo[i + 1]
        /\ ~Combines => \A i \in DOMAIN chip.fifo : i = 1 \/ (i - 1 \in DOMAIN rest /\ rest[i - 1] = chip.fifo[i])
    <3>1. CASE Combines
      <4>1. rest = <<>> /\ DOMAIN <<>> = {} /\ <<>> \in Seq(LanFrames)
        BY <3>1
      <4>2. QED
        BY <3>1, <4>1 DEF Rising
    <3>2. CASE ~Combines
      <4>1. rest = tail
        BY <3>2
      <4>2. Rising(tail) /\ \A i \in DOMAIN tail : head.id < tail[i].id
        BY <1>3, <2>1, TailRises DEF FramesI
      <4> HIDE DEF head, tail, rest
      <4>3. QED
        BY <2>2, <4>1, <4>2
    <3>3. QED
      BY <3>1, <3>2
  <2>4. Head(Transfer) = head /\ SubSeq(chip.fifo, Len(Transfer) + 1, Len(chip.fifo)) = rest
    <3>1. CASE Combines
      <4>1. Transfer = chip.fifo /\ Len(chip.fifo) \in Nat
        BY <1>1, <2>1, <3>1
      <4>2. SubSeq(chip.fifo, Len(chip.fifo) + 1, Len(chip.fifo)) = <<>>
        BY <2>1, <4>1
      <4>3. QED
        BY <3>1, <4>1, <4>2
    <3>2. CASE ~Combines
      <4>1. Transfer = <<head>> /\ Len(Transfer) + 1 = 2
        BY <1>1, <3>2
      <4>2. SubSeq(chip.fifo, 2, Len(chip.fifo)) = tail
        BY <1>3, <2>1, TailIsSubSeq
      <4>3. QED
        BY <3>2, <4>1, <4>2
    <3>3. QED
      BY <3>1, <3>2
  <2>5. ~Combines => pc = "idle" /\ ToSet(Transfer) = {head}
    BY <1>1 DEF ToSet
  <2>6. lan' = [lan EXCEPT !.pc = pc, !.got = got]
    <3>1. transferred => lan' = Accepted(Transfer)
      BY <1>3 DEF ReceiveFrame
    <3>2. ~transferred => lan' = [lan EXCEPT !.pc = "idle"]
      BY <1>3 DEF ReceiveFrame
    <3>3. [lan EXCEPT !.pc = "idle"] = [lan EXCEPT !.pc = "idle", !.got = lan.got]
      BY DEF EthernetTypeOK, LanTypes
    <3>4. CASE transferred /\ head.good
      BY <2>4, <3>1, <3>4 DEF Accepted
    <3>5. CASE transferred /\ ~head.good
      BY <2>4, <3>1, <3>3, <3>5 DEF Accepted
    <3>6. CASE ~transferred
      BY <3>2, <3>3, <3>6
    <3>7. QED
      BY <3>4, <3>5, <3>6
  <2>7. chip' = [chip EXCEPT !.fifo = rest, !.due = due]
    BY <1>3, <2>4 DEF ReceiveFrame
  <2>8. /\ got \in Seq(LanFrames)
        /\ \A i \in DOMAIN got : (i \in DOMAIN lan.got /\ got[i] = lan.got[i]) \/ (got[i] = head /\ head.good)
        /\ \A i \in DOMAIN lan.got : i \in DOMAIN got /\ got[i] = lan.got[i]
        /\ transferred /\ head.good => Among(head, got)
        /\ Rising(got)
    <3>1. CASE transferred /\ head.good
      <4>1. got = Append(lan.got, head)
        BY <3>1
      <4>2. /\ Append(lan.got, head) \in Seq(LanFrames)
            /\ DOMAIN lan.got = 1 .. Len(lan.got) /\ Len(lan.got) \in Nat
            /\ DOMAIN Append(lan.got, head) = 1 .. (Len(lan.got) + 1)
            /\ \A i \in 1 .. Len(lan.got) : Append(lan.got, head)[i] = lan.got[i]
            /\ Append(lan.got, head)[Len(lan.got) + 1] = head
        BY <2>1, <2>2, AppendIs
      <4>3. \A i \in DOMAIN lan.got : lan.got[i].id < head.id
        BY <2>2 DEF FramesI
      <4>4. Rising(Append(lan.got, head))
        BY <2>1, <2>2, <4>3, AppendRises DEF FramesI
      <4> HIDE DEF head, got
      <4>5. \A i \in DOMAIN got : (i \in DOMAIN lan.got /\ got[i] = lan.got[i]) \/ (got[i] = head /\ head.good)
        BY <3>1, <4>1, <4>2
      <4>6. \A i \in DOMAIN lan.got : i \in DOMAIN got /\ got[i] = lan.got[i]
        BY <4>1, <4>2
      <4>7. Among(head, got)
        <5>1. Len(lan.got) + 1 \in DOMAIN got
          BY <4>1, <4>2
        <5>2. QED
          BY <4>1, <4>2, <5>1 DEF Among
      <4>8. QED
        BY <4>1, <4>2, <4>4, <4>5, <4>6, <4>7
    <3>2. CASE ~(transferred /\ head.good)
      BY <2>1, <3>2 DEF FramesI
    <3>3. QED
      BY <3>1, <3>2
  <2>9. /\ due \in SUBSET LanFrames /\ due \subseteq chip.due /\ (~Combines /\ head \in due => transferred)
        /\ pc \in {"idle", "asserts"}
    BY <2>1, <2>5
  <2> HIDE DEF head, tail, rest, got, due, pc
  <2>10. /\ lan' \in LanTypes /\ lan'.got = got /\ lan'.pc = pc /\ lan'.steps = lan.steps
         /\ lan'.named = lan.named /\ lan'.sent = lan.sent /\ lan'.links = lan.links /\ lan'.answer = lan.answer
    BY <2>6, <2>8, <2>9 DEF EthernetTypeOK, LanTypes
  <2>11. /\ chip' \in ChipTypes /\ chip'.kind = chip.kind /\ chip'.regs = chip.regs /\ chip'.config = chip.config
         /\ chip'.arrived = chip.arrived /\ chip'.fifo = rest /\ chip'.due = due /\ chip'.wire = chip.wire
    BY <2>3, <2>7, <2>9 DEF EthernetTypeOK, ChipTypes
  <2>12. ConfigI'
    BY <1>1, <2>9, <2>10, <2>11 DEF ConfigI, Working
  <2>13. LinkI' /\ StartI'
    BY <1>1, <2>5, <2>9, <2>10, <2>11 DEF LinkI, StartI, MakesWait, Combines
  <2>14. FramesI'
    <3>1. \A i \in DOMAIN got, j \in DOMAIN rest : got[i].id < rest[j].id
      BY <2>2, <2>3, <2>8 DEF FramesI
    <3>2. \A i \in DOMAIN got : got[i].id < chip.arrived /\ got[i].good /\ got[i].to # "other"
      BY <2>2, <2>8 DEF FramesI
    <3>3. \A i \in DOMAIN rest : rest[i].id < chip.arrived /\ rest[i].to # "other"
      BY <2>3 DEF FramesI
    <3>4. ASSUME NEW frame \in due
          PROVE  frame.good /\ (Combines \/ Among(frame, got) \/ Among(frame, rest))
      <4>1. frame.good /\ (Combines \/ Among(frame, lan.got) \/ Among(frame, chip.fifo))
        BY <2>9, <3>4 DEF FramesI
      <4>2. CASE Among(frame, lan.got)
        BY <2>8, <4>1, <4>2 DEF Among
      <4>3. CASE ~Combines /\ Among(frame, chip.fifo)
        <5>1. PICK i \in DOMAIN chip.fifo : chip.fifo[i] = frame
          BY <4>3 DEF Among
        <5>2. CASE i = 1
          <6>1. frame = head /\ transferred /\ head.good
            BY <2>2, <2>9, <3>4, <4>1, <4>3, <5>1, <5>2
          <6>2. QED
            BY <2>8, <4>1, <6>1
        <5>3. CASE i # 1
          BY <2>3, <4>1, <4>3, <5>1, <5>3 DEF Among
        <5>4. QED
          BY <5>2, <5>3
      <4>4. QED
        BY <4>1, <4>2, <4>3
    <3>5. chip.wire = lan.sent
      BY DEF FramesI
    <3>6. QED
      BY <2>3, <2>8, <2>10, <2>11, <3>1, <3>2, <3>3, <3>4, <3>5 DEF FramesI, Combines
  <2>15. QED
    BY <2>10, <2>11, <2>12, <2>13, <2>14 DEF EthernetTypeOK
<1>4. QED
  BY <1>2, <1>3

-----------------------------------------------------------------------------
(* The invariant.                                                           *)

LEMMA EthernetStarts == EthernetInit => EthernetI
<1> SUFFICES ASSUME EthernetInit
             PROVE  EthernetI
  OBVIOUS
<1>1. PICK kind \in {"lan7800", "smsc951x"}, config \in SUBSET {"MEF", "BIR"} :
        lan = NewLan(kind) /\ chip = NewChip(kind, config)
  BY DEF EthernetInit
<1>2. /\ chip.kind = kind /\ chip.config = config /\ chip.regs = PowerUp(kind, config) /\ chip.fifo = <<>> /\ chip.due = {} /\ chip.wire = <<>>
      /\ chip.arrived = 0
  BY <1>1 DEF NewChip
<1>3. /\ lan.pc = "configure" /\ lan.named = FALSE /\ lan.got = <<>> /\ lan.sent = <<>> /\ lan.links = {}
      /\ lan.answer = "none"
      /\ lan.steps = IF kind = "lan7800" THEN StartLAN7800 ELSE StartSMSC951x
  BY <1>1 DEF NewLan
<1>4. StartLAN7800 = Before(ReadReg("ID_REV"), AskForReset)
  BY StartOfLAN7800 DEF Before, AskForReset, WaitForReset
<1>5. StartLAN7800 \in Seq(LanSteps) /\ StartSMSC951x \in Seq(LanSteps)
  BY <1>4, ResettingSteps, SMSCSteps, LawfulSteps
<1>6. EthernetTypeOK
  <2>1. /\ <<>> \in Seq(LanFrames) /\ <<>> \in Seq(Nat) /\ {} \in SUBSET LanFrames /\ {} \in SUBSET LinkStates
        /\ WaitReads \in Int
    BY EthernetAssumption
  <2>2. lan \in LanTypes
    <3>1. PICK steps \in Seq(LanSteps) : steps = IF kind = "lan7800" THEN StartLAN7800 ELSE StartSMSC951x
      BY <1>5
    <3>2. lan = [pc |-> "configure", steps |-> steps, tries |-> WaitReads, named |-> FALSE, got |-> <<>>,
                 sent |-> <<>>, links |-> {}, answer |-> "none"]
      BY <1>1, <3>1 DEF NewLan
    <3>3. QED
      BY <2>1, <3>2 DEF LanTypes
  <2>3. chip \in ChipTypes
    <3>1. PowerUp(kind, config) \in RegisterFiles
      BY PowerUpIs
    <3>2. QED
      BY <1>1, <2>1, <3>1 DEF NewChip, ChipTypes, LinkStates
  <2>4. QED
    BY <2>2, <2>3 DEF EthernetTypeOK
<1>7. ConfigI
  <2>1. "READY" \in chip.regs["PMT_CTL"]
    BY <1>2, PowerUpIs
  <2>2. Settled \/ Resetting
    <3>1. CASE kind = "lan7800"
      BY <1>2, <1>3, <1>4, <3>1 DEF Resetting
    <3>2. CASE kind = "smsc951x"
      <4>1. "LRST" \notin chip.regs["HW_CFG"]
        BY <1>2, PowerUpIs
      <4>2. Covered("smsc951x", StartSMSC951x, chip.regs)
        BY SMSCCovers
      <4>3. QED
        BY <1>2, <1>3, <3>2, <4>1, <4>2, SMSCSteps DEF Settled
    <3>3. QED
      BY <3>1, <3>2
  <2>3. QED
    BY <1>3, <2>1, <2>2 DEF ConfigI
<1>8. LinkI
  BY <1>3 DEF LinkI
<1>9. FramesI
  <2>1. DOMAIN <<>> = {}
    OBVIOUS
  <2>2. QED
    BY <1>2, <1>3, <2>1 DEF FramesI, Rising
<1>10. StartI
  BY <1>2, <1>3, PowerUpIs DEF StartI
<1>11. QED
  BY <1>6, <1>7, <1>8, <1>9, <1>10 DEF EthernetI

LEMMA MessagesStart ==
  ASSUME EthernetTypeOK, ConfigI, LinkI, StartI, MessageFails \/ Write \/ Update \/ Wait \/ Read
  PROVE  StartI'
<1>1. CASE GivesUp
  <2>1. lan'.pc \in {"failed", "idle"} /\ chip' = chip
    BY <1>1, EndsIs DEF GivesUp, EthernetTypeOK
  <2>2. QED
    BY <2>1, StartSame
<1>2. CASE TriesAgain
  BY <1>2, TriesAgainIs, StartSame DEF TriesAgain
<1>3. CASE ReadsFirst
  BY <1>3, ReadsFirstIs, StartSame DEF ReadsFirst
<1>4. CASE EndsStep
  <2>1. /\ lan.pc \in {"configure", "link"} /\ lan.steps # <<>> /\ Tail(lan.steps) \in Seq(LanSteps)
        /\ Head(lan.steps) \in LanSteps /\ chip.regs \in RegisterFiles
    BY <1>4, StepToCome, ChipFields DEF EndsStep, ConfigI, EthernetTypeOK, LanTypes
  <2>2. /\ chip'.regs = AfterStep(chip.regs, Head(lan.steps)) /\ chip'.kind = chip.kind
        /\ chip'.config = chip.config
    BY <1>4, EndsStepChip
  <2>3. lan'.pc \notin {"waits", "asserts"}
    <3>1. CASE Tail(lan.steps) = <<>>
      BY <1>4, <2>1, <3>1, EndsIs DEF EndsStep, Continue, EthernetTypeOK
    <3>2. CASE Tail(lan.steps) # <<>>
      BY <1>4, <2>1, <3>2, ContinueIs DEF EndsStep, EthernetTypeOK
    <3>3. QED
      BY <3>1, <3>2
  <2>4. chip.kind = "smsc951x" => chip'.regs["HW_CFG"] = chip.regs["HW_CFG"]
    <3>1. CASE lan.pc = "link"
      BY <2>1, <2>2, <3>1, LinkHead DEF AfterStep, RegisterFiles, Registers
    <3>2. CASE lan.pc = "configure" /\ chip.kind = "smsc951x"
      <4>1. Head(lan.steps) \in Lawful(chip.kind)
        BY <2>1, <3>2, HeadTailProperties DEF ConfigI, Settled, Resetting
      <4>2. QED
        BY <2>1, <2>2, <3>2, <4>1, StepKeeps
    <3>3. QED
      BY <2>1, <3>1, <3>2
  <2>5. QED
    BY <2>2, <2>3, <2>4, StartSame
<1>5. QED
  BY <1>1, <1>2, <1>3, <1>4, MessageCases

LEMMA MessagesFrames ==
  ASSUME EthernetTypeOK, ConfigI, FramesI, MessageFails \/ Write \/ Update \/ Wait \/ Read
  PROVE  FramesI'
<1>1. CASE GivesUp
  <2>1. lan'.got = lan.got /\ lan'.sent = lan.sent
    BY <1>1, EndsIs DEF GivesUp, EthernetTypeOK
  <2>2. QED
    BY <1>1, <2>1, FramesSame DEF GivesUp
<1>2. CASE TriesAgain
  BY <1>2, TriesAgainIs, FramesSame DEF TriesAgain
<1>3. CASE ReadsFirst
  BY <1>3, ReadsFirstIs, FramesSame DEF ReadsFirst
<1>4. CASE EndsStep
  <2>1. lan'.got = lan.got /\ lan'.sent = lan.sent
    <3>1. lan.steps # <<>> /\ Tail(lan.steps) \in Seq(LanSteps)
      BY <1>4, StepToCome DEF EndsStep
    <3>2. CASE Tail(lan.steps) = <<>>
      <4>1. lan' = Ends(TRUE)
        BY <1>4, <3>2 DEF EndsStep, Continue
      <4>2. QED
        BY <3>1, <4>1, EndsIs DEF EthernetTypeOK
    <3>3. CASE Tail(lan.steps) # <<>>
      BY <1>4, <3>1, <3>3, ContinueIs DEF EndsStep, EthernetTypeOK
    <3>4. QED
      BY <3>2, <3>3
  <2>2. QED
    BY <1>4, <2>1, EndsStepChip, FramesSame
<1>5. QED
  BY <1>1, <1>2, <1>3, <1>4, MessageCases

LEMMA EthernetKept == EthernetI /\ [EthernetNext]_ethernetVars => EthernetI'
<1> SUFFICES ASSUME EthernetI, [EthernetNext]_ethernetVars
             PROVE  EthernetI'
  OBVIOUS
<1>1. EthernetTypeOK /\ ConfigI /\ LinkI /\ StartI /\ FramesI
  BY DEF EthernetI
<1>2. CASE MessageFails \/ Write \/ Update \/ Wait \/ Read
  <2>1. EthernetTypeOK'
    BY <1>1, <1>2, MessagesTyped
  <2>2. ConfigI'
    BY <1>1, <1>2, MessagesConfig
  <2>3. LinkI'
    BY <1>1, <1>2, MessagesLink
  <2>4. FramesI'
    BY <1>1, <1>2, MessagesFrames
  <2>5. StartI'
    BY <1>1, <1>2, MessagesStart
  <2>6. QED
    BY <2>1, <2>2, <2>3, <2>4, <2>5 DEF EthernetI
<1>3. CASE IsLinkUp
  <2>1. /\ EthernetTypeOK' /\ ConfigI' /\ LinkI' /\ chip' = chip
        /\ lan'.pc = "link" /\ lan'.got = lan.got /\ lan'.sent = lan.sent
    BY <1>1, <1>3, IsLinkUpKeeps
  <2>2. FramesI' /\ StartI'
    BY <1>1, <2>1, FramesSame, StartSame
  <2>3. QED
    BY <2>1, <2>2 DEF EthernetI
<1>4. CASE ResetDone \/ PHYResetDone \/ PHYDone
  <2>1. EthernetTypeOK' /\ ConfigI' /\ LinkI' /\ StartI'
    BY <1>1, <1>4, ResetDoneKeeps, PHYResetDoneKeeps, PHYDoneKeeps
  <2>2. lan' = lan /\ \E regs : chip' = [chip EXCEPT !.regs = regs]
    BY <1>4 DEF ResetDone, PHYResetDone, PHYDone
  <2>3. /\ chip'.fifo = chip.fifo /\ chip'.due = chip.due /\ chip'.arrived = chip.arrived
        /\ chip'.wire = chip.wire /\ chip'.kind = chip.kind /\ chip'.config = chip.config
    BY <1>1, <2>2 DEF EthernetTypeOK, ChipTypes
  <2>4. FramesI'
    BY <1>1, <2>2, <2>3, FramesSame
  <2>5. QED
    BY <2>1, <2>4 DEF EthernetI
<1>5. CASE LinkChanges
  <2>1. /\ EthernetTypeOK' /\ ConfigI' /\ LinkI' /\ lan'.got = lan.got /\ lan'.sent = lan.sent
        /\ chip'.fifo = chip.fifo /\ chip'.due = chip.due /\ chip'.arrived = chip.arrived
        /\ chip'.wire = chip.wire /\ chip'.kind = chip.kind /\ chip'.config = chip.config
        /\ chip'.regs = chip.regs /\ lan'.pc = lan.pc
    BY <1>1, <1>5, LinkChangesKeeps
  <2>2. FramesI' /\ StartI'
    BY <1>1, <2>1, FramesSame, StartSame
  <2>3. QED
    BY <2>1, <2>2 DEF EthernetI
<1>6. ASSUME NEW to \in {"own", "all", "other"}, NEW good \in BOOLEAN, Arrive(to, good)
      PROVE  EthernetI'
  BY <1>1, <1>6, ArriveKeeps DEF EthernetI
<1>7. ASSUME NEW length \in Lengths, SendFrame(length)
      PROVE  EthernetI'
  BY <1>1, <1>7, SendFrameKeeps DEF EthernetI
<1>8. ASSUME NEW transferred \in BOOLEAN, ReceiveFrame(transferred)
      PROVE  EthernetI'
  BY <1>1, <1>8, ReceiveFrameKeeps DEF EthernetI
<1>9. CASE UNCHANGED ethernetVars
  <2>1. lan' = lan /\ chip' = chip
    BY <1>9 DEF ethernetVars
  <2>2. QED
    BY <1>1, <2>1 DEF EthernetI, EthernetTypeOK, ConfigI, Settled, Resetting, Working, LinkI, Answered, StartI, MakesWait,
         Combines, FramesI
<1>10. QED
  BY <1>2, <1>3, <1>4, <1>5, <1>6, <1>7, <1>8, <1>9 DEF EthernetNext

LEMMA InvariantWorks ==
  ASSUME EthernetI
  PROVE  EthernetWorks
<1> DEFINE got == lan.got
           fifo == chip.fifo
           frames == got \o fifo
<1>1. got \in Seq(LanFrames) /\ fifo \in Seq(LanFrames)
  BY LanFields, ChipFields DEF EthernetI, EthernetTypeOK
<1>2. FramesI
  BY DEF EthernetI
<1>3. /\ Rising(got) /\ Rising(fifo)
      /\ \A i \in DOMAIN got, j \in DOMAIN fifo : got[i].id < fifo[j].id
      /\ Combines \/ \A frame \in chip.due : Among(frame, got) \/ Among(frame, fifo)
  BY <1>2 DEF FramesI
<1>4. /\ \A i \in DOMAIN got : got[i].good /\ got[i].to # "other"
      /\ chip.wire = lan.sent
  BY <1>2 DEF FramesI
<1>5. /\ (lan.pc = "waits" => MakesWait) /\ (lan.pc = "asserts" => Combines)
      /\ (lan.pc = "idle" /\ lan.answer # "none" => lan.answer \in lan.links)
  BY DEF EthernetI, StartI, LinkI
<1>6. /\ DOMAIN got = 1 .. Len(got) /\ DOMAIN fifo = 1 .. Len(fifo) /\ Len(got) \in Nat /\ Len(fifo) \in Nat
      /\ DOMAIN frames = 1 .. (Len(got) + Len(fifo))
      /\ \A i \in 1 .. Len(got) + Len(fifo) : frames[i] = IF i <= Len(got) THEN got[i] ELSE fifo[i - Len(got)]
  <2>1. /\ frames \in Seq(LanFrames) /\ Len(frames) = Len(got) + Len(fifo)
        /\ \A i \in 1 .. Len(got) + Len(fifo) : frames[i] = IF i <= Len(got) THEN got[i] ELSE fifo[i - Len(got)]
    BY <1>1, ConcatProperties
  <2>2. /\ DOMAIN got = 1 .. Len(got) /\ DOMAIN fifo = 1 .. Len(fifo) /\ Len(got) \in Nat /\ Len(fifo) \in Nat
        /\ DOMAIN frames = 1 .. Len(frames)
    BY <1>1, <2>1, LenProperties
  <2>3. QED
    BY <2>1, <2>2
<1>7. ASSUME NEW i \in DOMAIN frames, NEW j \in DOMAIN frames, i < j
      PROVE  frames[i].id < frames[j].id
  <2> HIDE DEF frames, got, fifo
  <2>1. CASE i <= Len(got) /\ j <= Len(got)
    <3>1. i \in DOMAIN got /\ j \in DOMAIN got /\ frames[i] = got[i] /\ frames[j] = got[j]
      BY <1>6, <2>1
    <3>2. QED
      BY <1>3, <1>7, <3>1 DEF Rising
  <2>2. CASE i <= Len(got) /\ ~(j <= Len(got))
    <3>1. i \in DOMAIN got /\ j - Len(got) \in DOMAIN fifo /\ frames[i] = got[i] /\ frames[j] = fifo[j - Len(got)]
      BY <1>6, <2>2
    <3>2. QED
      BY <1>3, <3>1
  <2>3. CASE ~(i <= Len(got))
    <3>1. /\ i - Len(got) \in DOMAIN fifo /\ j - Len(got) \in DOMAIN fifo /\ i - Len(got) < j - Len(got)
          /\ frames[i] = fifo[i - Len(got)] /\ frames[j] = fifo[j - Len(got)]
      BY <1>6, <1>7, <2>3
    <3>2. QED
      BY <1>3, <3>1 DEF Rising
  <2>4. QED
    BY <2>1, <2>2, <2>3
<1>8. Combines \/ chip.due \subseteq ToSet(frames)
  <2> HIDE DEF frames, got, fifo
  <2> SUFFICES ASSUME ~Combines, NEW frame \in chip.due
               PROVE  \E i \in DOMAIN frames : frames[i] = frame
    BY DEF ToSet
  <2>1. CASE Among(frame, got)
    <3>1. PICK i \in DOMAIN got : got[i] = frame
      BY <2>1 DEF Among
    <3>2. i \in DOMAIN frames /\ frames[i] = frame
      BY <1>6, <3>1
    <3>3. QED
      BY <3>2
  <2>2. CASE Among(frame, fifo)
    <3>1. PICK i \in DOMAIN fifo : fifo[i] = frame
      BY <2>2 DEF Among
    <3>2. Len(got) + i \in DOMAIN frames /\ frames[Len(got) + i] = frame
      BY <1>6, <3>1
    <3>3. QED
      BY <3>2
  <2>3. QED
    BY <1>3, <2>1, <2>2
<1>9. QED
  BY <1>4, <1>5, <1>7, <1>8 DEF EthernetWorks

LEMMA EthernetSteps == (Init => EthernetInit) /\ ([Next]_functionVars => [EthernetNext]_ethernetVars)
<1>1. NoEthernet => EthernetInit
  <2>1. {} \in SUBSET {"MEF", "BIR"}
    OBVIOUS
  <2>2. QED
    BY <2>1 DEF NoEthernet, EthernetInit
<1>2. QED
  BY <1>1 DEF Init, Next, functionVars, ethernetVars

(***************************************************************************)
(* An adapter that Configure has given its name works: however its chip    *)
(* starts, however long its resets take, however many frames and changes   *)
(* of the link there are, and whichever messages fail.                     *)
(***************************************************************************)
THEOREM EthernetAlwaysWorks == Spec => []EthernetWorks
<1>1. Init => EthernetI
  BY EthernetSteps, EthernetStarts
<1>2. EthernetI /\ [Next]_functionVars => EthernetI'
  BY EthernetSteps, EthernetKept
<1>3. EthernetI => EthernetWorks
  BY InvariantWorks
<1>4. QED
  BY <1>1, <1>2, <1>3, PTL DEF Spec

-----------------------------------------------------------------------------
(* Configurations: induction, as a fact about sets of numbers; the least     *)
(* and the greatest of a set.                                                *)

LEMMA LeastNatural ==
  ASSUME NEW T, T \subseteq Nat, T # {}
  PROVE  \E x \in T : \A y \in T : x <= y
<1> DEFINE R == OpToRel(<, Nat)
<1>1. IsWellFoundedOn(R, Nat)
  BY NatLessThanWellFounded
<1>2. \A x, y \in Nat : <<y, x>> \in R <=> y < x
  BY DEF OpToRel
<1> HIDE DEF R
<1>3. PICK x \in T : \A y \in T : ~(<<y, x>> \in R)
  BY <1>1, WFMin
<1>4. \A y \in T : x \in Nat /\ y \in Nat /\ ~(y < x)
  BY <1>2, <1>3
<1>5. QED
  BY <1>4

LEMMA InductionOver ==
  ASSUME NEW T, 0 \in T, \A n \in Nat : n \in T => n + 1 \in T
  PROVE  Nat \subseteq T
<1> SUFFICES ASSUME Nat \ T # {}
             PROVE  FALSE
  OBVIOUS
<1>1. PICK n \in Nat \ T : \A m \in Nat \ T : n <= m
  BY LeastNatural
<1>2. n # 0 /\ n - 1 \in Nat /\ (n - 1) + 1 = n
  BY <1>1
<1>3. n - 1 \in T
  BY <1>1, <1>2
<1>4. QED
  BY <1>1, <1>2, <1>3

LEMMA LeastIs ==
  ASSUME NEW T, T \subseteq Nat, T # {}
  PROVE  Min(T) \in T /\ \A x \in T : Min(T) <= x
<1>1. \E x \in T : \A y \in T : x <= y
  BY LeastNatural
<1>2. QED
  BY <1>1 DEF Min

LEMMA ExtremesOfFew ==
  /\ \A x \in Nat : Max({x}) = x
  /\ \A x, y \in Nat : /\ Max({x, y}) = IF x >= y THEN x ELSE y
                       /\ Min({x, y}) = IF x <= y THEN x ELSE y
<1>1. \A x \in Nat : Max({x}) = x
  BY DEF Max
<1>2. ASSUME NEW x \in Nat, NEW y \in Nat
      PROVE  /\ Max({x, y}) = IF x >= y THEN x ELSE y
             /\ Min({x, y}) = IF x <= y THEN x ELSE y
  <2>1. \E z \in {x, y} : \A w \in {x, y} : z >= w
    BY DEF Max
  <2>2. \E z \in {x, y} : \A w \in {x, y} : z <= w
    BY DEF Max
  <2>3. Max({x, y}) \in {x, y} /\ \A w \in {x, y} : Max({x, y}) >= w
    BY <2>1 DEF Max
  <2>4. Min({x, y}) \in {x, y} /\ \A w \in {x, y} : Min({x, y}) <= w
    BY <2>2 DEF Min
  <2>5. QED
    BY <2>3, <2>4
<1>3. QED
  BY <1>1, <1>2

-----------------------------------------------------------------------------
(* The configurations a device may send: their interfaces are numbered in    *)
(* order.                                                                     *)

LEMMA DescriptorIs ==
  ASSUME NEW type \in DescriptorTypes
  PROVE  Descriptor0(type) \in Descs /\ Descriptor0(type).type = type
BY DEF Descriptor0, Descs, SettingNames

LEMMA InterfaceIs ==
  ASSUME NEW num \in Nat, NEW alt \in Nat, NEW setting \in Settings
  PROVE  /\ Interface(num, alt, setting) \in Seq(Descs)
         /\ \A i \in DOMAIN Interface(num, alt, setting) :
              IsInterface(Interface(num, alt, setting)[i]) => i = 1 /\ Interface(num, alt, setting)[i].num = num
<1> DEFINE body == setting.body
           own == {i \in DOMAIN body : body[i] \in Endpoints}
           first == [Descriptor0("interface") EXCEPT !.num = num, !.alt = alt, !.name = setting.name,
                       !.endpoints = Cardinality(own)]
           rest == [i \in DOMAIN body |-> Descriptor0(body[i])]
<1>1. body \in Seq(Endpoints \cup {"hid", "cs"})
  BY ConfigurationAssumption
<1>2. /\ Len(body) \in Nat /\ DOMAIN body = 1 .. Len(body)
      /\ \A i \in DOMAIN body : body[i] \in Endpoints \cup {"hid", "cs"}
  BY <1>1, LenProperties, ElementOfSeq
<1>3. Cardinality(own) \in Nat
  <2>1. IsFiniteSet(1 .. Len(body)) /\ own \in SUBSET (1 .. Len(body))
    BY <1>2, FS_Interval
  <2>2. QED
    BY <2>1, FS_Subset, FS_CardinalityType
<1>4. first \in Descs /\ first.num = num
  <2> HIDE DEF own
  <2>1. setting.name \in SettingNames
    BY DEF SettingNames
  <2>2. QED
    BY <1>3, <2>1 DEF Descriptor0, Descs, DescriptorTypes
<1>5. \A i \in DOMAIN body : rest[i] \in Descs /\ ~IsInterface(rest[i])
  <2> SUFFICES ASSUME NEW i \in DOMAIN body
               PROVE  rest[i] \in Descs /\ ~IsInterface(rest[i])
    OBVIOUS
  <2>1. body[i] \in DescriptorTypes /\ body[i] # "interface"
    BY <1>2 DEF DescriptorTypes, Endpoints
  <2>2. QED
    BY <2>1, DescriptorIs DEF IsInterface
<1> HIDE DEF first
<1>6. rest \in Seq(Descs) /\ Len(rest) = Len(body)
  <2>1. rest \in [1 .. Len(body) -> Descs]
    BY <1>2, <1>5
  <2>2. QED
    BY <1>2, <2>1
<1> DEFINE one == <<first>>
<1>7. one \in Seq(Descs) /\ Len(one) = 1 /\ one[1] = first
  BY <1>4
<1> HIDE DEF rest, body, one
<1>8. /\ one \o rest \in Seq(Descs) /\ DOMAIN (one \o rest) = 1 .. 1 + Len(body)
      /\ \A i \in 1 .. 1 + Len(body) : (one \o rest)[i] = IF i <= 1 THEN first ELSE rest[i - 1]
  <2>1. /\ one \o rest \in Seq(Descs) /\ Len(one \o rest) = Len(one) + Len(rest)
        /\ \A i \in 1 .. Len(one) + Len(rest) :
             (one \o rest)[i] = IF i <= Len(one) THEN one[i] ELSE rest[i - Len(one)]
    <3>1. one \in Seq(Descs) /\ rest \in Seq(Descs)
      BY <1>6, <1>7
    <3>2. QED
      BY <3>1, ConcatProperties
  <2>2. DOMAIN (one \o rest) = 1 .. Len(one \o rest)
    BY <2>1, LenProperties
  <2>3. QED
    BY <1>2, <1>6, <1>7, <2>1, <2>2
<1>9. Interface(num, alt, setting) = one \o rest
  BY DEF Interface, one, first, rest, body, own
<1> DEFINE all == one \o rest
<1>10. \A i \in DOMAIN all : IsInterface(all[i]) => i = 1 /\ all[i].num = num
  <2> SUFFICES ASSUME NEW i \in 1 .. 1 + Len(body), i # 1
               PROVE  ~IsInterface((one \o rest)[i])
    BY <1>4, <1>8
  <2>1. i - 1 \in DOMAIN body
    BY <1>2
  <2>2. ~IsInterface(rest[i - 1])
    BY <1>5, <2>1, Zenon
  <2>3. (one \o rest)[i] = IF i <= 1 THEN first ELSE rest[i - 1]
    BY <1>8, Zenon
  <2>4. ~(i <= 1)
    OBVIOUS
  <2>5. QED
    BY <2>2, <2>3, <2>4, Zenon
<1>11. QED
  BY <1>8, <1>9, <1>10

LEMMA MoreInterfaces ==
  ASSUME NEW s, NEW top \in Nat, NEW num \in Nat, NEW alt \in Nat, NEW setting \in Settings,
         NumberedUpTo(s, top), top <= num
  PROVE  NumberedUpTo(s \o Interface(num, alt, setting), num)
<1> DEFINE t == Interface(num, alt, setting)
           all == s \o t
<1>1. /\ t \in Seq(Descs)
      /\ \A i \in DOMAIN t : IsInterface(t[i]) => i = 1 /\ t[i].num = num
  BY InterfaceIs, ZenonT(40)
<1>2. s \in Seq(Descs)
  BY DEF NumberedUpTo
<1> HIDE DEF t
<1>3. /\ all \in Seq(Descs) /\ Len(all) = Len(s) + Len(t)
      /\ \A i \in 1 .. Len(s) + Len(t) : all[i] = IF i <= Len(s) THEN s[i] ELSE t[i - Len(s)]
  BY <1>1, <1>2, ConcatProperties, Zenon
<1> HIDE DEF all
<1>4. /\ DOMAIN s = 1 .. Len(s) /\ DOMAIN t = 1 .. Len(t) /\ DOMAIN all = 1 .. Len(all)
      /\ Len(s) \in Nat /\ Len(t) \in Nat
  BY <1>1, <1>2, <1>3, LenProperties
<1>5. \A i \in DOMAIN s : s[i].num \in Nat
  <2>1. \A i \in DOMAIN s : s[i] \in Descs
    BY <1>2, <1>4, ElementOfSeq
  <2>2. QED
    BY <2>1 DEF Descs
<1>6. \A i \in DOMAIN all : i <= Len(s) => i \in DOMAIN s /\ all[i] = s[i]
  BY <1>3, <1>4
<1>7. \A i \in DOMAIN all : ~(i <= Len(s)) /\ IsInterface(all[i]) => i = Len(s) + 1 /\ all[i].num = num
  <2> SUFFICES ASSUME NEW i \in DOMAIN all, ~(i <= Len(s)), IsInterface(all[i])
               PROVE  i = Len(s) + 1 /\ all[i].num = num
    OBVIOUS
  <2>1. i - Len(s) \in DOMAIN t /\ all[i] = t[i - Len(s)]
    BY <1>3, <1>4
  <2>2. i - Len(s) = 1 /\ all[i].num = num
    BY <1>1, <2>1
  <2>3. QED
    BY <1>3, <1>4, <2>2
<1>8. \A i \in DOMAIN all : IsInterface(all[i]) => all[i].num <= num
  <2> SUFFICES ASSUME NEW i \in DOMAIN all, IsInterface(all[i])
               PROVE  all[i].num <= num
    OBVIOUS
  <2>1. CASE i <= Len(s)
    BY <1>5, <1>6, <2>1 DEF NumberedUpTo
  <2>2. CASE ~(i <= Len(s))
    BY <1>7, <2>2
  <2>3. QED
    BY <2>1, <2>2
<1>9. \A i, j \in DOMAIN all : i < j /\ IsInterface(all[i]) /\ IsInterface(all[j]) => all[i].num <= all[j].num
  <2> SUFFICES ASSUME NEW i \in DOMAIN all, NEW j \in DOMAIN all, i < j, IsInterface(all[i]), IsInterface(all[j])
               PROVE  all[i].num <= all[j].num
    OBVIOUS
  <2>1. CASE j <= Len(s)
    <3>1. i <= Len(s)
      BY <1>3, <1>4, <2>1
    <3>2. QED
      BY <1>6, <2>1, <3>1 DEF NumberedUpTo
  <2>2. CASE ~(j <= Len(s))
    BY <1>7, <1>8, <2>2
  <2>3. QED
    BY <2>1, <2>2
<1>10. QED
  BY <1>3, <1>8, <1>9 DEF NumberedUpTo, all, t

LEMMA NumbersGrow ==
  ASSUME NEW fresh, NEW i \in Nat
  PROVE  /\ InterfaceNumber(fresh, i) \in Nat /\ AlternateSetting(fresh, i) \in Nat
         /\ InterfaceNumber(fresh, i) <= InterfaceNumber(fresh, i + 1)
<1> DEFINE some == {j \in 2 .. i : fresh[j]}
           more == {j \in 2 .. i + 1 : fresh[j]}
           same == {j \in 1 .. i - 1 : InterfaceNumber(fresh, j) = InterfaceNumber(fresh, i)}
<1>1. IsFiniteSet(2 .. i + 1) /\ IsFiniteSet(1 .. i - 1)
  BY FS_Interval
<1>2. IsFiniteSet(more)
  <2>1. more \in SUBSET (2 .. i + 1)
    OBVIOUS
  <2>2. QED
    BY <1>1, <2>1, FS_Subset
<1>3. IsFiniteSet(same)
  <2>1. same \in SUBSET (1 .. i - 1)
    OBVIOUS
  <2>2. QED
    BY <1>1, <2>1, FS_Subset
<1>4. some \in SUBSET more
  OBVIOUS
<1> HIDE DEF some, more, same
<1>5. IsFiniteSet(some) /\ Cardinality(some) <= Cardinality(more)
  BY <1>2, <1>4, FS_Subset
<1>6. Cardinality(some) \in Nat /\ Cardinality(same) \in Nat
  BY <1>3, <1>5, FS_CardinalityType
<1>7. QED
  BY <1>5, <1>6 DEF InterfaceNumber, AlternateSetting, some, more, same

LEMMA ConfigurationIs ==
  ASSUME NEW n \in Nat, NEW settings \in [1 .. n -> Settings], NEW fresh
  PROVE  NumberedUpTo(Configuration(settings, fresh), InterfaceNumber(fresh, n))
<1> DEFINE Extended(g, m) == IF m = 0 THEN <<Descriptor0("configuration")>>
                         ELSE g[m - 1] \o Interface(InterfaceNumber(fresh, m), AlternateSetting(fresh, m), settings[m])
           Solves(g, m) == g = [i \in 0 .. m |-> Extended(g, i)]
           walk == CHOOSE g : Solves(g, n)
           Good(g, i) == NumberedUpTo(g[i], InterfaceNumber(fresh, i))
<1>1. Len(settings) = n
  OBVIOUS
<1>2. \E g : Solves(g, n)
  <2> DEFINE T == {m \in Nat : \E g : Solves(g, m)}
  <2>1. 0 \in T
    <3> DEFINE g == [i \in 0 .. 0 |-> <<Descriptor0("configuration")>>]
    <3>1. Solves(g, 0)
      OBVIOUS
    <3>2. QED
      BY <3>1
  <2>2. ASSUME NEW m \in Nat, m \in T
        PROVE  m + 1 \in T
    <3>1. PICK g : Solves(g, m)
      BY <2>2
    <3> DEFINE last == Extended(g, m + 1)
               h == [i \in 0 .. m + 1 |-> IF i = m + 1 THEN last ELSE g[i]]
    <3>2. \A i \in 0 .. m + 1 : h[i] = Extended(h, i)
      <4> SUFFICES ASSUME NEW i \in 0 .. m + 1
                   PROVE  h[i] = Extended(h, i)
        OBVIOUS
      <4>1. CASE i = m + 1
        <5>1. i # 0 /\ i - 1 = m /\ m \in 0 .. m + 1 /\ m # m + 1
          BY <4>1
        <5> HIDE DEF Step
        <5>2. h[i] = Extended(g, i) /\ h[i - 1] = g[i - 1]
          BY <4>1, <5>1
        <5>3. Extended(h, i) = Extended(g, i)
          BY <5>1, <5>2 DEF Step
        <5>4. QED
          BY <5>2, <5>3
      <4>2. CASE i # m + 1
        <5>1. i \in 0 .. m
          BY <4>2
        <5> HIDE DEF Step
        <5>2. h[i] = Extended(g, i)
          BY <3>1, <4>2, <5>1
        <5>3. i # 0 => h[i - 1] = g[i - 1]
          BY <5>1
        <5>4. Extended(h, i) = Extended(g, i)
          BY <5>3 DEF Step
        <5>5. QED
          BY <5>2, <5>4
      <4>3. QED
        BY <4>1, <4>2
    <3> HIDE DEF Step
    <3>3. Solves(h, m + 1)
      BY <3>2
    <3> HIDE DEF Solves, h
    <3>4. m + 1 \in Nat /\ \E f : Solves(f, m + 1)
      BY <3>3
    <3>5. QED
      BY <3>4
  <2> HIDE DEF T
  <2>3. Nat \subseteq T
    BY <2>1, <2>2, InductionOver
  <2>4. QED
    BY <2>3 DEF T
<1>3. Solves(walk, n)
  <2> HIDE DEF Solves
  <2>1. QED
    BY <1>2
<1>4. Configuration(settings, fresh) = walk[n]
  BY <1>1 DEF Configuration
<1> HIDE DEF walk
<1>5. \A i \in 0 .. n : walk[i] = Extended(walk, i)
  <2> HIDE DEF Step
  <2>1. QED
    BY <1>3
<1> DEFINE T == {m \in Nat : m <= n => Good(walk, m)}
<1>6. 0 \in T
  <2>1. walk[0] = <<Descriptor0("configuration")>>
    <3>1. 0 \in 0 .. n
      OBVIOUS
    <3>2. walk[0] = Extended(walk, 0)
      BY <1>5, <3>1
    <3>3. QED
      BY <3>2
  <2>2. Descriptor0("configuration") \in Descs /\ ~IsInterface(Descriptor0("configuration"))
    BY DescriptorIs DEF DescriptorTypes, IsInterface
  <2>3. NumberedUpTo(<<Descriptor0("configuration")>>, InterfaceNumber(fresh, 0))
    BY <2>2 DEF NumberedUpTo
  <2>4. QED
    BY <2>1, <2>3
<1>7. ASSUME NEW m \in Nat, m \in T
      PROVE  m + 1 \in T
  <2> SUFFICES ASSUME m + 1 <= n
               PROVE  Good(walk, m + 1)
    OBVIOUS
  <2>1. m + 1 \in 0 .. n /\ m + 1 # 0 /\ (m + 1) - 1 = m /\ m + 1 \in 1 .. n
    OBVIOUS
  <2>2. walk[m + 1] = walk[m] \o Interface(InterfaceNumber(fresh, m + 1), AlternateSetting(fresh, m + 1),
                                           settings[m + 1])
    BY <1>5, <2>1
  <2>3. Good(walk, m)
    BY <1>7
  <2>4. /\ InterfaceNumber(fresh, m) \in Nat /\ InterfaceNumber(fresh, m + 1) \in Nat
        /\ AlternateSetting(fresh, m + 1) \in Nat
        /\ InterfaceNumber(fresh, m) <= InterfaceNumber(fresh, m + 1) /\ settings[m + 1] \in Settings
    <3>1. \A i \in Nat : /\ InterfaceNumber(fresh, i) \in Nat /\ AlternateSetting(fresh, i) \in Nat
                         /\ InterfaceNumber(fresh, i) <= InterfaceNumber(fresh, i + 1)
      BY NumbersGrow
    <3>2. settings[m + 1] \in Settings
      BY <2>1
    <3>3. m + 1 \in Nat
      OBVIOUS
    <3>4. QED
      BY <3>1, <3>2, <3>3
  <2>5. NumberedUpTo(walk[m] \o Interface(InterfaceNumber(fresh, m + 1), AlternateSetting(fresh, m + 1),
                                          settings[m + 1]),
                     InterfaceNumber(fresh, m + 1))
    BY <2>3, <2>4, MoreInterfaces
  <2>6. QED
    BY <2>2, <2>5
<1> HIDE DEF T
<1>8. Nat \subseteq T
  BY <1>6, <1>7, InductionOver
<1>9. QED
  BY <1>4, <1>8 DEF T

-----------------------------------------------------------------------------
(* What one call of the parser finds, and where it leaves it.                 *)

LEMMA RowIs ==
  ASSUME InRow
  PROVE  /\ Len(descs.seq) \in Nat /\ DOMAIN descs.seq = 1 .. Len(descs.seq)
         /\ \A i \in 1 .. Len(descs.seq) : /\ descs.seq[i].type \in DescriptorTypes
                                           /\ descs.seq[i].num \in Nat /\ descs.seq[i].endpoints \in Nat
<1>1. \A i \in 1 .. Len(descs.seq) : descs.seq[i] \in Descs
  BY ElementOfSeq DEF InRow
<1>2. QED
  BY <1>1, LenProperties DEF InRow, Descs

LEMMA OneIsFound ==
  ASSUME InRow, NEW next \in Nat \ {0}, NEW type
  PROVE  \A i \in DescriptorFrom(next, type) : i \in next .. Len(descs.seq) /\ FoundAt(next, type, i)
<1> SUFFICES ASSUME NEW i \in DescriptorFrom(next, type)
             PROVE  i \in next .. Len(descs.seq) /\ FoundAt(next, type, i)
  OBVIOUS
<1>1. Len(descs.seq) \in Nat
  BY RowIs
<1>2. /\ i \in next .. Len(descs.seq) /\ Matches(i, type) /\ \A j \in next .. i - 1 : ~Matches(j, type)
  BY DEF DescriptorFrom
<1>3. DescriptorFrom(next, type) = {i}
  <2> SUFFICES ASSUME NEW k \in DescriptorFrom(next, type), k # i
               PROVE  FALSE
    OBVIOUS
  <2>1. k \in next .. Len(descs.seq) /\ Matches(k, type) /\ \A j \in next .. k - 1 : ~Matches(j, type)
    BY DEF DescriptorFrom
  <2>2. CASE k < i
    <3>1. k \in next .. i - 1
      BY <1>1, <1>2, <2>1, <2>2
    <3>2. QED
      BY <1>2, <2>1, <3>1
  <2>3. CASE ~(k < i)
    <3>1. i \in next .. k - 1
      BY <1>1, <1>2, <2>1, <2>3
    <3>2. QED
      BY <1>2, <2>1, <3>1
  <2>4. QED
    BY <2>2, <2>3
<1>4. i \in Nat /\ Max({i}) = i
  <2>1. i \in Nat
    BY <1>1, <1>2
  <2>2. QED
    BY <2>1, ExtremesOfFew
<1>5. After0(next, type) = i + 1
  BY <1>3, <1>4 DEF After0
<1>6. QED
  BY <1>2, <1>3, <1>4, <1>5 DEF FoundAt

LEMMA NothingIsMissed ==
  ASSUME InRow, NEW next \in Nat \ {0}, NEW type \in {"interface", "hid", "cs"}, DescriptorFrom(next, type) = {}
  PROVE  /\ \A j \in next .. Len(descs.seq) : ~Matches(j, type)
         /\ After0(next, type) = Len(descs.seq) + 1
<1> DEFINE T == {j \in next .. Len(descs.seq) : Matches(j, type)}
<1>1. Len(descs.seq) \in Nat
  BY RowIs
<1>2. T = {}
  <2> SUFFICES ASSUME T # {}
               PROVE  FALSE
    OBVIOUS
  <2>1. T \subseteq Nat
    BY <1>1
  <2>2. PICK i \in T : \A j \in T : i <= j
    <3> HIDE DEF T
    <3>1. QED
      BY <2>1, LeastNatural
  <2>3. \A j \in next .. i - 1 : ~Matches(j, type)
    <3> SUFFICES ASSUME NEW j \in next .. i - 1, Matches(j, type)
                 PROVE  FALSE
      OBVIOUS
    <3>1. j \in T
      BY <1>1
    <3>2. QED
      BY <1>1, <2>2, <3>1
  <2>4. i \in DescriptorFrom(next, type)
    BY <2>3 DEF DescriptorFrom
  <2>5. QED
    BY <2>4
<1>3. After0(next, type) = Len(descs.seq) + 1
  BY DEF After0
<1>4. QED
  BY <1>2, <1>3

LEMMA NoEndpointIsMissed ==
  ASSUME InRow, NEW next \in Nat \ {0}, DescriptorFrom(next, "endpoint") = {},
         NEW e \in next .. Len(descs.seq), IsEndpoint(descs.seq[e])
  PROVE  \E j \in next .. e : IsInterface(descs.seq[j])
<1> DEFINE T == {j \in next .. Len(descs.seq) : IsEndpoint(descs.seq[j])}
<1>1. Len(descs.seq) \in Nat
  BY RowIs
<1>2. T \subseteq Nat /\ e \in T
  BY <1>1
<1>3. PICK i \in T : \A j \in T : i <= j
  <2> HIDE DEF T
  <2>1. QED
    BY <1>2, LeastNatural
<1>4. i <= e
  BY <1>2, <1>3
<1>5. \A j \in next .. i - 1 : ~IsEndpoint(descs.seq[j])
  <2> SUFFICES ASSUME NEW j \in next .. i - 1, IsEndpoint(descs.seq[j])
               PROVE  FALSE
    OBVIOUS
  <2>1. j \in T
    BY <1>1
  <2>2. QED
    BY <1>1, <1>3, <2>1
<1>6. PICK j \in next .. i - 1 : IsInterface(descs.seq[j])
  <2>1. i \notin DescriptorFrom(next, "endpoint") /\ IsEndpoint(descs.seq[i])
    BY <1>3
  <2>2. QED
    BY <1>3, <1>5, <2>1 DEF DescriptorFrom, Matches, IsInterface
<1>7. j \in next .. e
  BY <1>1, <1>4, <1>6
<1>8. QED
  BY <1>6, <1>7

-----------------------------------------------------------------------------
(* What the recursive searches of the drivers come to.                        *)

LEMMA EndsFromNext ==
  ASSUME InRow, NEW n \in 1 .. Len(descs.seq) + 1
  PROVE  /\ DescriptorFrom(n, "endpoint") = {} => EndsFrom(n) = {}
         /\ \A i \in DescriptorFrom(n, "endpoint") : /\ EndsFrom(n) = {i} \cup EndsFrom(i + 1)
                                                      /\ \A j \in n .. i : ~IsInterface(descs.seq[j])
<1>1. Len(descs.seq) \in Nat /\ n \in Nat \ {0}
  BY RowIs
<1>2. ASSUME DescriptorFrom(n, "endpoint") = {}
      PROVE  EndsFrom(n) = {}
  <2> SUFFICES ASSUME NEW e \in EndsFrom(n)
               PROVE  FALSE
    OBVIOUS
  <2>1. e \in n .. Len(descs.seq) /\ IsEndpoint(descs.seq[e]) /\ \A j \in n .. e : ~IsInterface(descs.seq[j])
    BY DEF EndsFrom
  <2>2. QED
    BY <1>1, <1>2, <2>1, NoEndpointIsMissed
<1>3. ASSUME NEW i \in DescriptorFrom(n, "endpoint")
      PROVE  /\ EndsFrom(n) = {i} \cup EndsFrom(i + 1)
             /\ \A j \in n .. i : ~IsInterface(descs.seq[j])
  <2>1. /\ i \in n .. Len(descs.seq) /\ IsEndpoint(descs.seq[i])
        /\ \A j \in n .. i - 1 : ~IsEndpoint(descs.seq[j]) /\ ~IsInterface(descs.seq[j])
    BY DEF DescriptorFrom, Matches, IsInterface
  <2>2. ~IsInterface(descs.seq[i])
    BY <2>1 DEF IsEndpoint, Endpoints, IsInterface
  <2>3. \A j \in n .. i : ~IsInterface(descs.seq[j])
    <3>1. \A j \in n .. i : j = i \/ j \in n .. i - 1
      BY <1>1, <2>1
    <3>2. QED
      BY <2>1, <2>2, <3>1
  <2>4. i \in EndsFrom(n)
    BY <2>1, <2>3 DEF EndsFrom
  <2>5. EndsFrom(i + 1) \subseteq EndsFrom(n)
    <3> SUFFICES ASSUME NEW e \in EndsFrom(i + 1)
                 PROVE  e \in EndsFrom(n)
      OBVIOUS
    <3>1. /\ e \in i + 1 .. Len(descs.seq) /\ IsEndpoint(descs.seq[e])
          /\ \A j \in i + 1 .. e : ~IsInterface(descs.seq[j])
      BY DEF EndsFrom
    <3>2. e \in n .. Len(descs.seq) /\ \A j \in n .. e : j \in n .. i \/ j \in i + 1 .. e
      BY <1>1, <2>1, <3>1
    <3>3. QED
      BY <2>3, <3>1, <3>2 DEF EndsFrom
  <2>6. ASSUME NEW e \in EndsFrom(n), e # i
        PROVE  e \in EndsFrom(i + 1)
    <3>1. /\ e \in n .. Len(descs.seq) /\ IsEndpoint(descs.seq[e])
          /\ \A j \in n .. e : ~IsInterface(descs.seq[j])
      BY DEF EndsFrom
    <3>2. e \notin n .. i - 1
      BY <2>1, <3>1
    <3>3. e \in i + 1 .. Len(descs.seq) /\ \A j \in i + 1 .. e : j \in n .. e
      BY <1>1, <2>1, <2>6, <3>1, <3>2
    <3>4. QED
      BY <3>1, <3>3 DEF EndsFrom
  <2>7. QED
    BY <2>3, <2>4, <2>5, <2>6
<1>4. QED
  BY <1>2, <1>3

LEMMA EndpointsFromIs ==
  ASSUME InRow, NEW next \in 1 .. Len(descs.seq) + 1
  PROVE  EndpointsFrom(next) = EndsFrom(next)
<1> DEFINE N == Len(descs.seq)
           Extended(g, n) == IF DescriptorFrom(n, "endpoint") = {} THEN {}
                         ELSE DescriptorFrom(n, "endpoint") \cup g[After0(n, "endpoint")]
           Solves(g) == g = [n \in 1 .. N + 1 |-> Extended(g, n)]
           front == [n \in 1 .. N + 1 |-> EndsFrom(n)]
           walk == CHOOSE g : Solves(g)
<1>1. N \in Nat
  BY RowIs
<1>2. ASSUME NEW g, NEW n \in 1 .. N + 1, \A m \in n + 1 .. N + 1 : g[m] = EndsFrom(m)
      PROVE  Extended(g, n) = EndsFrom(n)
  <2>1. CASE DescriptorFrom(n, "endpoint") = {}
    BY <2>1, EndsFromNext
  <2>2. CASE DescriptorFrom(n, "endpoint") # {}
    <3>1. PICK i \in DescriptorFrom(n, "endpoint") : TRUE
      BY <2>2
    <3>2. n \in Nat \ {0}
      BY <1>1
    <3>3. i \in n .. N /\ DescriptorFrom(n, "endpoint") = {i} /\ After0(n, "endpoint") = i + 1
      BY <3>1, <3>2, OneIsFound DEF FoundAt
    <3>4. EndsFrom(n) = {i} \cup EndsFrom(i + 1)
      BY <3>1, EndsFromNext
    <3>5. i + 1 \in n + 1 .. N + 1
      BY <1>1, <3>2, <3>3
    <3>6. g[i + 1] = EndsFrom(i + 1)
      BY <1>2, <3>5
    <3>7. QED
      BY <3>3, <3>4, <3>6
  <2>3. QED
    BY <2>1, <2>2
<1> HIDE DEF Step
<1>3. Solves(front)
  <2>1. ASSUME NEW n \in 1 .. N + 1
        PROVE  front[n] = Extended(front, n)
    <3>1. \A m \in n + 1 .. N + 1 : front[m] = EndsFrom(m)
      BY <1>1
    <3> HIDE DEF front
    <3>2. Extended(front, n) = EndsFrom(n)
      BY <1>2, <3>1
    <3>3. QED
      BY <3>2 DEF front
  <2>2. QED
    BY <2>1
<1>4. Solves(walk)
  <2> HIDE DEF Solves, front
  <2>1. QED
    BY <1>3
<1>5. EndpointsFrom(next) = walk[next]
  BY DEF EndpointsFrom, Step
<1> HIDE DEF walk
<1>6. \A n \in 1 .. N + 1 : walk[n] = Extended(walk, n)
  BY <1>4
<1> DEFINE T == {d \in Nat : \A n \in 1 .. N + 1 : N + 1 - n <= d => walk[n] = EndsFrom(n)}
<1>7. 0 \in T
  <2> SUFFICES ASSUME NEW n \in 1 .. N + 1, N + 1 - n <= 0
               PROVE  walk[n] = EndsFrom(n)
    OBVIOUS
  <2>1. \A m \in n + 1 .. N + 1 : walk[m] = EndsFrom(m)
    BY <1>1
  <2>2. QED
    BY <1>2, <1>6, <2>1
<1>8. ASSUME NEW d \in Nat, d \in T
      PROVE  d + 1 \in T
  <2> SUFFICES ASSUME NEW n \in 1 .. N + 1, N + 1 - n <= d + 1
               PROVE  walk[n] = EndsFrom(n)
    OBVIOUS
  <2>1. \A m \in n + 1 .. N + 1 : walk[m] = EndsFrom(m)
    <3> SUFFICES ASSUME NEW m \in n + 1 .. N + 1
                 PROVE  walk[m] = EndsFrom(m)
      OBVIOUS
    <3>1. m \in 1 .. N + 1 /\ N + 1 - m <= d
      BY <1>1
    <3>2. QED
      BY <1>8, <3>1
  <2>2. QED
    BY <1>2, <1>6, <2>1
<1> HIDE DEF T
<1>9. Nat \subseteq T
  BY <1>7, <1>8, InductionOver
<1>10. N + 1 - next \in Nat /\ next \in 1 .. N + 1
  BY <1>1
<1>11. walk[next] = EndsFrom(next)
  <2>1. N + 1 - next \in T /\ N + 1 - next <= N + 1 - next
    BY <1>9, <1>10
  <2>2. QED
    BY <1>10, <2>1 DEF T
<1>12. QED
  BY <1>5, <1>11

LEMMA TurnGoesOn ==
  ASSUME InRow, NEW n \in 1 .. Len(descs.seq) + 1, NEW g
  PROVE  \/ DescriptorFrom(n, "endpoint") = {} /\ StreamingTurn(g, n) = {}
         \/ \E e \in DescriptorFrom(n, "endpoint"), more \in n + 1 .. Len(descs.seq) + 1 :
              /\ e \in n .. Len(descs.seq) /\ \A j \in n .. e : ~IsInterface(descs.seq[j])
              /\ IsEndpoint(descs.seq[e])
              /\ descs.seq[e].type # "bulk in" => more = e + 1
              /\ descs.seq[e].type = "bulk in" => more = After0(e + 1, "cs")
              /\ StreamingTurn(g, n) =
                   IF descs.seq[e].type = "bulk in" /\ DescriptorFrom(e + 1, "cs") = {e + 1} /\ g[more] = {}
                   THEN {{e}} ELSE g[more]
<1>1. Len(descs.seq) \in Nat /\ n \in Nat \ {0}
  BY RowIs
<1>2. CASE DescriptorFrom(n, "endpoint") = {}
  BY <1>2 DEF StreamingTurn
<1>3. ASSUME NEW e \in DescriptorFrom(n, "endpoint")
      PROVE  \E more \in n + 1 .. Len(descs.seq) + 1 :
              /\ e \in n .. Len(descs.seq) /\ \A j \in n .. e : ~IsInterface(descs.seq[j])
              /\ IsEndpoint(descs.seq[e])
              /\ descs.seq[e].type # "bulk in" => more = e + 1
              /\ descs.seq[e].type = "bulk in" => more = After0(e + 1, "cs")
              /\ StreamingTurn(g, n) =
                   IF descs.seq[e].type = "bulk in" /\ DescriptorFrom(e + 1, "cs") = {e + 1} /\ g[more] = {}
                   THEN {{e}} ELSE g[more]
  <2>1. e \in n .. Len(descs.seq) /\ Max(DescriptorFrom(n, "endpoint")) = e /\ Matches(e, "endpoint")
    BY <1>1, OneIsFound DEF FoundAt
  <2>2. IsEndpoint(descs.seq[e])
    BY <2>1 DEF Matches
  <2>3. \A j \in n .. e : ~IsInterface(descs.seq[j])
    BY EndsFromNext
  <2>4. After0(e + 1, "cs") \in n + 1 .. Len(descs.seq) + 1
    <3>1. e + 1 \in Nat \ {0} /\ "cs" \in {"interface", "hid", "cs"}
      BY <1>1, <2>1
    <3>2. CASE DescriptorFrom(e + 1, "cs") = {}
      <4>1. After0(e + 1, "cs") = Len(descs.seq) + 1
        BY <3>1, <3>2, NothingIsMissed
      <4>2. QED
        BY <1>1, <2>1, <4>1
    <3>3. CASE DescriptorFrom(e + 1, "cs") # {}
      <4>1. PICK c \in DescriptorFrom(e + 1, "cs") : TRUE
        BY <3>3
      <4>2. c \in e + 1 .. Len(descs.seq) /\ After0(e + 1, "cs") = c + 1
        BY <3>1, <4>1, OneIsFound DEF FoundAt
      <4>3. QED
        BY <1>1, <2>1, <4>2
    <3>4. QED
      BY <3>2, <3>3
  <2>5. DescriptorFrom(n, "endpoint") # {}
    BY <1>3
  <2>6. CASE descs.seq[e].type = "bulk in"
    <3>1. StreamingTurn(g, n) = IF DescriptorFrom(e + 1, "cs") = {e + 1} /\ g[After0(e + 1, "cs")] = {}
                                THEN {{e}} ELSE g[After0(e + 1, "cs")]
      BY <2>1, <2>5, <2>6 DEF StreamingTurn
    <3>2. QED
      BY <2>1, <2>2, <2>3, <2>4, <2>6, <3>1
  <2>7. CASE descs.seq[e].type # "bulk in"
    <3>1. StreamingTurn(g, n) = g[e + 1]
      BY <2>1, <2>5, <2>7 DEF StreamingTurn
    <3>2. e + 1 \in n + 1 .. Len(descs.seq) + 1
      BY <1>1, <2>1
    <3>3. QED
      BY <2>1, <2>2, <2>3, <2>7, <3>1, <3>2
  <2>8. QED
    BY <2>6, <2>7
<1>4. QED
  BY <1>2, <1>3

LEMMA TurnsLookAhead ==
  ASSUME InRow, NEW n \in 1 .. Len(descs.seq) + 1, NEW g, NEW h,
         \A m \in n + 1 .. Len(descs.seq) + 1 : g[m] = h[m]
  PROVE  StreamingTurn(g, n) = StreamingTurn(h, n)
<1>1. CASE DescriptorFrom(n, "endpoint") = {}
  BY <1>1 DEF StreamingTurn
<1>2. CASE DescriptorFrom(n, "endpoint") # {}
  <2>1. PICK e \in DescriptorFrom(n, "endpoint"), more \in n + 1 .. Len(descs.seq) + 1 :
              /\ descs.seq[e].type # "bulk in" => more = e + 1
              /\ descs.seq[e].type = "bulk in" => more = After0(e + 1, "cs")
    BY <1>2, TurnGoesOn
  <2>2. Max(DescriptorFrom(n, "endpoint")) = e
    <3>1. n \in Nat \ {0}
      BY RowIs
    <3>2. QED
      BY <2>1, <3>1, OneIsFound DEF FoundAt
  <2>3. g[more] = h[more]
    BY <2>1
  <2>4. QED
    BY <1>2, <2>1, <2>2, <2>3 DEF StreamingTurn
<1>3. QED
  BY <1>1, <1>2

LEMMA StreamingIs ==
  ASSUME InRow
  PROVE  \E walk : /\ \A n \in 1 .. Len(descs.seq) + 1 : walk[n] = StreamingTurn(walk, n)
                   /\ \A next : Streaming(next) = walk[next]
<1> DEFINE N == Len(descs.seq)
           From(d) == N + 1 - d .. N + 1
           Solves(g, d) == g = [n \in From(d) |-> StreamingTurn(g, n)]
           walk == CHOOSE g : g = [n \in 1 .. N + 1 |-> StreamingTurn(g, n)]
           T == {d \in Nat : d <= N => \E g : Solves(g, d)}
<1>1. N \in Nat
  BY RowIs
<1>2. 0 \in T
  <2> DEFINE g == [n \in From(0) |-> {}]
  <2>1. \A n \in From(0) : StreamingTurn(g, n) = {}
    <3> SUFFICES ASSUME NEW n \in From(0)
                 PROVE  StreamingTurn(g, n) = {}
      OBVIOUS
    <3>1. n = N + 1
      BY <1>1
    <3>2. DescriptorFrom(n, "endpoint") = {}
      <4>1. n .. N = {}
        BY <1>1, <3>1
      <4>2. QED
        BY <4>1 DEF DescriptorFrom
    <3>3. QED
      BY <3>2 DEF StreamingTurn
  <2>2. Solves(g, 0)
    BY <2>1
  <2>3. QED
    BY <2>2
<1>3. ASSUME NEW d \in Nat, d \in T
      PROVE  d + 1 \in T
  <2> SUFFICES ASSUME d + 1 <= N
               PROVE  \E g : Solves(g, d + 1)
    <3> HIDE DEF Solves, N
    <3>1. QED
      OBVIOUS
  <2>1. PICK g : Solves(g, d)
    BY <1>1, <1>3
  <2> DEFINE first == N + 1 - (d + 1)
             h == [n \in From(d + 1) |-> IF n = first THEN StreamingTurn(g, n) ELSE g[n]]
  <2>2. /\ first \in Nat /\ From(d + 1) \subseteq 1 .. N + 1 /\ first \in From(d + 1)
        /\ \A n \in From(d + 1) : n # first => n \in From(d)
        /\ \A n \in From(d + 1) : \A m \in n + 1 .. N + 1 : m \in From(d) /\ m \in From(d + 1) /\ m # first
    <3> HIDE DEF N
    <3>1. first \in Nat /\ From(d + 1) \subseteq 1 .. N + 1 /\ first \in From(d + 1)
      BY <1>1
    <3>2. \A n \in From(d + 1) : n # first => n \in From(d)
      BY <1>1
    <3>3. \A n \in From(d + 1) : \A m \in n + 1 .. N + 1 : m \in From(d) /\ m \in From(d + 1) /\ m # first
      BY <1>1
    <3>4. QED
      BY <3>1, <3>2, <3>3
  <2> HIDE DEF first
  <2>3. ASSUME NEW n \in From(d + 1)
        PROVE  h[n] = StreamingTurn(h, n)
    <3>1. \A m \in n + 1 .. N + 1 : h[m] = g[m]
      BY <2>2
    <3>2. n \in 1 .. N + 1
      BY <2>2
    <3> HIDE DEF h
    <3>3. StreamingTurn(h, n) = StreamingTurn(g, n)
      BY <3>1, <3>2, TurnsLookAhead
    <3>4. h[n] = StreamingTurn(g, n)
      <4>1. CASE n = first
        BY <4>1 DEF h
      <4>2. CASE n # first
        <5>1. n \in From(d)
          BY <2>2, <4>2
        <5>2. g[n] = StreamingTurn(g, n)
          BY <2>1, <5>1
        <5>3. QED
          BY <4>2, <5>2 DEF h
      <4>3. QED
        BY <4>1, <4>2
    <3>5. QED
      BY <3>3, <3>4
  <2>4. Solves(h, d + 1)
    BY <2>3
  <2> HIDE DEF Solves, h
  <2>5. QED
    BY <2>4
<1>4. \E g : g = [n \in 1 .. N + 1 |-> StreamingTurn(g, n)]
  <2> HIDE DEF T, Solves
  <2>1. Nat \subseteq T
    BY <1>2, <1>3, InductionOver
  <2>2. PICK g : Solves(g, N)
    BY <1>1, <2>1 DEF T
  <2>3. From(N) = 1 .. N + 1
    BY <1>1
  <2> HIDE DEF From
  <2>4. g = [n \in 1 .. N + 1 |-> StreamingTurn(g, n)]
    BY <2>2, <2>3 DEF Solves
  <2>5. QED
    BY <2>4
<1>5. walk = [n \in 1 .. N + 1 |-> StreamingTurn(walk, n)]
  BY <1>4
<1>6. \A next : Streaming(next) = walk[next]
  BY DEF Streaming, StreamingTurn
<1> HIDE DEF walk
<1>7. \A n \in 1 .. N + 1 : walk[n] = StreamingTurn(walk, n)
  BY <1>5
<1>8. QED
  BY <1>6, <1>7

LEMMA StreamingTyped ==
  ASSUME InRow, NEW next \in 1 .. Len(descs.seq) + 1, NEW c \in Streaming(next)
  PROVE  \E e \in 1 .. Len(descs.seq) : c = {e}
<1> DEFINE N == Len(descs.seq)
           One(s) == \E e \in 1 .. N : s = {e}
<1>1. N \in Nat
  BY RowIs
<1>2. PICK walk : /\ \A n \in 1 .. N + 1 : walk[n] = StreamingTurn(walk, n)
                  /\ Streaming(next) = walk[next]
  BY StreamingIs
<1> DEFINE T == {d \in Nat : \A n \in 1 .. N + 1 : N + 1 - n <= d => \A s \in walk[n] : One(s)}
<1>3. ASSUME NEW n \in 1 .. N + 1, \A m \in n + 1 .. N + 1 : \A s \in walk[m] : One(s),
             NEW s \in walk[n]
      PROVE  One(s)
  <2>1. CASE StreamingTurn(walk, n) = {}
    BY <1>2, <1>3, <2>1
  <2>2. CASE \E e \in DescriptorFrom(n, "endpoint"), more \in n + 1 .. N + 1 :
               e \in n .. N /\ StreamingTurn(walk, n) \in {{{e}}, walk[more]}
    <3>1. PICK e \in DescriptorFrom(n, "endpoint"), more \in n + 1 .. N + 1 :
            e \in n .. N /\ StreamingTurn(walk, n) \in {{{e}}, walk[more]}
      BY <2>2
    <3>2. e \in 1 .. N
      BY <1>1, <3>1
    <3>3. s \in {{e}} \/ s \in walk[more]
      BY <1>2, <1>3, <3>1
    <3>4. QED
      BY <1>3, <3>2, <3>3
  <2>3. \/ StreamingTurn(walk, n) = {}
        \/ \E e \in DescriptorFrom(n, "endpoint"), more \in n + 1 .. N + 1 :
             e \in n .. N /\ StreamingTurn(walk, n) \in {{{e}}, walk[more]}
    BY TurnGoesOn
  <2>4. QED
    BY <2>1, <2>2, <2>3
<1> HIDE DEF One
<1>4. 0 \in T
  <2> SUFFICES ASSUME NEW n \in 1 .. N + 1, N + 1 - n <= 0
               PROVE  \A s \in walk[n] : One(s)
    OBVIOUS
  <2>1. \A m \in n + 1 .. N + 1 : \A s \in walk[m] : One(s)
    BY <1>1
  <2>2. QED
    BY <1>3, <2>1
<1>5. ASSUME NEW d \in Nat, d \in T
      PROVE  d + 1 \in T
  <2> SUFFICES ASSUME NEW n \in 1 .. N + 1, N + 1 - n <= d + 1
               PROVE  \A s \in walk[n] : One(s)
    OBVIOUS
  <2>1. \A m \in n + 1 .. N + 1 : \A s \in walk[m] : One(s)
    <3> SUFFICES ASSUME NEW m \in n + 1 .. N + 1
                 PROVE  \A s \in walk[m] : One(s)
      OBVIOUS
    <3>1. m \in 1 .. N + 1 /\ N + 1 - m <= d
      BY <1>1
    <3>2. QED
      BY <1>5, <3>1
  <2>2. QED
    BY <1>3, <2>1
<1> HIDE DEF T
<1>6. N + 1 - next \in T /\ N + 1 - next <= N + 1 - next
  <2>1. N + 1 - next \in Nat
    BY <1>1
  <2>2. QED
    BY <1>4, <1>5, <2>1, InductionOver
<1>7. \A s \in walk[next] : One(s)
  BY <1>6 DEF T
<1>8. QED
  BY <1>2, <1>7 DEF One

LEMMA BehindEndpoint ==
  ASSUME InRow, NEW e \in 1 .. Len(descs.seq), e < Len(descs.seq), NEW type, descs.seq[e + 1].type = type,
         type \in {"cs", "hid"}
  PROVE  DescriptorFrom(e + 1, type) = {e + 1} /\ After0(e + 1, type) = e + 2
<1>1. Len(descs.seq) \in Nat
  BY RowIs
<1>2. e + 1 \in DescriptorFrom(e + 1, type)
  <2>1. e + 1 \in e + 1 .. Len(descs.seq) /\ (e + 1) .. (e + 1) - 1 = {}
    BY <1>1
  <2>2. Matches(e + 1, type)
    BY DEF Matches
  <2>3. QED
    BY <2>1, <2>2 DEF DescriptorFrom
<1>3. FoundAt(e + 1, type, e + 1)
  BY <1>1, <1>2, OneIsFound
<1>4. QED
  BY <1>1, <1>3 DEF FoundAt

LEMMA StreamingFits ==
  ASSUME InRow, NEW i \in 1 .. Len(descs.seq), ClassBehind(i)
  PROVE  \A c \in Streaming(i + 1) : \E e \in EndsFrom(i + 1) : c = {e} /\ descs.seq[e].type = "bulk in"
<1> DEFINE N == Len(descs.seq)
           One(s) == \E e \in EndsFrom(i + 1) : s = {e} /\ descs.seq[e].type = "bulk in"
           Own(n) == \A j \in i + 1 .. n - 1 : ~IsInterface(descs.seq[j])
<1>1. N \in Nat /\ i \in Nat /\ 1 <= i /\ i <= N
  BY RowIs
<1>2. PICK walk : /\ \A n \in 1 .. N + 1 : walk[n] = StreamingTurn(walk, n)
                  /\ Streaming(i + 1) = walk[i + 1]
  BY StreamingIs
<1> HIDE DEF N
<1>0. \A n \in i + 1 .. N + 1 :
        /\ n \in 1 .. N + 1
        /\ \A e \in n .. N : /\ e \in 1 .. N /\ e \in i + 1 .. N /\ (e + 1) - 1 = e /\ (e + 2) - 1 = e + 1
                            /\ \A j \in i + 1 .. e : j \in i + 1 .. n - 1 \/ j \in n .. e
  BY <1>1
<1>00. \A e \in 1 .. N : \A j \in i + 1 .. e + 1 : j \in i + 1 .. e \/ j = e + 1
  BY <1>1
<1> DEFINE T == {d \in Nat : \A n \in i + 1 .. N + 1 : N + 1 - n <= d /\ Own(n) => \A s \in walk[n] : One(s)}
<1>3. ASSUME NEW n \in i + 1 .. N + 1, Own(n),
             \A m \in n + 1 .. N + 1 : Own(m) => \A s \in walk[m] : One(s),
             NEW s \in walk[n]
      PROVE  One(s)
  <2>0. n \in 1 .. N + 1 /\ s \in StreamingTurn(walk, n)
    BY <1>2, <1>3, <1>0, Zenon
  <2>1. PICK e \in DescriptorFrom(n, "endpoint"), more \in n + 1 .. N + 1 :
          /\ e \in n .. N /\ \A j \in n .. e : ~IsInterface(descs.seq[j])
          /\ IsEndpoint(descs.seq[e])
          /\ descs.seq[e].type # "bulk in" => more = e + 1
          /\ descs.seq[e].type = "bulk in" => more = After0(e + 1, "cs")
          /\ StreamingTurn(walk, n) =
               IF descs.seq[e].type = "bulk in" /\ DescriptorFrom(e + 1, "cs") = {e + 1} /\ walk[more] = {}
               THEN {{e}} ELSE walk[more]
    BY <2>0, TurnGoesOn DEF N
  <2>2. \A j \in i + 1 .. e : ~IsInterface(descs.seq[j])
    <3>1. \A j \in i + 1 .. e : j \in i + 1 .. n - 1 \/ j \in n .. e
      BY <1>0, <2>1, Zenon
    <3>2. QED
      BY <1>3, <2>1, <3>1
  <2>3. e \in EndsFrom(i + 1)
    <3>1. e \in i + 1 .. N
      BY <1>0, <2>1, Zenon
    <3>2. QED
      BY <2>1, <2>2, <3>1 DEF EndsFrom, N
  <2>4. Own(more)
    <3>1. CASE descs.seq[e].type # "bulk in"
      <4>1. more = e + 1 /\ more - 1 = e
        BY <1>0, <2>1, <3>1, Zenon
      <4>2. QED
        BY <2>2, <4>1
    <3>2. CASE descs.seq[e].type = "bulk in"
      <4>1. e < N /\ descs.seq[e + 1].type = "cs"
        BY <2>3, <3>2 DEF ClassBehind, N
      <4>2. e \in 1 .. N
        BY <1>0, <2>1, Zenon
      <4>3. more = e + 2
        BY <2>1, <3>2, <4>1, <4>2, BehindEndpoint DEF N
      <4>4. ~IsInterface(descs.seq[e + 1])
        BY <4>1 DEF IsInterface
      <4>5. \A j \in i + 1 .. more - 1 : j \in i + 1 .. e \/ j = e + 1
        <5>1. more - 1 = e + 1
          BY <1>0, <2>1, <4>3, Zenon
        <5>2. \A j \in i + 1 .. e + 1 : j \in i + 1 .. e \/ j = e + 1
          BY <1>00, <4>2, Zenon
        <5>3. QED
          BY <5>1, <5>2, Zenon
      <4>6. QED
        BY <2>2, <4>4, <4>5
    <3>3. QED
      BY <3>1, <3>2
  <2>5. CASE s \in walk[more]
    BY <1>3, <2>4, <2>5
  <2>6. CASE s \notin walk[more]
    <3>1. s \in {{e}} /\ descs.seq[e].type = "bulk in"
      BY <2>0, <2>1, <2>6
    <3>2. QED
      BY <2>3, <3>1
  <2>7. QED
    BY <2>5, <2>6
<1> HIDE DEF One, Own
<1>4. 0 \in T
  <2> SUFFICES ASSUME NEW n \in i + 1 .. N + 1, N + 1 - n <= 0, Own(n)
               PROVE  \A s \in walk[n] : One(s)
    OBVIOUS
  <2>1. \A m \in n + 1 .. N + 1 : Own(m) => \A s \in walk[m] : One(s)
    BY <1>1
  <2>2. QED
    BY <1>3, <2>1
<1>5. ASSUME NEW d \in Nat, d \in T
      PROVE  d + 1 \in T
  <2> SUFFICES ASSUME NEW n \in i + 1 .. N + 1, N + 1 - n <= d + 1, Own(n)
               PROVE  \A s \in walk[n] : One(s)
    OBVIOUS
  <2>1. \A m \in n + 1 .. N + 1 : Own(m) => \A s \in walk[m] : One(s)
    <3> SUFFICES ASSUME NEW m \in n + 1 .. N + 1, Own(m)
                 PROVE  \A s \in walk[m] : One(s)
      OBVIOUS
    <3>1. m \in i + 1 .. N + 1 /\ N + 1 - m <= d
      BY <1>1
    <3>2. QED
      BY <1>5, <3>1
  <2>2. QED
    BY <1>3, <2>1
<1> HIDE DEF T
<1>6. N + 1 - (i + 1) \in T /\ N + 1 - (i + 1) <= N + 1 - (i + 1)
  <2>1. N + 1 - (i + 1) \in Nat
    BY <1>1
  <2>2. QED
    BY <1>4, <1>5, <2>1, InductionOver
<1>7. Own(i + 1) /\ i + 1 \in i + 1 .. N + 1
  BY <1>1 DEF Own
<1>8. \A s \in walk[i + 1] : One(s)
  BY <1>6, <1>7 DEF T
<1>9. QED
  BY <1>2, <1>8 DEF One

-----------------------------------------------------------------------------
(* What each driver chooses.                                                  *)

LEMMA OneFits ==
  ASSUME NEW n, NEW type, NEW e \in EndsFrom(n), descs.seq[e].type = type
  PROVE  FitsFrom(n, {type}, {e})
<1>1. Cardinality({e}) = 1
  BY FS_Singleton
<1>2. {descs.seq[a].type : a \in {e}} = {type}
  OBVIOUS
<1>3. QED
  BY <1>1, <1>2 DEF FitsFrom

LEMMA TwoFit ==
  ASSUME NEW n, NEW in, NEW out, NEW a \in EndsFrom(n), descs.seq[a].type = in,
         NEW b \in EndsFrom(n), descs.seq[b].type = out
  PROVE  FitsFrom(n, {in, out}, {a} \cup {b})
<1>1. IsFiniteSet({a}) /\ Cardinality({a}) = 1
  BY FS_Singleton
<1>2. Cardinality({a} \cup {b}) \in {1, 2}
  BY <1>1, FS_AddElement
<1>3. {descs.seq[e].type : e \in {a} \cup {b}} = {in, out}
  OBVIOUS
<1>4. QED
  BY <1>2, <1>3 DEF FitsFrom

LEMMA OfTypeIs ==
  ASSUME InRow, NEW n \in 1 .. Len(descs.seq) + 1, NEW type
  PROVE  /\ OfType(n, type) = {e \in EndsFrom(n) : descs.seq[e].type = type}
         /\ OfType(n, type) \subseteq Nat /\ IsFiniteSet(OfType(n, type))
<1>1. OfType(n, type) = {e \in EndsFrom(n) : descs.seq[e].type = type}
  BY EndpointsFromIs DEF OfType
<1>2. Len(descs.seq) \in Nat /\ n \in Nat
  BY RowIs
<1>3. OfType(n, type) \in SUBSET (n .. Len(descs.seq))
  BY <1>1 DEF EndsFrom
<1>4. IsFiniteSet(n .. Len(descs.seq)) /\ n .. Len(descs.seq) \subseteq Nat
  <2>1. n \in Int /\ Len(descs.seq) \in Int
    BY <1>2
  <2>2. IsFiniteSet(n .. Len(descs.seq))
    BY <2>1, FS_Interval, Zenon
  <2>3. n .. Len(descs.seq) \subseteq Nat
    BY <1>2
  <2>4. QED
    BY <2>2, <2>3
<1>5. QED
  BY <1>1, <1>3, <1>4, FS_Subset

LEMMA FirstOfIs ==
  ASSUME InRow, NEW n \in 1 .. Len(descs.seq) + 1, NEW type
  PROVE  \A c \in FirstOf(n, type) : FitsFrom(n, {type}, c)
<1> SUFFICES ASSUME NEW c \in FirstOf(n, type)
             PROVE  FitsFrom(n, {type}, c)
  OBVIOUS
<1>1. OfType(n, type) # {} /\ c = {Min(OfType(n, type))}
  BY DEF FirstOf
<1>2. Min(OfType(n, type)) \in OfType(n, type)
  BY <1>1, OfTypeIs, LeastIs
<1>3. PICK e \in EndsFrom(n) : c = {e} /\ descs.seq[e].type = type
  BY <1>1, <1>2, OfTypeIs
<1>4. QED
  BY <1>3, OneFits

LEMMA OnlyOne ==
  ASSUME InRow, NEW n \in 1 .. Len(descs.seq) + 1, NEW type, Cardinality(OfType(n, type)) = 1
  PROVE  \E e \in EndsFrom(n) : OfType(n, type) = {e} /\ descs.seq[e].type = type
<1>1. PICK e : OfType(n, type) = {e}
  BY OfTypeIs, FS_Singleton
<1>2. QED
  BY <1>1, OfTypeIs

LEMMA PairIs ==
  ASSUME InRow, NEW n \in 1 .. Len(descs.seq) + 1, NEW in, NEW out
  PROVE  \A c \in Pair(n, in, out) : FitsFrom(n, {in, out}, c)
<1> SUFFICES ASSUME NEW c \in Pair(n, in, out)
             PROVE  FitsFrom(n, {in, out}, c)
  OBVIOUS
<1>1. /\ Cardinality(OfType(n, in)) = 1 /\ Cardinality(OfType(n, out)) = 1
      /\ c = OfType(n, in) \cup OfType(n, out)
  BY DEF Pair
<1>2. PICK a \in EndsFrom(n) : OfType(n, in) = {a} /\ descs.seq[a].type = in
  BY <1>1, OnlyOne
<1>3. PICK b \in EndsFrom(n) : OfType(n, out) = {b} /\ descs.seq[b].type = out
  BY <1>1, OnlyOne
<1>4. QED
  BY <1>1, <1>2, <1>3, TwoFit

LEMMA NoneOrOne == \A m \in Nat : m <= 1 => m \in {0, 1}
OBVIOUS

\* One to the host, and at most one to the device.
LEMMA StickIs ==
  ASSUME InRow, NEW n \in 1 .. Len(descs.seq) + 1,
         Cardinality(OfType(n, "int in")) = 1, Cardinality(OfType(n, "int out")) <= 1
  PROVE  \/ FitsFrom(n, {"int in"}, OfType(n, "int in") \cup OfType(n, "int out"))
         \/ FitsFrom(n, {"int in", "int out"}, OfType(n, "int in") \cup OfType(n, "int out"))
<1>1. PICK a \in EndsFrom(n) : OfType(n, "int in") = {a} /\ descs.seq[a].type = "int in"
  BY OnlyOne
<1>2. IsFiniteSet(OfType(n, "int out")) /\ Cardinality(OfType(n, "int out")) \in Nat
  BY OfTypeIs, FS_CardinalityType
<1>3. CASE Cardinality(OfType(n, "int out")) = 1
  <2>1. PICK b \in EndsFrom(n) : OfType(n, "int out") = {b} /\ descs.seq[b].type = "int out"
    BY <1>3, OnlyOne
  <2>2. FitsFrom(n, {"int in", "int out"}, {a} \cup {b})
    BY <1>1, <2>1, TwoFit
  <2>3. QED
    BY <1>1, <2>1, <2>2
<1>4. CASE Cardinality(OfType(n, "int out")) = 0
  <2>1. OfType(n, "int out") = {}
    BY <1>2, <1>4, FS_EmptySet
  <2>2. FitsFrom(n, {"int in"}, {a})
    BY <1>1, OneFits
  <2>3. QED
    BY <1>1, <2>1, <2>2
<1>5. Cardinality(OfType(n, "int out")) \in {0, 1}
  BY <1>2, NoneOrOne, Zenon
<1>6. QED
  BY <1>3, <1>4, <1>5

LEMMA BehindHIDIs ==
  ASSUME InRow, NEW next \in 1 .. Len(descs.seq) + 1
  PROVE  BehindHID(next) \subseteq 1 .. Len(descs.seq) + 1
<1>1. Len(descs.seq) \in Nat /\ next \in Nat \ {0}
  BY RowIs
<1>2. SUFFICES ASSUME DescriptorFrom(next, "hid") # {}
               PROVE  After0(next, "hid") \in 1 .. Len(descs.seq) + 1
  BY DEF BehindHID
<1>3. PICK i \in DescriptorFrom(next, "hid") : TRUE
  BY <1>2
<1>4. i \in next .. Len(descs.seq) /\ After0(next, "hid") = i + 1
  BY <1>1, <1>3, OneIsFound DEF FoundAt
<1>5. QED
  BY <1>1, <1>4

LEMMA ChoiceIs ==
  ASSUME InRow, NEW f, f.next \in 1 .. Len(descs.seq) + 1, f.driver \in Drivers \cup {"lan"}, NEW c \in Choice(f)
  PROVE  \/ f.driver \in {"hub", "keyboard"} /\ FitsFrom(f.next, {"int in"}, c)
         \/ f.driver = "mouse" /\ \E m \in BehindHID(f.next) : FitsFrom(m, {"int in"}, c)
         \/ f.driver = "gamepad" /\ \E m \in BehindHID(f.next) :
              FitsFrom(m, {"int in"}, c) \/ FitsFrom(m, {"int in", "int out"}, c)
         \/ f.driver \in {"storage", "lan"} /\ FitsFrom(f.next, {"bulk in", "bulk out"}, c)
         \/ f.driver = "midi" /\ c \in Streaming(f.next)
<1>1. CASE f.driver \in {"hub", "keyboard"}
  <2>1. c \in FirstOf(f.next, "int in")
    BY <1>1 DEF Choice
  <2>2. QED
    BY <1>1, <2>1, FirstOfIs
<1>2. CASE f.driver = "mouse"
  <2>1. c \in UNION {FirstOf(m, "int in") : m \in BehindHID(f.next)}
    BY <1>2 DEF Choice
  <2>2. PICK m \in BehindHID(f.next) : c \in FirstOf(m, "int in")
    BY <2>1
  <2>3. m \in 1 .. Len(descs.seq) + 1
    BY <2>2, BehindHIDIs
  <2>4. FitsFrom(m, {"int in"}, c)
    BY <2>2, <2>3, FirstOfIs
  <2>5. QED
    BY <1>2, <2>4
<1>3. CASE f.driver = "gamepad"
  <2>1. c \in {OfType(m, "int in") \cup OfType(m, "int out") : m \in
                 {k \in BehindHID(f.next) :
                    Cardinality(OfType(k, "int in")) = 1 /\ Cardinality(OfType(k, "int out")) <= 1}}
    BY <1>3 DEF Choice
  <2>2. PICK m \in BehindHID(f.next) : /\ c = OfType(m, "int in") \cup OfType(m, "int out")
                                       /\ Cardinality(OfType(m, "int in")) = 1
                                       /\ Cardinality(OfType(m, "int out")) <= 1
    BY <2>1
  <2>3. m \in 1 .. Len(descs.seq) + 1
    BY <2>2, BehindHIDIs
  <2>4. FitsFrom(m, {"int in"}, c) \/ FitsFrom(m, {"int in", "int out"}, c)
    BY <2>2, <2>3, StickIs
  <2>5. QED
    BY <1>3, <2>4
<1>4. CASE f.driver \in {"storage", "lan"}
  <2>1. c \in Pair(f.next, "bulk in", "bulk out")
    BY <1>4 DEF Choice
  <2>2. FitsFrom(f.next, {"bulk in", "bulk out"}, c)
    BY <2>1, PairIs
  <2>3. QED
    BY <1>4, <2>2
<1>5. CASE f.driver = "midi"
  BY <1>5 DEF Choice
<1>6. QED
  BY <1>1, <1>2, <1>3, <1>4, <1>5 DEF Drivers

LEMMA EndsAreNumbers ==
  ASSUME InRow, NEW n \in 1 .. Len(descs.seq) + 1
  PROVE  EndsFrom(n) \subseteq Nat
<1>1. Len(descs.seq) \in Nat /\ n \in Nat
  BY RowIs
<1>2. n .. Len(descs.seq) \subseteq Nat
  BY <1>1
<1>3. QED
  BY <1>2 DEF EndsFrom

LEMMA ChoiceTyped ==
  ASSUME InRow, NEW f, f.next \in 1 .. Len(descs.seq) + 1, f.driver \in Drivers \cup {"lan"}, NEW c \in Choice(f)
  PROVE  c \subseteq Nat
<1>1. CASE \E n \in 1 .. Len(descs.seq) + 1 : \E types : FitsFrom(n, types, c)
  BY <1>1, EndsAreNumbers DEF FitsFrom
<1>2. CASE c \in Streaming(f.next)
  <2>1. PICK e \in 1 .. Len(descs.seq) : c = {e}
    BY <1>2, StreamingTyped
  <2>2. e \in Nat
    BY RowIs
  <2>3. QED
    BY <2>1, <2>2
<1>3. BehindHID(f.next) \subseteq 1 .. Len(descs.seq) + 1
  BY BehindHIDIs
<1>4. QED
  BY <1>1, <1>2, <1>3, ChoiceIs

LEMMA FitsOwn ==
  ASSUME NEW f, f.next = f.interface + 1, NEW types \in Wants(f.driver), NEW c, FitsFrom(f.next, types, c)
  PROVE  OwnEndpoints(f, c)
<1>1. EndsFrom(f.next) = EndpointsOf(f.interface)
  BY DEF EndsFrom, EndpointsOf, IsInterface
<1>2. QED
  BY <1>1 DEF FitsFrom, OwnEndpoints

LEMMA ChoiceFits ==
  ASSUME InRow, Orderly, NEW f, Stands(f), NEW c \in Choice(f)
  PROVE  OwnEndpoints(f, c)
<1> DEFINE i == f.interface
<1>1. /\ i \in 1 .. Len(descs.seq) /\ f.next = i + 1 /\ IsInterface(descs.seq[i])
      /\ f.driver \in Drivers \cup {"lan"} /\ (f.driver # "lan" => descs.seq[i].name = f.driver)
  BY DEF Stands
<1>2. Len(descs.seq) \in Nat /\ DOMAIN descs.seq = 1 .. Len(descs.seq)
  BY RowIs
<1>3. f.next \in 1 .. Len(descs.seq) + 1
  BY <1>1, <1>2
<1>4. /\ f.driver \in {"hub", "keyboard", "mouse"} => {"int in"} \in Wants(f.driver)
      /\ f.driver = "gamepad" => {"int in"} \in Wants(f.driver) /\ {"int in", "int out"} \in Wants(f.driver)
      /\ f.driver \in {"storage", "lan"} => {"bulk in", "bulk out"} \in Wants(f.driver)
      /\ f.driver = "midi" => {"bulk in"} \in Wants(f.driver)
  BY DEF Wants
<1>5. CASE f.driver \in {"hub", "keyboard"} /\ FitsFrom(f.next, {"int in"}, c)
  BY <1>1, <1>4, <1>5, FitsOwn
<1>6. CASE f.driver \in {"storage", "lan"} /\ FitsFrom(f.next, {"bulk in", "bulk out"}, c)
  BY <1>1, <1>4, <1>6, FitsOwn
<1>7. ASSUME f.driver \in {"mouse", "gamepad"}, NEW m \in BehindHID(f.next), NEW types \in Wants(f.driver),
             FitsFrom(m, types, c)
      PROVE  OwnEndpoints(f, c)
  <2>1. i < Len(descs.seq) /\ descs.seq[i + 1].type = "hid"
    <3>1. i \in InterfacesOf({"mouse", "gamepad"})
      BY <1>1, <1>2, <1>7 DEF InterfacesOf, IsInterface
    <3>2. QED
      BY <3>1 DEF Orderly
  <2>2. DescriptorFrom(i + 1, "hid") = {i + 1} /\ After0(i + 1, "hid") = i + 2
    BY <1>1, <2>1, BehindEndpoint
  <2>3. m = i + 2
    BY <1>1, <1>7, <2>2 DEF BehindHID
  <2>4. EndsFrom(i + 2) \subseteq EndpointsOf(i)
    <3> SUFFICES ASSUME NEW e \in EndsFrom(i + 2)
                 PROVE  e \in EndpointsOf(i)
      OBVIOUS
    <3>1. e \in i + 2 .. Len(descs.seq) /\ IsEndpoint(descs.seq[e]) /\ \A j \in i + 2 .. e : ~IsInterface(descs.seq[j])
      BY DEF EndsFrom
    <3>2. e \in i + 1 .. Len(descs.seq) /\ \A j \in i + 1 .. e : j = i + 1 \/ j \in i + 2 .. e
      BY <1>1, <1>2, <3>1
    <3>3. ~IsInterface(descs.seq[i + 1])
      BY <2>1 DEF IsInterface
    <3>4. QED
      BY <3>1, <3>2, <3>3 DEF EndpointsOf, IsInterface
  <2>5. QED
    BY <1>7, <2>3, <2>4 DEF FitsFrom, OwnEndpoints
<1>8. CASE f.driver = "midi" /\ c \in Streaming(f.next)
  <2>1. ClassBehind(i)
    <3>1. i \in InterfacesOf({"midi"})
      BY <1>1, <1>2, <1>8 DEF InterfacesOf, IsInterface
    <3>2. EndsFrom(i + 1) = EndpointsOf(i)
      BY DEF EndsFrom, EndpointsOf, IsInterface
    <3>3. QED
      BY <3>1, <3>2 DEF Orderly, ClassBehind
  <2>2. PICK e \in EndsFrom(f.next) : c = {e} /\ descs.seq[e].type = "bulk in"
    <3>1. i \in 1 .. Len(descs.seq)
      BY <1>1
    <3> HIDE DEF i
    <3>2. \A s \in Streaming(i + 1) : \E e \in EndsFrom(i + 1) : s = {e} /\ descs.seq[e].type = "bulk in"
      BY <2>1, <3>1, StreamingFits
    <3>3. QED
      BY <1>1, <1>8, <3>2
  <2>3. FitsFrom(f.next, {"bulk in"}, c)
    BY <2>2, OneFits
  <2>4. QED
    BY <1>1, <1>4, <1>8, <2>3, FitsOwn
<1>9. QED
  BY <1>1, <1>3, <1>4, <1>5, <1>6, <1>7, <1>8, ChoiceIs

-----------------------------------------------------------------------------
(* The walk through the interfaces.                                           *)

LEMMA DeviceIs ==
  ASSUME usbdev \in DeviceTypes
  PROVE  /\ usbdev.next \in Nat \ {0} /\ usbdev.ucInterfaceNumber \in Nat /\ usbdev.at \in Nat \ {0}
         /\ usbdev.m_pFunction \in Seq(FunctionTypes)
         /\ Len(usbdev.m_pFunction) \in Nat /\ DOMAIN usbdev.m_pFunction = 1 .. Len(usbdev.m_pFunction)
         /\ \A k \in DOMAIN usbdev.m_pFunction : usbdev.m_pFunction[k] \in FunctionTypes
<1>1. /\ usbdev.next \in Nat \ {0} /\ usbdev.ucInterfaceNumber \in Nat /\ usbdev.at \in Nat \ {0}
      /\ usbdev.m_pFunction \in Seq(FunctionTypes)
  BY DEF DeviceTypes
<1> DEFINE fs == usbdev.m_pFunction
<1>2. fs \in Seq(FunctionTypes)
  BY <1>1
<1> HIDE DEF fs
<1>3. /\ Len(fs) \in Nat /\ DOMAIN fs = 1 .. Len(fs) /\ \A k \in DOMAIN fs : fs[k] \in FunctionTypes
  BY <1>2, LenProperties, ElementOfSeq
<1>4. QED
  BY <1>1, <1>3 DEF fs

LEMMA SupportedIsFinite ==
  ASSUME InRow
  PROVE  /\ IsFiniteSet(Supported) /\ Supported \subseteq 1 .. Len(descs.seq)
         /\ \A n \in Nat : IsFiniteSet(SupportedBefore(n)) /\ Cardinality(SupportedBefore(n)) <= Cardinality(Supported)
         /\ \A n \in Nat : Cardinality(SupportedBefore(n)) \in Nat
         /\ Cardinality(Supported) \in Nat
<1>1. Len(descs.seq) \in Nat /\ DOMAIN descs.seq = 1 .. Len(descs.seq)
  BY RowIs
<1>2. Supported \subseteq 1 .. Len(descs.seq)
  BY <1>1 DEF Supported, InterfacesOf
<1>3. IsFiniteSet(1 .. Len(descs.seq))
  <2>1. 1 \in Int /\ Len(descs.seq) \in Int
    BY <1>1
  <2>2. QED
    BY <2>1, FS_Interval, Zenon
<1>4. IsFiniteSet(Supported)
  BY <1>2, <1>3, FS_Subset
<1>5. \A n \in Nat : SupportedBefore(n) \in SUBSET Supported
  BY DEF SupportedBefore
<1>6. \A n \in Nat : IsFiniteSet(SupportedBefore(n)) /\ Cardinality(SupportedBefore(n)) <= Cardinality(Supported)
  BY <1>4, <1>5, FS_Subset
<1>7. QED
  BY <1>2, <1>4, <1>6, FS_CardinalityType

LEMMA InvariantOwns ==
  ASSUME ConfigurationI
  PROVE  FunctionsOwnEndpoints
<1> DEFINE fs == usbdev.m_pFunction
<1>1. Orderly => \A k \in DOMAIN fs : fs[k].state = "configured" =>
         /\ fs[k].endpoints \subseteq EndpointsOf(fs[k].interface)
         /\ {descs.seq[e].type : e \in fs[k].endpoints} \in Wants(fs[k].driver)
         /\ Cardinality(fs[k].endpoints) <= 2
  BY DEF ConfigurationI, ChosenI, OwnEndpoints
<1>2. \A k, l \in DOMAIN fs : k < l => descs.seq[fs[k].interface].num < descs.seq[fs[l].interface].num
  BY DEF ConfigurationI, FunctionsStand, NumberOf
<1>3. usbdev.pc = "configure" /\ descs.vendor # "lan" =>
         /\ {fs[k].interface : k \in DOMAIN fs} \subseteq Supported
         /\ Len(fs) = Min({Cardinality(Supported), USBDEV_MAX_FUNCTIONS})
  BY DEF ConfigurationI, WalkI, AllSupported
<1>4. QED
  BY <1>1, <1>2, <1>3 DEF FunctionsOwnEndpoints

LEMMA NewDeviceIs ==
  ASSUME InterfacesInOrder, usbdev = NewDevice
  PROVE  ConfigurationI
<1>1. InRow
  BY DEF InterfacesInOrder
<1>2. usbdev \in DeviceTypes
  <2>1. <<>> \in Seq(FunctionTypes)
    BY EmptySeq
  <2>2. QED
    BY <2>1 DEF NewDevice, DeviceTypes
<1>3. /\ usbdev.m_pFunction = <<>> /\ DOMAIN usbdev.m_pFunction = {} /\ Len(usbdev.m_pFunction) = 0
      /\ usbdev.pc = "parse" /\ usbdev.next = 1 /\ usbdev.ucInterfaceNumber = 0
  BY DEF NewDevice
<1>4. Cardinality(SupportedBefore(1)) = 0
  <2>1. SupportedBefore(1) = {}
    <3>1. \A i \in 1 .. Len(descs.seq) : ~(i < 1)
      BY <1>1, RowIs
    <3>2. QED
      BY <1>1, <3>1, SupportedIsFinite DEF SupportedBefore
  <2>2. QED
    BY <2>1, FS_EmptySet
<1>5. Seen(1, 0)
  <2>1. 1 .. 1 - 1 = {}
    OBVIOUS
  <2>2. QED
    BY <2>1 DEF Seen
<1>6. 1 \in 1 .. Len(descs.seq) + 1 /\ 0 < USBDEV_MAX_FUNCTIONS
  <2>1. Len(descs.seq) \in Nat
    BY <1>1, RowIs
  <2>2. QED
    BY <2>1, ConfigurationAssumption
<1>7. FunctionsStand /\ ChosenI
  BY <1>3 DEF FunctionsStand, ChosenI
<1>8. WalkI
  BY <1>3, <1>4, <1>5, <1>6 DEF WalkI, AllSupported
<1>9. QED
  BY <1>2, <1>7, <1>8 DEF ConfigurationI

LEMMA ConfigurationStarts == ConfigurationInit => ConfigurationI
<1> SUFFICES ASSUME ConfigurationInit
             PROVE  ConfigurationI
  OBVIOUS
<1>1. PICK n \in 1 .. MaxSettings : \E vendor \in {"lan", "any"}, lengths \in {"right", "wrong"} :
        \E settings \in [1 .. n -> Settings], fresh \in [1 .. n -> BOOLEAN] :
          descs = [seq |-> Configuration(settings, fresh), vendor |-> vendor, lengths |-> lengths]
  BY DEF ConfigurationInit
<1>2. PICK settings \in [1 .. n -> Settings], fresh \in [1 .. n -> BOOLEAN] :
        descs.seq = Configuration(settings, fresh)
  BY <1>1
<1>3. n \in Nat
  BY ConfigurationAssumption
<1>4. NumberedUpTo(descs.seq, InterfaceNumber(fresh, n))
  BY <1>2, <1>3, ConfigurationIs
<1>5. InRow
  BY <1>4 DEF NumberedUpTo, InRow
<1>6. InterfacesInOrder
  <2>1. DOMAIN descs.seq = 1 .. Len(descs.seq)
    BY <1>5, RowIs
  <2>2. QED
    BY <1>4, <1>5, <2>1 DEF NumberedUpTo, InterfacesInOrder
<1>7. usbdev = NewDevice
  BY DEF ConfigurationInit
<1>8. QED
  BY <1>6, <1>7, NewDeviceIs

LEMMA NoDescriptors ==
  ASSUME usbdev = NewDevice, descs.seq = <<>>
  PROVE  ConfigurationI
<1>1. descs.seq \in Seq(Descs) /\ Len(descs.seq) = 0
  BY EmptySeq
<1>2. 1 .. Len(descs.seq) = {}
  BY <1>1
<1>3. InterfacesInOrder
  BY <1>1, <1>2 DEF InterfacesInOrder, InRow
<1>4. QED
  BY <1>3, NewDeviceIs

LEMMA RowStays ==
  ASSUME descs' = descs
  PROVE  /\ Orderly' <=> Orderly
         /\ \A f, c : OwnEndpoints(f, c)' <=> OwnEndpoints(f, c)
         /\ \A f : Stands(f)' <=> Stands(f)
<1>1. Orderly' <=> Orderly
  BY DEF Orderly, InterfacesOf, EndpointsOf
<1>2. ASSUME NEW f, NEW c
      PROVE  OwnEndpoints(f, c)' <=> OwnEndpoints(f, c)
  BY DEF OwnEndpoints, EndpointsOf
<1>3. \A f : Stands(f)' <=> Stands(f)
  BY DEF Stands
<1>4. QED
  BY <1>1, <1>2, <1>3

\* Steps that only change where the device is.
LEMMA OnlyMoves ==
  ASSUME ConfigurationI, NEW pc \in {"interfaces", "configure", "ready", "failed"},
         usbdev' = [usbdev EXCEPT !.pc = pc], descs' = descs,
         pc = "interfaces" => usbdev.pc = "parse", pc # "configure"
  PROVE  ConfigurationI'
<1>1. usbdev \in DeviceTypes /\ InterfacesInOrder /\ FunctionsStand /\ WalkI /\ ChosenI
  BY DEF ConfigurationI
<1>2. /\ usbdev' \in DeviceTypes /\ usbdev'.pc = pc /\ usbdev'.next = usbdev.next
      /\ usbdev'.ucInterfaceNumber = usbdev.ucInterfaceNumber /\ usbdev'.m_pFunction = usbdev.m_pFunction
  BY <1>1 DEF DeviceTypes
<1>3. InterfacesInOrder'
  BY <1>1 DEF InterfacesInOrder, InRow
<1>4. FunctionsStand'
  BY <1>1, <1>2 DEF FunctionsStand, NumberOf, Stands
<1>5. ChosenI'
  BY <1>1, <1>2, RowStays DEF ChosenI
<1>6. WalkI'
  BY <1>1, <1>2, ZenonT(40) DEF WalkI, Seen, AllSupported, SupportedBefore, Supported, InterfacesOf
<1>7. QED
  BY <1>2, <1>3, <1>4, <1>5, <1>6 DEF ConfigurationI

LEMMA ParseKeeps == ConfigurationI /\ Parse => ConfigurationI'
<1> SUFFICES ASSUME ConfigurationI, Parse
             PROVE  ConfigurationI'
  OBVIOUS
<1>1. PICK pc \in {"interfaces", "failed"} : usbdev' = [usbdev EXCEPT !.pc = pc]
  BY DEF Parse
<1>2. usbdev.pc = "parse" /\ descs' = descs
  BY DEF Parse
<1>3. QED
  BY <1>1, <1>2, OnlyMoves

LEMMA Configured0Keeps == ConfigurationI /\ Configured0 => ConfigurationI'
<1> SUFFICES ASSUME ConfigurationI, Configured0
             PROVE  ConfigurationI'
  OBVIOUS
<1>1. PICK pc \in {"ready", "failed"} : usbdev' = [usbdev EXCEPT !.pc = pc]
  BY DEF Configured0
<1>2. descs' = descs
  BY DEF Configured0
<1>3. QED
  BY <1>1, <1>2, OnlyMoves

LEMMA ConfigureFunctionIs ==
  ASSUME ConfigurationI, NEW done \in BOOLEAN, ConfigureFunction(done)
  PROVE  \E a \in DOMAIN usbdev.m_pFunction, g \in FunctionTypes :
           /\ usbdev' \in DeviceTypes /\ usbdev'.pc = "configure" /\ usbdev.pc = "configure"
           /\ usbdev'.ucInterfaceNumber = usbdev.ucInterfaceNumber
           /\ usbdev'.m_pFunction = [usbdev.m_pFunction EXCEPT ![a] = g]
           /\ g.driver = usbdev.m_pFunction[a].driver /\ g.interface = usbdev.m_pFunction[a].interface
           /\ g.next = usbdev.m_pFunction[a].next
           /\ g.state = "configured" => g.endpoints \in Choice(usbdev.m_pFunction[a])
<1> DEFINE fs == usbdev.m_pFunction
           a == usbdev.at
           f == fs[a]
           chosen == CHOOSE e \in Choice(f) : TRUE
           g == IF Choice(f) = {} \/ ~done THEN [f EXCEPT !.state = IF done THEN "unfit" ELSE "failed"]
                ELSE [f EXCEPT !.state = "configured", !.endpoints = chosen]
<1>1. usbdev \in DeviceTypes /\ InRow /\ FunctionsStand
  BY DEF ConfigurationI, InterfacesInOrder
<1>2. a \in DOMAIN fs /\ f \in FunctionTypes /\ a \in Nat \ {0}
  BY <1>1, DeviceIs DEF ConfigureFunction
<1>3. Stands(f)
  BY <1>1, <1>2 DEF FunctionsStand
<1>4. f.next \in 1 .. Len(descs.seq) + 1 /\ f.driver \in Drivers \cup {"lan"}
  <2>1. f.interface \in 1 .. Len(descs.seq) /\ f.next = f.interface + 1 /\ f.driver \in Drivers \cup {"lan"}
    BY <1>3 DEF Stands
  <2>2. Len(descs.seq) \in Nat
    BY <1>1, RowIs
  <2> HIDE DEF f
  <2>3. QED
    BY <2>1, <2>2
<1>5. Choice(f) # {} => chosen \in Choice(f) /\ chosen \in SUBSET Nat
  <2> SUFFICES ASSUME Choice(f) # {}
               PROVE  chosen \in Choice(f) /\ chosen \in SUBSET Nat
    OBVIOUS
  <2>1. chosen \in Choice(f)
    OBVIOUS
  <2> HIDE DEF f, chosen
  <2>2. chosen \subseteq Nat
    BY <1>1, <1>4, <2>1, ChoiceTyped
  <2>3. QED
    BY <2>1, <2>2
<1>6. /\ usbdev' = [usbdev EXCEPT !.at = @ + 1, !.m_pFunction[usbdev.at] = g]
      /\ usbdev.pc = "configure"
  BY DEF ConfigureFunction
<1> HIDE DEF chosen, f
<1>7. /\ g \in FunctionTypes /\ g.driver = f.driver /\ g.interface = f.interface /\ g.next = f.next
      /\ g.state = "configured" => g.endpoints \in Choice(f)
  <2>1. CASE Choice(f) = {} \/ ~done
    <3>1. PICK state \in {"unfit", "failed"} : g = [f EXCEPT !.state = state]
      BY <2>1
    <3> HIDE DEF g
    <3>2. QED
      BY <1>2, <3>1 DEF FunctionTypes
  <2>2. CASE ~(Choice(f) = {} \/ ~done)
    <3>1. /\ g = [f EXCEPT !.state = "configured", !.endpoints = chosen]
          /\ chosen \in Choice(f) /\ chosen \in SUBSET Nat
      BY <1>5, <2>2
    <3> HIDE DEF g
    <3>2. QED
      BY <1>2, <3>1 DEF FunctionTypes
  <2>3. QED
    BY <2>1, <2>2
<1> HIDE DEF g
<1>8. [fs EXCEPT ![a] = g] \in Seq(FunctionTypes)
  <2>1. fs \in Seq(FunctionTypes) /\ a \in 1 .. Len(fs)
    BY <1>1, <1>2, DeviceIs
  <2> HIDE DEF fs, a
  <2>2. QED
    BY <1>7, <2>1, ExceptSeq
<1>9. /\ usbdev' \in DeviceTypes /\ usbdev'.pc = "configure"
      /\ usbdev'.ucInterfaceNumber = usbdev.ucInterfaceNumber
      /\ usbdev'.m_pFunction = [fs EXCEPT ![a] = g]
  <2>1. a + 1 \in Nat \ {0}
    BY <1>2
  <2>2. usbdev' = [usbdev EXCEPT !.at = a + 1, !.m_pFunction = [fs EXCEPT ![a] = g]]
    BY <1>1, <1>6 DEF DeviceTypes
  <2> DEFINE gs == [fs EXCEPT ![a] = g]
  <2>3. gs \in Seq(FunctionTypes) /\ usbdev' = [usbdev EXCEPT !.at = a + 1, !.m_pFunction = gs]
    BY <1>8, <2>2
  <2> HIDE DEF gs
  <2>4. /\ usbdev' \in DeviceTypes /\ usbdev'.pc = usbdev.pc
        /\ usbdev'.ucInterfaceNumber = usbdev.ucInterfaceNumber /\ usbdev'.m_pFunction = gs
    BY <1>1, <2>1, <2>3 DEF DeviceTypes
  <2>5. QED
    BY <1>6, <2>4 DEF gs
<1>10. QED
  BY <1>2, <1>6, <1>7, <1>9 DEF f

LEMMA ConfigureFunctionKeeps ==
  ASSUME ConfigurationI, NEW done \in BOOLEAN, ConfigureFunction(done)
  PROVE  ConfigurationI'
<1> DEFINE fs == usbdev.m_pFunction
           gs == usbdev'.m_pFunction
<1>1. usbdev \in DeviceTypes /\ InterfacesInOrder /\ FunctionsStand /\ WalkI /\ ChosenI /\ InRow
  BY DEF ConfigurationI, InterfacesInOrder
<1>2. PICK a \in DOMAIN fs, g \in FunctionTypes :
           /\ usbdev' \in DeviceTypes /\ usbdev'.pc = "configure" /\ usbdev.pc = "configure"
           /\ usbdev'.ucInterfaceNumber = usbdev.ucInterfaceNumber
           /\ gs = [fs EXCEPT ![a] = g]
           /\ g.driver = fs[a].driver /\ g.interface = fs[a].interface /\ g.next = fs[a].next
           /\ g.state = "configured" => g.endpoints \in Choice(fs[a])
  BY ConfigureFunctionIs
<1>3. descs' = descs
  BY DEF ConfigureFunction
<1>4. DOMAIN gs = DOMAIN fs /\ Len(gs) = Len(fs)
  <2>1. fs \in Seq(FunctionTypes) /\ gs \in Seq(FunctionTypes)
    BY <1>1, <1>2, DeviceIs DEF DeviceTypes
  <2>2. DOMAIN gs = DOMAIN fs
    BY <1>2
  <2> HIDE DEF fs, gs
  <2>3. DOMAIN fs = 1 .. Len(fs) /\ DOMAIN gs = 1 .. Len(gs) /\ Len(fs) \in Nat /\ Len(gs) \in Nat
    BY <2>1, LenProperties
  <2>4. Len(gs) = Len(fs)
    BY <2>2, <2>3
  <2>5. QED
    BY <2>2, <2>4
<1>5. /\ \A k \in DOMAIN fs : k # a => gs[k] = fs[k]
      /\ gs[a] = g
  BY <1>1, <1>2, DeviceIs
<1>6. \A k \in DOMAIN fs : gs[k].driver = fs[k].driver /\ gs[k].interface = fs[k].interface /\ gs[k].next = fs[k].next
  BY <1>2, <1>5
<1>7. InterfacesInOrder'
  BY <1>1, <1>3 DEF InterfacesInOrder, InRow
<1>8. FunctionsStand'
  <2>1. \A k \in DOMAIN fs : Stands(gs[k]) /\ NumberOf(gs[k]) = NumberOf(fs[k])
    BY <1>1, <1>6 DEF FunctionsStand, Stands, NumberOf
  <2>2. /\ \A k \in DOMAIN gs : Stands(gs[k]) /\ NumberOf(gs[k]) < usbdev'.ucInterfaceNumber
        /\ \A k, l \in DOMAIN gs : k < l => NumberOf(gs[k]) < NumberOf(gs[l])
    BY <1>1, <1>2, <1>4, <2>1 DEF FunctionsStand
  <2>3. QED
    BY <1>3, <2>2 DEF FunctionsStand, Stands, NumberOf
<1>9. ChosenI'
  <2> SUFFICES ASSUME Orderly, NEW k \in DOMAIN gs, gs[k].state = "configured"
               PROVE  OwnEndpoints(gs[k], gs[k].endpoints)
    BY <1>3, RowStays DEF ChosenI
  <2>1. CASE k # a
    BY <1>1, <1>4, <1>5, <2>1 DEF ChosenI
  <2>2. CASE k = a
    <3>1. Stands(fs[a])
      BY <1>1 DEF FunctionsStand
    <3>2. g.endpoints \in Choice(fs[a])
      BY <1>2, <1>5, <2>2
    <3>3. OwnEndpoints(fs[a], g.endpoints)
      BY <1>1, <3>1, <3>2, ChoiceFits
    <3>4. QED
      BY <1>2, <1>5, <2>2, <3>3 DEF OwnEndpoints
  <2>3. QED
    BY <2>1, <2>2
<1>10. WalkI'
  <2>1. descs.vendor # "lan" => AllSupported(fs) /\ Len(fs) = Min({Cardinality(Supported), USBDEV_MAX_FUNCTIONS})
    BY <1>1, <1>2 DEF WalkI
  <2>2. descs.vendor # "lan" => AllSupported(gs) /\ Len(gs) = Min({Cardinality(Supported), USBDEV_MAX_FUNCTIONS})
    BY <1>4, <1>6, <2>1 DEF AllSupported
  <2>3. QED
    BY <1>2, <1>3, <2>2 DEF WalkI, AllSupported, Supported, InterfacesOf
<1>11. QED
  BY <1>2, <1>7, <1>8, <1>9, <1>10 DEF ConfigurationI

LEMMA NewFunctionIs ==
  ASSUME NEW i \in Nat, DriverFor(i) # "none"
  PROVE  /\ NewFunction(i) \in FunctionTypes /\ NewFunction(i).driver = DriverFor(i)
         /\ NewFunction(i).interface = i /\ NewFunction(i).next = i + 1 /\ NewFunction(i).state = "new"
         /\ NewFunction(i).driver # "lan" => NewFunction(i).driver = descs.seq[i].name
         /\ descs.vendor # "lan" => descs.seq[i].name \in Drivers
<1>1. /\ DriverFor(i) \in Drivers \cup {"lan"} /\ (DriverFor(i) # "lan" => DriverFor(i) = descs.seq[i].name)
      /\ descs.vendor # "lan" => descs.seq[i].name \in Drivers
  BY DEF DriverFor
<1>2. QED
  BY <1>1 DEF NewFunction, FunctionTypes

LEMMA NextInterfaceIs ==
  ASSUME ConfigurationI, NextInterface
  PROVE  /\ usbdev' \in DeviceTypes
         /\ WalkEnds \/ \E i \in usbdev.next .. Len(descs.seq) : TurnAt(i)
<1> DEFINE n == usbdev.next
           fs == usbdev.m_pFunction
           uc == usbdev.ucInterfaceNumber
           found == DescriptorFrom(n, "interface")
           i == Max(found)
           least == Max({uc, descs.seq[i].num})
           after == After0(n, "interface")
           on == [usbdev EXCEPT !.next = after]
<1>1. /\ usbdev \in DeviceTypes /\ InRow /\ n \in 1 .. Len(descs.seq) + 1
  BY DEF ConfigurationI, InterfacesInOrder, WalkI, NextInterface
<1>2. /\ n \in Nat \ {0} /\ uc \in Nat /\ fs \in Seq(FunctionTypes) /\ Len(fs) \in Nat /\ Len(descs.seq) \in Nat
  BY <1>1, DeviceIs, RowIs
<1>3. usbdev.pc = "interfaces"
  BY DEF NextInterface
<1>4. CASE found = {}
  <2>1. /\ \A j \in n .. Len(descs.seq) : ~Matches(j, "interface")
        /\ after = Len(descs.seq) + 1
    <3>1. "interface" \in {"interface", "hid", "cs"}
      OBVIOUS
    <3>2. QED
      BY <1>1, <1>2, <1>4, <3>1, NothingIsMissed
  <2>2. \A j \in n .. Len(descs.seq) : ~IsInterface(descs.seq[j])
    BY <2>1 DEF Matches, IsInterface
  <2>3. PICK pc \in {"failed", "configure"} : usbdev' = [on EXCEPT !.pc = pc]
    BY <1>4 DEF NextInterface
  <2>4. after \in Nat \ {0}
    BY <1>2, <2>1
  <2> HIDE DEF after
  <2>5. /\ usbdev' \in DeviceTypes /\ usbdev'.m_pFunction = fs /\ usbdev'.ucInterfaceNumber = uc /\ usbdev'.pc = pc
    BY <1>1, <2>3, <2>4 DEF DeviceTypes
  <2>6. QED
    BY <2>2, <2>5 DEF WalkEnds
<1>5. CASE found # {}
  <2>1. PICK p \in found : TRUE
    BY <1>5
  <2>2. p \in n .. Len(descs.seq) /\ FoundAt(n, "interface", p)
    BY <1>1, <1>2, <2>1, OneIsFound
  <2>3. /\ i = p /\ after = p + 1 /\ IsInterface(descs.seq[p])
        /\ \A j \in n .. p - 1 : ~IsInterface(descs.seq[j])
    BY <2>2 DEF FoundAt, Matches, IsInterface
  <2>4. p \in Nat /\ p + 1 \in Nat \ {0} /\ p \in 1 .. Len(descs.seq)
    BY <1>2, <2>2
  <2> DEFINE num == descs.seq[p].num
  <2>5. num \in Nat
    BY <1>1, <2>4, RowIs
  <2> HIDE DEF num
  <2>6. Max({uc, num}) = IF uc >= num THEN uc ELSE num
    BY <1>2, <2>5, ExtremesOfFew
  <2>7. least = Max({uc, num})
    BY <2>3 DEF num
  <2>8. least = IF uc >= num THEN uc ELSE num
    BY <2>6, <2>7
  <2>9. usbdev' =
          IF num # least \/ DriverFor(p) = "none"
          THEN [on EXCEPT !.ucInterfaceNumber = least]
          ELSE [on EXCEPT !.ucInterfaceNumber = Taken(least),
                          !.m_pFunction = Append(@, NewFunction(p)),
                          !.pc = IF Len(on.m_pFunction) + 1 = USBDEV_MAX_FUNCTIONS THEN "configure" ELSE @]
    BY <1>5, <2>3 DEF NextInterface, num
  <2>10. on = [usbdev EXCEPT !.next = p + 1] /\ on \in DeviceTypes
    BY <1>1, <2>3, <2>4 DEF DeviceTypes
  <2>11. /\ on.next = p + 1 /\ on.ucInterfaceNumber = uc /\ on.m_pFunction = fs /\ on.pc = "interfaces"
    BY <1>1, <1>3, <2>10 DEF DeviceTypes
  <2> HIDE DEF on, least
  <2>12. CASE num # least \/ DriverFor(p) = "none"
    <3>1. usbdev' = [on EXCEPT !.ucInterfaceNumber = least]
      BY <2>9, <2>12
    <3>2. least \in Nat
      BY <1>2, <2>5, <2>8
    <3>3. /\ usbdev' \in DeviceTypes /\ usbdev'.next = p + 1 /\ usbdev'.ucInterfaceNumber = least
          /\ usbdev'.m_pFunction = fs /\ usbdev'.pc = "interfaces"
      BY <2>10, <2>11, <3>1, <3>2 DEF DeviceTypes
    <3>4. \/ num < uc /\ least = uc
          \/ num >= uc /\ least = num /\ DriverFor(p) = "none"
      BY <1>2, <2>5, <2>8, <2>12
    <3>5. TurnAt(p)
      BY <2>3, <3>3, <3>4 DEF TurnAt, num
    <3>6. QED
      BY <2>2, <3>3, <3>5
  <2>13. CASE ~(num # least \/ DriverFor(p) = "none")
    <3> DEFINE pc == IF Len(fs) + 1 = USBDEV_MAX_FUNCTIONS THEN "configure" ELSE "interfaces"
               gs == Append(fs, NewFunction(p))
    <3>1. usbdev' = [on EXCEPT !.ucInterfaceNumber = num + 1, !.m_pFunction = gs, !.pc = pc]
      BY <2>9, <2>10, <2>11, <2>13 DEF Taken, DeviceTypes
    <3>2. NewFunction(p) \in FunctionTypes
      BY <2>4, <2>13, NewFunctionIs
    <3>3. gs \in Seq(FunctionTypes) /\ pc \in {"interfaces", "configure"}
      BY <1>2, <3>2
    <3> DEFINE taken == num + 1
    <3>0. taken \in Nat /\ usbdev' = [on EXCEPT !.ucInterfaceNumber = taken, !.m_pFunction = gs, !.pc = pc]
      BY <2>5, <3>1
    <3> HIDE DEF gs, pc, taken
    <3>4. /\ usbdev' \in DeviceTypes /\ usbdev'.next = on.next /\ usbdev'.ucInterfaceNumber = taken
          /\ usbdev'.m_pFunction = gs /\ usbdev'.pc = pc
      <4>1. pc \in {"parse", "interfaces", "configure", "ready", "failed"}
        BY <3>3
      <4>2. QED
        BY <2>10, <3>0, <3>3, <4>1 DEF DeviceTypes
    <3>5. num >= uc /\ DriverFor(p) # "none"
      BY <1>2, <2>5, <2>8, <2>13
    <3>6. TurnAt(p)
      BY <2>3, <2>11, <3>4, <3>5 DEF TurnAt, num, gs, pc, taken
    <3>7. QED
      BY <2>2, <3>4, <3>6
  <2>14. QED
    BY <2>12, <2>13
<1>6. QED
  BY <1>4, <1>5

LEMMA InterfacesBehind ==
  ASSUME InRow, NEW n \in 1 .. Len(descs.seq) + 1, NEW i \in n .. Len(descs.seq),
         \A j \in n .. i - 1 : ~IsInterface(descs.seq[j])
  PROVE  \A j \in 1 .. i : IsInterface(descs.seq[j]) => j = i \/ j \in 1 .. n - 1
<1>1. Len(descs.seq) \in Nat /\ n \in Nat /\ i \in Nat
  <2>1. Len(descs.seq) \in Nat
    BY RowIs
  <2>2. QED
    BY <2>1
<1>2. \A j \in 1 .. i : j = i \/ j \in 1 .. n - 1 \/ j \in n .. i - 1
  BY <1>1
<1>3. QED
  BY <1>2

LEMMA SupportedGrows ==
  ASSUME InRow, NEW n \in 1 .. Len(descs.seq) + 1, NEW i \in n .. Len(descs.seq),
         \A j \in n .. i - 1 : ~IsInterface(descs.seq[j])
  PROVE  Cardinality(SupportedBefore(i + 1)) = IF i \in Supported THEN Cardinality(SupportedBefore(n)) + 1
                                               ELSE Cardinality(SupportedBefore(n))
<1>1. Len(descs.seq) \in Nat /\ n \in Nat /\ i \in Nat /\ n <= i
  <2>1. Len(descs.seq) \in Nat
    BY RowIs
  <2>2. QED
    BY <2>1
<1>2. Supported \subseteq 1 .. Len(descs.seq) /\ IsFiniteSet(SupportedBefore(n))
  BY <1>1, SupportedIsFinite
<1>3. \A j \in Supported : IsInterface(descs.seq[j])
  BY DEF Supported, InterfacesOf, IsInterface
<1>4. \A j \in Supported : j < i + 1 => j = i \/ j < n
  <2> SUFFICES ASSUME NEW j \in Supported, j < i + 1
               PROVE  j = i \/ j < n
    OBVIOUS
  <2>1. j \in 1 .. i
    BY <1>1, <1>2
  <2>2. j = i \/ j \in 1 .. n - 1
    BY <1>3, <2>1, InterfacesBehind
  <2>3. QED
    BY <1>1, <2>2
<1>5. i < i + 1 /\ ~(i < n) /\ \A j \in Supported : j < n => j < i + 1
  BY <1>1, <1>2
<1>6. CASE i \in Supported
  <2>1. SupportedBefore(i + 1) = SupportedBefore(n) \cup {i} /\ i \notin SupportedBefore(n)
    BY <1>4, <1>5, <1>6 DEF SupportedBefore
  <2>2. QED
    BY <1>2, <1>6, <2>1, FS_AddElement
<1>7. CASE i \notin Supported
  <2>1. SupportedBefore(i + 1) = SupportedBefore(n)
    BY <1>4, <1>5, <1>7 DEF SupportedBefore
  <2>2. QED
    BY <1>7, <2>1
<1>8. QED
  BY <1>6, <1>7

\* An interface whose number is taken is not the first of its number with a driver; one whose number is
\* not taken is, if it has a driver.
LEMMA TakenIs ==
  ASSUME InterfacesInOrder, NEW n \in 1 .. Len(descs.seq) + 1, NEW i \in n .. Len(descs.seq),
         IsInterface(descs.seq[i]), \A j \in n .. i - 1 : ~IsInterface(descs.seq[j]),
         NEW number \in Nat, Seen(n, number)
  PROVE  /\ descs.seq[i].num < number => i \notin Supported
         /\ descs.seq[i].num >= number /\ descs.seq[i].name \in Drivers => i \in Supported
<1>1. InRow
  BY DEF InterfacesInOrder
<1>2. Len(descs.seq) \in Nat /\ DOMAIN descs.seq = 1 .. Len(descs.seq)
  BY <1>1, RowIs
<1>3. n \in Nat /\ i \in Nat /\ 1 <= n /\ n <= i /\ i \in 1 .. Len(descs.seq)
  BY <1>2
<1>4. \A j \in 1 .. Len(descs.seq) : descs.seq[j].num \in Nat
  BY <1>1, RowIs
<1>5. \A j \in 1 .. n - 1 : j < i /\ j \in 1 .. Len(descs.seq)
  BY <1>2, <1>3
<1>6. ASSUME descs.seq[i].num < number, i \in Supported
      PROVE  FALSE
  <2>1. PICK j \in 1 .. n - 1 : /\ IsInterface(descs.seq[j])
                                /\ \/ descs.seq[j].num = number
                                   \/ descs.seq[j].num + 1 = number /\ descs.seq[j].name \in Drivers
    <3>1. number # 0
      BY <1>3, <1>4, <1>6
    <3>2. QED
      BY <3>1 DEF Seen
  <2>2. j < i /\ j \in 1 .. Len(descs.seq) /\ descs.seq[j].num <= descs.seq[i].num
    BY <1>3, <1>5, <2>1 DEF InterfacesInOrder
  <2>3. descs.seq[j].num \in Nat /\ descs.seq[i].num \in Nat
    BY <1>3, <1>4, <2>2
  <2>4. descs.seq[j].num = descs.seq[i].num /\ descs.seq[j].name \in Drivers
    BY <1>6, <2>1, <2>2, <2>3, SMTT(30)
  <2>5. j \in InterfacesOf(Drivers)
    BY <1>2, <2>1, <2>2, <2>4 DEF InterfacesOf, IsInterface
  <2>6. i <= j
    BY <1>6, <2>4, <2>5 DEF Supported
  <2>7. j \in Nat
    BY <1>2, <2>2
  <2>8. QED
    BY <1>3, <2>2, <2>6, <2>7
<1>7. ASSUME descs.seq[i].num >= number, descs.seq[i].name \in Drivers
      PROVE  i \in Supported
  <2>1. i \in InterfacesOf(Drivers)
    BY <1>2, <1>3, <1>7 DEF InterfacesOf, IsInterface
  <2>2. ASSUME NEW j \in InterfacesOf(Drivers), descs.seq[j].num = descs.seq[i].num
        PROVE  i <= j
    <3>1. j \in 1 .. Len(descs.seq) /\ IsInterface(descs.seq[j]) /\ descs.seq[j].name \in Drivers
      BY <1>2 DEF InterfacesOf, IsInterface
    <3>2. SUFFICES ASSUME j < i
                   PROVE  FALSE
      BY <1>2, <1>3, <3>1
    <3>3. j \in 1 .. i /\ j # i
      BY <1>2, <1>3, <3>1, <3>2
    <3>4. j \in 1 .. n - 1
      BY <1>1, <3>1, <3>3, InterfacesBehind
    <3>5. descs.seq[j].num < number
      BY <3>1, <3>4 DEF Seen
    <3>6. descs.seq[j].num \in Nat /\ descs.seq[i].num \in Nat
      BY <1>3, <1>4, <3>1
    <3>7. QED
      BY <1>7, <2>2, <3>5, <3>6
  <2>3. QED
    BY <2>1, <2>2 DEF Supported
<1>8. QED
  BY <1>6, <1>7

\* What is seen when one more interface is behind the parser.
LEMMA SeenGoesOn ==
  ASSUME InRow, NEW n \in 1 .. Len(descs.seq) + 1, NEW i \in n .. Len(descs.seq),
         IsInterface(descs.seq[i]), \A j \in n .. i - 1 : ~IsInterface(descs.seq[j]),
         NEW number \in Nat, Seen(n, number)
  PROVE  /\ descs.seq[i].num < number => Seen(i + 1, number)
         /\ descs.seq[i].num >= number /\ descs.seq[i].name \notin Drivers => Seen(i + 1, descs.seq[i].num)
         /\ descs.seq[i].num >= number /\ descs.seq[i].name \in Drivers => Seen(i + 1, descs.seq[i].num + 1)
<1> DEFINE num == descs.seq[i].num
<1>1. Len(descs.seq) \in Nat
  BY RowIs
<1>2. i \in Nat /\ i \in 1 .. i /\ i \in 1 .. Len(descs.seq) /\ (i + 1) - 1 = i /\ \A j \in 1 .. n - 1 : j \in 1 .. i
  BY <1>1
<1>3. \A j \in 1 .. i : IsInterface(descs.seq[j]) => j = i \/ j \in 1 .. n - 1
  BY InterfacesBehind
<1>4. \A j \in 1 .. i : descs.seq[j].num \in Nat
  <2>1. \A j \in 1 .. i : j \in 1 .. Len(descs.seq)
    BY <1>1, <1>2
  <2>2. QED
    BY <2>1, RowIs
<1>5. /\ \A j \in 1 .. n - 1 : IsInterface(descs.seq[j]) /\ descs.seq[j].name \in Drivers => descs.seq[j].num < number
      /\ \/ number = 0
         \/ \E j \in 1 .. n - 1 : /\ IsInterface(descs.seq[j])
                                  /\ \/ descs.seq[j].num = number
                                     \/ descs.seq[j].num + 1 = number /\ descs.seq[j].name \in Drivers
  BY DEF Seen
<1>6. num \in Nat
  BY <1>2, <1>4
<1> HIDE DEF num
<1>7. ASSUME num < number
      PROVE  Seen(i + 1, number)
  BY <1>2, <1>3, <1>5, <1>7 DEF Seen, num
<1>8. ASSUME num >= number, descs.seq[i].name \notin Drivers
      PROVE  Seen(i + 1, num)
  <2>1. ASSUME NEW j \in 1 .. i, IsInterface(descs.seq[j]), descs.seq[j].name \in Drivers
        PROVE  descs.seq[j].num < num
    <3>1. descs.seq[j].num < number /\ descs.seq[j].num \in Nat
      BY <1>3, <1>4, <1>5, <1>8, <2>1
    <3>2. QED
      BY <1>6, <1>8, <3>1
  <2>2. QED
    BY <1>2, <2>1 DEF Seen, num
<1>9. ASSUME num >= number, descs.seq[i].name \in Drivers
      PROVE  Seen(i + 1, num + 1)
  <2>1. ASSUME NEW j \in 1 .. i, IsInterface(descs.seq[j]), descs.seq[j].name \in Drivers
        PROVE  descs.seq[j].num < num + 1
    <3>1. CASE j = i
      BY <1>6, <3>1 DEF num
    <3>2. CASE j # i
      <4>1. descs.seq[j].num < number /\ descs.seq[j].num \in Nat
        BY <1>3, <1>4, <1>5, <2>1, <3>2
      <4>2. QED
        BY <1>6, <1>9, <4>1
    <3>3. QED
      BY <3>1, <3>2
  <2>2. QED
    BY <1>2, <1>9, <2>1 DEF Seen, num
<1>10. QED
  BY <1>7, <1>8, <1>9 DEF num

\* A function more, whose interface has a number that is not taken.
LEMMA MoreFunctions ==
  ASSUME usbdev \in DeviceTypes, InterfacesInOrder, FunctionsStand, ChosenI,
         NEW i \in 1 .. Len(descs.seq), IsInterface(descs.seq[i]), DriverFor(i) # "none",
         descs.seq[i].num >= usbdev.ucInterfaceNumber, descs' = descs,
         usbdev'.ucInterfaceNumber = descs.seq[i].num + 1,
         usbdev'.m_pFunction = Append(usbdev.m_pFunction, NewFunction(i))
  PROVE  /\ FunctionsStand' /\ ChosenI'
         /\ Len(usbdev'.m_pFunction) = Len(usbdev.m_pFunction) + 1
         /\ \A k \in DOMAIN usbdev'.m_pFunction :
              \/ k \in DOMAIN usbdev.m_pFunction /\ usbdev'.m_pFunction[k] = usbdev.m_pFunction[k]
              \/ usbdev'.m_pFunction[k] = NewFunction(i)
<1> DEFINE fs == usbdev.m_pFunction
           gs == usbdev'.m_pFunction
           f == NewFunction(i)
           m == Len(fs)
           num == descs.seq[i].num
           uc == usbdev.ucInterfaceNumber
<1>1. /\ fs \in Seq(FunctionTypes) /\ m \in Nat /\ DOMAIN fs = 1 .. m /\ uc \in Nat
  BY DeviceIs
<1>2. InRow /\ i \in Nat
  BY RowIs DEF InterfacesInOrder
<1>3. /\ f \in FunctionTypes /\ f.driver = DriverFor(i) /\ f.interface = i /\ f.next = i + 1 /\ f.state = "new"
      /\ (f.driver # "lan" => f.driver = descs.seq[i].name)
  BY <1>2, NewFunctionIs
<1>4. gs = Append(fs, f)
  OBVIOUS
<1>5. num \in Nat /\ \A k \in DOMAIN fs : NumberOf(fs[k]) \in Nat
  <2>1. \A k \in DOMAIN fs : fs[k].interface \in 1 .. Len(descs.seq)
    BY DEF FunctionsStand, Stands
  <2>2. QED
    BY <1>2, <2>1, RowIs DEF NumberOf
<1>6. num >= uc /\ usbdev'.ucInterfaceNumber = num + 1
  OBVIOUS
<1>7. /\ \A k \in DOMAIN fs : Stands(fs[k]) /\ NumberOf(fs[k]) < uc
      /\ \A k, l \in DOMAIN fs : k < l => NumberOf(fs[k]) < NumberOf(fs[l])
  BY DEF FunctionsStand
<1>8. Stands(f) /\ NumberOf(f) = num
  <2>1. f.driver \in Drivers \cup {"lan"}
    BY <1>3 DEF FunctionTypes
  <2>2. QED
    BY <1>3, <2>1 DEF Stands, NumberOf
<1> HIDE DEF fs, gs, f, num, uc
<1>9. /\ Len(gs) = m + 1 /\ DOMAIN gs = 1 .. m + 1
      /\ \A k \in 1 .. m : gs[k] = fs[k]
      /\ gs[m + 1] = f
  <2>1. /\ Append(fs, f) \in Seq(FunctionTypes) /\ Len(Append(fs, f)) = m + 1
        /\ \A k \in 1 .. m : Append(fs, f)[k] = fs[k]
        /\ Append(fs, f)[m + 1] = f
    BY <1>1, <1>3, AppendProperties
  <2>2. DOMAIN Append(fs, f) = 1 .. m + 1
    BY <2>1, LenProperties
  <2>3. QED
    BY <1>4, <2>1, <2>2
<1> HIDE DEF m
<1>10. \A k \in DOMAIN gs : (k \in DOMAIN fs /\ gs[k] = fs[k]) \/ (k = m + 1 /\ gs[k] = f)
  <2> SUFFICES ASSUME NEW k \in 1 .. m + 1, k # m + 1
               PROVE  k \in 1 .. m
    BY <1>1, <1>9
  <2>1. QED
    BY <1>1
<1>11. \A k \in DOMAIN gs : Stands(gs[k]) /\ NumberOf(gs[k]) < num + 1
  <2> SUFFICES ASSUME NEW k \in DOMAIN gs
               PROVE  Stands(gs[k]) /\ NumberOf(gs[k]) < num + 1
    OBVIOUS
  <2>1. CASE k \in DOMAIN fs /\ gs[k] = fs[k]
    BY <1>1, <1>5, <1>6, <1>7, <2>1
  <2>2. CASE gs[k] = f
    BY <1>5, <1>8, <2>2
  <2>3. QED
    BY <1>10, <2>1, <2>2
<1>12. \A k, l \in DOMAIN gs : k < l => NumberOf(gs[k]) < NumberOf(gs[l])
  <2> SUFFICES ASSUME NEW k \in DOMAIN gs, NEW l \in DOMAIN gs, k < l
               PROVE  NumberOf(gs[k]) < NumberOf(gs[l])
    OBVIOUS
  <2>0. k \in 1 .. m + 1 /\ l \in 1 .. m + 1 /\ m \in Nat
    BY <1>1, <1>9
  <2>1. k \in DOMAIN fs /\ gs[k] = fs[k]
    BY <1>10, <2>0
  <2>2. CASE l \in DOMAIN fs /\ gs[l] = fs[l]
    BY <1>7, <2>1, <2>2
  <2>3. CASE gs[l] = f
    BY <1>1, <1>5, <1>6, <1>7, <1>8, <2>1, <2>3
  <2>4. QED
    BY <1>10, <2>2, <2>3
<1>13. FunctionsStand'
  BY <1>6, <1>11, <1>12, RowStays DEF FunctionsStand, NumberOf, gs
<1>14. ChosenI'
  <2> SUFFICES ASSUME Orderly, NEW k \in DOMAIN gs, gs[k].state = "configured"
               PROVE  OwnEndpoints(gs[k], gs[k].endpoints)
    BY RowStays DEF ChosenI, gs
  <2>1. k \in DOMAIN fs /\ gs[k] = fs[k]
    BY <1>3, <1>10
  <2>2. QED
    BY <2>1 DEF ChosenI, fs
<1>15. Len(gs) = m + 1
  BY <1>9
<1>16. QED
  BY <1>10, <1>13, <1>14, <1>15 DEF fs, gs, f, m

LEMMA FunctionsStay ==
  ASSUME FunctionsStand, ChosenI, InterfacesInOrder, descs' = descs, usbdev'.m_pFunction = usbdev.m_pFunction,
         usbdev'.ucInterfaceNumber \in Nat, usbdev'.ucInterfaceNumber >= usbdev.ucInterfaceNumber,
         usbdev.ucInterfaceNumber \in Nat
  PROVE  FunctionsStand' /\ ChosenI'
<1> DEFINE fs == usbdev.m_pFunction
<1>1. /\ \A k \in DOMAIN fs : Stands(fs[k]) /\ NumberOf(fs[k]) < usbdev.ucInterfaceNumber
      /\ \A k, l \in DOMAIN fs : k < l => NumberOf(fs[k]) < NumberOf(fs[l])
  BY DEF FunctionsStand
<1>2. \A k \in DOMAIN fs : NumberOf(fs[k]) \in Nat
  BY <1>1, RowIs DEF InterfacesInOrder, Stands, NumberOf
<1>3. \A k \in DOMAIN fs : NumberOf(fs[k]) < usbdev'.ucInterfaceNumber
  BY <1>1, <1>2
<1>4. FunctionsStand'
  BY <1>1, <1>3, RowStays DEF FunctionsStand, NumberOf
<1>5. ChosenI'
  BY RowStays DEF ChosenI
<1>6. QED
  BY <1>4, <1>5

LEMMA NextInterfaceKeeps == ConfigurationI /\ NextInterface => ConfigurationI'
<1> SUFFICES ASSUME ConfigurationI, NextInterface
             PROVE  ConfigurationI'
  OBVIOUS
<1> DEFINE n == usbdev.next
           fs == usbdev.m_pFunction
           uc == usbdev.ucInterfaceNumber
<1>1. usbdev \in DeviceTypes /\ InterfacesInOrder /\ FunctionsStand /\ WalkI /\ ChosenI /\ InRow
  BY DEF ConfigurationI, InterfacesInOrder
<1>2. descs' = descs /\ usbdev.pc = "interfaces"
  BY DEF NextInterface
<1>3. InterfacesInOrder'
  BY <1>1, <1>2 DEF InterfacesInOrder, InRow
<1>4. usbdev' \in DeviceTypes /\ (WalkEnds \/ \E i \in n .. Len(descs.seq) : TurnAt(i))
  BY NextInterfaceIs
<1>5. /\ n \in 1 .. Len(descs.seq) + 1 /\ uc \in Nat /\ Len(fs) \in Nat /\ Len(descs.seq) \in Nat
      /\ n \in Nat /\ 1 <= n
  BY <1>1, <1>2, DeviceIs, RowIs DEF WalkI
<1>6. \A k \in DOMAIN fs : fs[k].interface < n /\ fs[k].interface \in Nat
  <2>1. \A k \in DOMAIN fs : fs[k] \in FunctionTypes
    BY <1>1, DeviceIs
  <2>2. \A k \in DOMAIN fs : fs[k].interface \in Nat
    BY <2>1 DEF FunctionTypes
  <2>3. QED
    BY <1>1, <1>2, <2>2 DEF WalkI
<1>7. descs.vendor # "lan" => /\ Seen(n, uc) /\ AllSupported(fs)
                              /\ Len(fs) = Cardinality(SupportedBefore(n)) /\ Len(fs) < USBDEV_MAX_FUNCTIONS
  BY <1>1, <1>2 DEF WalkI
<1>8. USBDEV_MAX_FUNCTIONS \in Nat
  BY ConfigurationAssumption
<1>9. /\ \A m, number : Seen(m, number)' <=> Seen(m, number)
      /\ \A m : SupportedBefore(m)' = SupportedBefore(m)
      /\ Supported' = Supported
      /\ \A gs : AllSupported(gs)' <=> AllSupported(gs)
  <2>1. Supported' = Supported
    BY <1>2 DEF Supported, InterfacesOf
  <2>2. \A m, number : Seen(m, number)' <=> Seen(m, number)
    BY <1>2 DEF Seen
  <2>3. QED
    BY <2>1, <2>2 DEF SupportedBefore, AllSupported
<1>10. CASE WalkEnds
  <2>1. /\ \A j \in n .. Len(descs.seq) : ~IsInterface(descs.seq[j])
        /\ usbdev'.m_pFunction = fs /\ usbdev'.ucInterfaceNumber = uc /\ usbdev'.pc \in {"failed", "configure"}
    BY <1>10 DEF WalkEnds
  <2>2. FunctionsStand' /\ ChosenI'
    BY <1>1, <1>2, <1>5, <2>1, FunctionsStay
  <2>3. SupportedBefore(n) = Supported
    <3> SUFFICES ASSUME NEW j \in Supported
                 PROVE  j < n
      BY DEF SupportedBefore
    <3>1. j \in 1 .. Len(descs.seq) /\ IsInterface(descs.seq[j])
      BY <1>1, SupportedIsFinite DEF Supported, InterfacesOf, IsInterface
    <3>2. QED
      BY <1>5, <2>1, <3>1
  <2>4. descs.vendor # "lan" => AllSupported(fs) /\ Len(fs) = Min({Cardinality(Supported), USBDEV_MAX_FUNCTIONS})
    <3> SUFFICES ASSUME descs.vendor # "lan"
                 PROVE  Len(fs) = Min({Cardinality(Supported), USBDEV_MAX_FUNCTIONS})
      BY <1>7
    <3>1. Len(fs) = Cardinality(Supported) /\ Len(fs) < USBDEV_MAX_FUNCTIONS
      BY <1>7, <2>3
    <3> HIDE DEF fs
    <3>2. Min({Len(fs), USBDEV_MAX_FUNCTIONS}) = Len(fs)
      <4>1. Min({Len(fs), USBDEV_MAX_FUNCTIONS}) = IF Len(fs) <= USBDEV_MAX_FUNCTIONS THEN Len(fs)
                                                   ELSE USBDEV_MAX_FUNCTIONS
        BY <1>5, <1>8, ExtremesOfFew, Zenon
      <4>2. Len(fs) <= USBDEV_MAX_FUNCTIONS
        BY <1>5, <1>8, <3>1
      <4>3. QED
        BY <4>1, <4>2
    <3>3. QED
      BY <3>1, <3>2
  <2>5. WalkI'
    BY <1>2, <1>9, <2>1, <2>4 DEF WalkI
  <2>6. QED
    BY <1>3, <1>4, <2>2, <2>5 DEF ConfigurationI
<1>11. ASSUME NEW i \in n .. Len(descs.seq), TurnAt(i)
       PROVE  ConfigurationI'
  <2> DEFINE num == descs.seq[i].num
             gs == usbdev'.m_pFunction
             after == usbdev'.next
  <2>1. /\ IsInterface(descs.seq[i]) /\ \A j \in n .. i - 1 : ~IsInterface(descs.seq[j])
        /\ after = i + 1
    BY <1>11 DEF TurnAt
  <2>2. i \in 1 .. Len(descs.seq) /\ i \in Nat /\ n <= i
    BY <1>5
  <2>3. num \in Nat
    BY <1>1, <2>2, RowIs
  <2>4. after \in 1 .. Len(descs.seq) + 1 /\ \A k \in DOMAIN fs : fs[k].interface < after
    BY <1>5, <1>6, <2>1, <2>2
  <2>5. /\ num < uc => i \notin Supported \/ descs.vendor = "lan"
        /\ num >= uc /\ descs.seq[i].name \in Drivers => i \in Supported \/ descs.vendor = "lan"
    BY <1>1, <1>5, <1>7, <2>1, TakenIs
  <2>6. Cardinality(SupportedBefore(after)) = IF i \in Supported THEN Cardinality(SupportedBefore(n)) + 1
                                              ELSE Cardinality(SupportedBefore(n))
    BY <1>1, <1>5, <2>1, SupportedGrows
  <2>7. descs.vendor # "lan" =>
          /\ num < uc => Seen(after, uc)
          /\ num >= uc /\ descs.seq[i].name \notin Drivers => Seen(after, num)
          /\ num >= uc /\ descs.seq[i].name \in Drivers => Seen(after, num + 1)
    BY <1>1, <1>5, <1>7, <2>1, SeenGoesOn
  <2>8. CASE /\ gs = fs /\ usbdev'.pc = "interfaces"
             /\ \/ num < uc /\ usbdev'.ucInterfaceNumber = uc
                \/ num >= uc /\ DriverFor(i) = "none" /\ usbdev'.ucInterfaceNumber = num
    <3>1. FunctionsStand' /\ ChosenI'
      <4>1. usbdev'.ucInterfaceNumber \in Nat /\ usbdev'.ucInterfaceNumber >= uc
        BY <1>5, <2>3, <2>8
      <4>2. QED
        BY <1>1, <1>2, <1>5, <2>8, <4>1, FunctionsStay
    <3>2. descs.vendor # "lan" => /\ Seen(after, usbdev'.ucInterfaceNumber) /\ AllSupported(gs)
                                  /\ Len(gs) = Cardinality(SupportedBefore(after)) /\ Len(gs) < USBDEV_MAX_FUNCTIONS
      <4> SUFFICES ASSUME descs.vendor # "lan"
                   PROVE  /\ Seen(after, usbdev'.ucInterfaceNumber)
                          /\ Cardinality(SupportedBefore(after)) = Cardinality(SupportedBefore(n))
        BY <1>7, <2>8
      <4>1. CASE num < uc /\ usbdev'.ucInterfaceNumber = uc
        BY <2>5, <2>6, <2>7, <4>1
      <4>2. CASE num >= uc /\ DriverFor(i) = "none" /\ usbdev'.ucInterfaceNumber = num
        <5>1. descs.seq[i].name \notin Drivers
          BY <4>2 DEF DriverFor, Drivers
        <5>2. i \notin Supported
          BY <5>1 DEF Supported, InterfacesOf
        <5>3. QED
          BY <2>6, <2>7, <4>2, <5>1, <5>2
      <4>3. QED
        BY <2>8, <4>1, <4>2
    <3>3. WalkI'
      BY <1>2, <1>9, <2>4, <2>8, <3>2 DEF WalkI
    <3>4. QED
      BY <1>3, <1>4, <3>1, <3>3 DEF ConfigurationI
  <2>9. CASE /\ num >= uc /\ DriverFor(i) # "none" /\ usbdev'.ucInterfaceNumber = num + 1
             /\ gs = Append(fs, NewFunction(i))
             /\ usbdev'.pc = IF Len(fs) + 1 = USBDEV_MAX_FUNCTIONS THEN "configure" ELSE "interfaces"
    <3>1. /\ FunctionsStand' /\ ChosenI' /\ Len(gs) = Len(fs) + 1
          /\ \A k \in DOMAIN gs : (k \in DOMAIN fs /\ gs[k] = fs[k]) \/ gs[k] = NewFunction(i)
      BY <1>1, <1>2, <2>1, <2>2, <2>9, MoreFunctions
    <3>2. NewFunction(i).interface = i /\ (descs.vendor # "lan" => descs.seq[i].name \in Drivers)
      BY <2>2, <2>9, NewFunctionIs
    <3>3. \A k \in DOMAIN gs : gs[k].interface < after
      <4>1. i < after
        BY <2>1, <2>2
      <4>2. QED
        BY <2>4, <3>1, <3>2, <4>1
    <3>4. descs.vendor # "lan" => /\ Seen(after, num + 1) /\ AllSupported(gs)
                                  /\ Len(gs) = Cardinality(SupportedBefore(after))
      <4> SUFFICES ASSUME descs.vendor # "lan"
                   PROVE  /\ Seen(after, num + 1) /\ AllSupported(gs)
                          /\ Len(gs) = Cardinality(SupportedBefore(after))
        OBVIOUS
      <4>1. i \in Supported /\ Seen(after, num + 1)
        BY <2>5, <2>7, <2>9, <3>2
      <4>2. AllSupported(gs)
        BY <1>7, <3>1, <3>2, <4>1 DEF AllSupported
      <4>3. QED
        BY <1>7, <2>6, <3>1, <4>1, <4>2
    <3>5. CASE Len(fs) + 1 = USBDEV_MAX_FUNCTIONS
      <4>1. descs.vendor # "lan" => Len(gs) = Min({Cardinality(Supported), USBDEV_MAX_FUNCTIONS})
        <5> SUFFICES ASSUME descs.vendor # "lan"
                     PROVE  Len(gs) = Min({Cardinality(Supported), USBDEV_MAX_FUNCTIONS})
          OBVIOUS
        <5>1. Len(gs) = USBDEV_MAX_FUNCTIONS /\ Len(gs) = Cardinality(SupportedBefore(after))
          BY <3>1, <3>4, <3>5
        <5>2. /\ Cardinality(SupportedBefore(after)) <= Cardinality(Supported)
              /\ Cardinality(Supported) \in Nat
          <6>1. after \in Nat
            BY <2>1, <2>2
          <6>2. QED
            BY <1>1, <6>1, SupportedIsFinite
        <5>3. USBDEV_MAX_FUNCTIONS <= Cardinality(Supported)
          BY <5>1, <5>2
        <5>4. Min({Cardinality(Supported), USBDEV_MAX_FUNCTIONS}) =
                IF Cardinality(Supported) <= USBDEV_MAX_FUNCTIONS THEN Cardinality(Supported)
                ELSE USBDEV_MAX_FUNCTIONS
          BY <1>8, <5>2, ExtremesOfFew, Zenon
        <5>5. QED
          BY <1>8, <5>1, <5>2, <5>3, <5>4
      <4>2. usbdev'.pc = "configure"
        BY <2>9, <3>5
      <4>3. WalkI'
        BY <1>2, <1>9, <3>4, <4>1, <4>2 DEF WalkI
      <4>4. QED
        BY <1>3, <1>4, <3>1, <4>3 DEF ConfigurationI
    <3>6. CASE Len(fs) + 1 # USBDEV_MAX_FUNCTIONS
      <4>1. usbdev'.pc = "interfaces"
        BY <2>9, <3>6
      <4>2. descs.vendor # "lan" => Len(gs) < USBDEV_MAX_FUNCTIONS
        <5>1. descs.vendor # "lan" => Len(fs) < USBDEV_MAX_FUNCTIONS
          BY <1>7
        <5> DEFINE m == Len(fs)
        <5>2. m \in Nat /\ (descs.vendor # "lan" => m < USBDEV_MAX_FUNCTIONS) /\ Len(gs) = m + 1
              /\ m + 1 # USBDEV_MAX_FUNCTIONS
          BY <1>5, <3>1, <3>6, <5>1
        <5> HIDE DEF m
        <5>3. QED
          BY <1>8, <5>2
      <4>3. WalkI'
        BY <1>2, <1>9, <2>4, <2>9, <3>3, <3>4, <4>1, <4>2 DEF WalkI
      <4>4. QED
        BY <1>3, <1>4, <3>1, <4>3 DEF ConfigurationI
    <3>7. QED
      BY <3>5, <3>6
  <2>10. QED
    BY <1>11, <2>8, <2>9 DEF TurnAt
<1>12. QED
  BY <1>4, <1>10, <1>11

LEMMA ConfigurationKept == ConfigurationI /\ [ConfigurationNext]_configurationVars => ConfigurationI'
<1> SUFFICES ASSUME ConfigurationI, [ConfigurationNext]_configurationVars
             PROVE  ConfigurationI'
  OBVIOUS
<1>1. CASE Parse
  BY <1>1, ParseKeeps
<1>2. CASE NextInterface
  BY <1>2, NextInterfaceKeeps
<1>3. CASE Configured0
  BY <1>3, Configured0Keeps
<1>4. ASSUME NEW done \in BOOLEAN, ConfigureFunction(done)
      PROVE  ConfigurationI'
  BY <1>4, ConfigureFunctionKeeps
<1>5. CASE UNCHANGED configurationVars
  <2>1. usbdev' = usbdev /\ descs' = descs
    BY <1>5 DEF configurationVars
  <2>2. usbdev \in DeviceTypes /\ InterfacesInOrder /\ FunctionsStand /\ WalkI /\ ChosenI
    BY DEF ConfigurationI
  <2>3. InterfacesInOrder' /\ FunctionsStand' /\ ChosenI'
    BY <2>1, <2>2, RowStays DEF InterfacesInOrder, InRow, FunctionsStand, NumberOf, ChosenI
  <2>4. WalkI'
    BY <2>1, <2>2 DEF WalkI, Seen, AllSupported, SupportedBefore, Supported, InterfacesOf
  <2>5. QED
    BY <2>1, <2>2, <2>3, <2>4 DEF ConfigurationI
<1>6. QED
  BY <1>1, <1>2, <1>3, <1>4, <1>5 DEF ConfigurationNext

-----------------------------------------------------------------------------

LEMMA ConfigurationSteps ==
  (Init => ConfigurationI) /\ ([Next]_functionVars => [ConfigurationNext]_configurationVars)
<1>1. NoConfiguration => ConfigurationI
  <2> SUFFICES ASSUME NoConfiguration
               PROVE  ConfigurationI
    OBVIOUS
  <2>1. usbdev = NewDevice /\ descs.seq = <<>>
    BY DEF NoConfiguration
  <2>2. QED
    BY <2>1, NoDescriptors
<1>2. Init => ConfigurationI
  BY <1>1, ConfigurationStarts DEF Init
<1>3. QED
  BY <1>2 DEF Next, functionVars, configurationVars

(***************************************************************************)
(* A function that is configured uses endpoints of its own interface and   *)
(* setting, no interface has two functions, and the first setting of each  *)
(* interface with a driver has one: in configurations of any length, with  *)
(* any settings, and whichever messages fail.                              *)
(***************************************************************************)
THEOREM FunctionsAlwaysOwnEndpoints == Spec => []FunctionsOwnEndpoints
<1>1. ConfigurationI /\ [Next]_functionVars => ConfigurationI'
  BY ConfigurationSteps, ConfigurationKept
<1>2. ConfigurationI => FunctionsOwnEndpoints
  BY InvariantOwns
<1>3. QED
  BY <1>1, <1>2, ConfigurationSteps, PTL DEF Spec
=============================================================================
