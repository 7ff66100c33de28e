-------------------------- MODULE InterruptsProofs --------------------------
(***************************************************************************)
(* Proofs about critical sections and the dispatching of interrupts, for   *)
(* any set of interrupts, any nesting and any number of interrupts.        *)
(***************************************************************************)
EXTENDS Interrupts, TLAPS

(***************************************************************************)
(* The two contexts: a handler runs only when the thread is in no section, *)
(* and is in none itself when it returns, so the count belongs to the      *)
(* context that runs.                                                      *)
(***************************************************************************)
CountIsOfRunning ==
  \A c \in Contexts :
    /\ running = c => depth = held[c]
    /\ running # c => held[c] = 0

(***************************************************************************)
(* What Status() returned stays true until DisableAndCount uses it.        *)
(***************************************************************************)
StatusIsCurrent ==
  /\ \A c \in Contexts :
       /\ running = c /\ status[c] # "unread" => (status[c] = "on" <=> enabled)
       /\ status[c] # "unread" => held[c] < MaxNesting
  /\ running = "handler" => status["thread"] # "off"
  /\ running = "thread" => status["handler"] = "unread"

\* The outermost section remembers whether it interrupts the thread.
SavedIsOfRunning == depth > 0 => (wereEnabled <=> running = "thread")

(***************************************************************************)
(* The table: an interrupt that is enabled has its handler and user data,  *)
(* except while Unregister takes them away.                                *)
(***************************************************************************)
TableIsComplete ==
  \A i \in Irqs :
    /\ i \in unmasked /\ i \notin handlers =>
         change.irq = i /\ change.do \in {"noUserData", "disable"}
    /\ i \in handlers /\ i \notin userData => change = [do |-> "userData", irq |-> i]
    /\ change = [do |-> "handler", irq |-> i] => i \notin handlers /\ i \notin unmasked
    /\ change = [do |-> "userData", irq |-> i] => i \in handlers /\ i \notin unmasked
    /\ change = [do |-> "enable", irq |-> i] => i \in handlers \cap userData
    /\ change = [do |-> "noUserData", irq |-> i] => i \notin handlers

\* What is under way in the table and in InterruptHandler.
NothingLeftOpen ==
  /\ change.do # "nothing" => change.irq \in Irqs
  /\ cursor.at = "handle" => running = "handler"
  /\ cursor.at # "handle" => held["handler"] = 0 /\ status["handler"] = "unread"

IInv ==
  /\ TypeOK
  /\ CountIsOfRunning
  /\ StatusIsCurrent
  /\ EnabledExactlyOutside
  /\ SavedIsOfRunning
  /\ TableIsComplete
  /\ NothingLeftOpen
  /\ HandlersAreComplete

-----------------------------------------------------------------------------

(***************************************************************************)
(* The initial state satisfies the invariant.                              *)
(***************************************************************************)
LEMMA InitInvariant == Init => IInv
<1> SUFFICES ASSUME Init PROVE IInv
  OBVIOUS
<1> USE ConstantsAssumption DEF Init, Contexts, NoChange, Scanning
<1>1. TypeOK
  <2>1. /\ enabled \in BOOLEAN /\ wereEnabled \in BOOLEAN /\ depth \in 0 .. MaxNesting
        /\ running \in Contexts
    <3>1. enabled \in BOOLEAN /\ wereEnabled \in BOOLEAN
      BY Zenon
    <3>2. depth \in 0 .. MaxNesting /\ running \in Contexts
      OBVIOUS
    <3> QED BY <3>1, <3>2
  <2>2. /\ status \in [Contexts -> {"unread", "on", "off"}]
        /\ held \in [Contexts -> 0 .. MaxNesting]
    OBVIOUS
  <2>3. /\ handlers \subseteq Irqs /\ userData \subseteq Irqs /\ unmasked \subseteq Irqs
        /\ raised \subseteq Irqs /\ raises \in [Irqs -> 0 .. MaxRaises]
    OBVIOUS
  <2>4. /\ change \in [do : {"nothing", "handler", "userData", "enable",
                       "noHandler", "noUserData", "disable"}, irq : Irqs \cup {0}]
        /\ cursor \in [at : {"scan", "handle", "return"}, irq : Nat]
    OBVIOUS
  <2> QED BY <2>1, <2>2, <2>3, <2>4 DEF TypeOK
<1>2. CountIsOfRunning /\ StatusIsCurrent /\ EnabledExactlyOutside /\ SavedIsOfRunning
  BY DEF CountIsOfRunning, StatusIsCurrent, EnabledExactlyOutside, SavedIsOfRunning
<1>3. TableIsComplete /\ NothingLeftOpen /\ HandlersAreComplete
  BY DEF TableIsComplete, NothingLeftOpen, HandlersAreComplete
<1> QED BY <1>1, <1>2, <1>3 DEF IInv

\* EnterCriticalSection reads the status.
LEMMA ReadStatusPreserves ==
  ASSUME IInv, NEW c \in Contexts, ReadStatus(c)
  PROVE  IInv'
<1> USE ConstantsAssumption
    DEF IInv, ReadStatus, MayCall, Runs, cpu, count, table, lines, Contexts
<1>1. TypeOK'
  BY DEF TypeOK, CountIsOfRunning, StatusIsCurrent, NothingLeftOpen
<1>2. CountIsOfRunning'
  BY DEF TypeOK, CountIsOfRunning, StatusIsCurrent, EnabledExactlyOutside, NothingLeftOpen
<1>3. StatusIsCurrent'
  BY DEF TypeOK, CountIsOfRunning, StatusIsCurrent, EnabledExactlyOutside, NothingLeftOpen
<1>4. EnabledExactlyOutside'
  BY DEF TypeOK, CountIsOfRunning, StatusIsCurrent, EnabledExactlyOutside, SavedIsOfRunning, NothingLeftOpen
<1>5. SavedIsOfRunning'
  BY DEF TypeOK, CountIsOfRunning, StatusIsCurrent, EnabledExactlyOutside, SavedIsOfRunning, NothingLeftOpen
<1>6. TableIsComplete'
  BY DEF TypeOK, TableIsComplete, NothingLeftOpen
<1>7. NothingLeftOpen'
  BY DEF TypeOK, CountIsOfRunning, StatusIsCurrent, TableIsComplete, NothingLeftOpen
<1>8. HandlersAreComplete'
  BY DEF TypeOK, TableIsComplete, NothingLeftOpen, HandlersAreComplete
<1> QED BY <1>1, <1>2, <1>3, <1>4, <1>5, <1>6, <1>7, <1>8 DEF IInv

\* EnterCriticalSection disables interrupts and counts.
LEMMA DisableAndCountPreserves ==
  ASSUME IInv, NEW c \in Contexts, DisableAndCount(c)
  PROVE  IInv'
<1> USE ConstantsAssumption
    DEF IInv, DisableAndCount, Runs, SaveStatus, cpu, count, table, lines, Contexts
<1>1. TypeOK'
  <2> USE DEF IInv, TypeOK, DisableAndCount, cpu, count, table, lines
  <2>1. /\ enabled' \in BOOLEAN /\ wereEnabled' \in BOOLEAN /\ depth' \in 0 .. MaxNesting
        /\ running' \in Contexts
    <3>1. enabled' \in BOOLEAN
      BY Zenon
    <3>2. wereEnabled' \in BOOLEAN
      BY Zenon DEF SaveStatus
    <3>3. depth' \in 0 .. MaxNesting /\ running' \in Contexts
      BY DEF CountIsOfRunning, StatusIsCurrent, Runs
    <3> QED BY <3>1, <3>2, <3>3
  <2>2. /\ status' \in [Contexts -> {"unread", "on", "off"}]
        /\ held' \in [Contexts -> 0 .. MaxNesting]
    BY DEF CountIsOfRunning, StatusIsCurrent, Runs
  <2>3. /\ handlers' \subseteq Irqs /\ userData' \subseteq Irqs /\ unmasked' \subseteq Irqs
        /\ raised' \subseteq Irqs /\ raises' \in [Irqs -> 0 .. MaxRaises]
    OBVIOUS
  <2>4. change' \in [do : {"nothing", "handler", "userData", "enable",
                       "noHandler", "noUserData", "disable"}, irq : Irqs \cup {0}]
    OBVIOUS
  <2>5. cursor' \in [at : {"scan", "handle", "return"}, irq : Nat]
    BY DEF Scanning
  <2> QED BY <2>1, <2>2, <2>3, <2>4, <2>5
<1>2. CountIsOfRunning'
  BY DEF TypeOK, CountIsOfRunning, StatusIsCurrent, EnabledExactlyOutside, NothingLeftOpen
<1>3. StatusIsCurrent'
  BY DEF TypeOK, CountIsOfRunning, StatusIsCurrent, EnabledExactlyOutside, NothingLeftOpen
<1>4. EnabledExactlyOutside'
  BY DEF TypeOK, CountIsOfRunning, StatusIsCurrent, EnabledExactlyOutside, SavedIsOfRunning, NothingLeftOpen
<1>5. SavedIsOfRunning'
  BY DEF TypeOK, CountIsOfRunning, StatusIsCurrent, EnabledExactlyOutside, SavedIsOfRunning, NothingLeftOpen
<1>6. TableIsComplete'
  BY DEF TypeOK, TableIsComplete, NothingLeftOpen
<1>7. NothingLeftOpen'
  BY DEF TypeOK, CountIsOfRunning, StatusIsCurrent, TableIsComplete, NothingLeftOpen
<1>8. HandlersAreComplete'
  BY DEF TypeOK, TableIsComplete, NothingLeftOpen, HandlersAreComplete
<1> QED BY <1>1, <1>2, <1>3, <1>4, <1>5, <1>6, <1>7, <1>8 DEF IInv

\* LeaveCriticalSection counts back and enables what was enabled.
LEMMA LeaveCriticalSectionPreserves ==
  ASSUME IInv, NEW c \in Contexts, LeaveCriticalSection(c)
  PROVE  IInv'
<1> USE ConstantsAssumption
    DEF IInv, LeaveCriticalSection, MayCall, Runs, EnabledAfter, cpu, count, table, lines, Contexts
<1>1. TypeOK'
  BY DEF TypeOK, CountIsOfRunning, StatusIsCurrent, NothingLeftOpen
<1>2. CountIsOfRunning'
  BY DEF TypeOK, CountIsOfRunning, StatusIsCurrent, EnabledExactlyOutside, NothingLeftOpen
<1>3. StatusIsCurrent'
  BY DEF TypeOK, CountIsOfRunning, StatusIsCurrent, EnabledExactlyOutside, NothingLeftOpen
<1>4. EnabledExactlyOutside'
  BY DEF TypeOK, CountIsOfRunning, StatusIsCurrent, EnabledExactlyOutside, SavedIsOfRunning, NothingLeftOpen
<1>5. SavedIsOfRunning'
  BY DEF TypeOK, CountIsOfRunning, StatusIsCurrent, EnabledExactlyOutside, SavedIsOfRunning, NothingLeftOpen
<1>6. TableIsComplete'
  BY DEF TypeOK, TableIsComplete, NothingLeftOpen
<1>7. NothingLeftOpen'
  BY DEF TypeOK, CountIsOfRunning, StatusIsCurrent, TableIsComplete, NothingLeftOpen
<1>8. HandlersAreComplete'
  BY DEF TypeOK, TableIsComplete, NothingLeftOpen, HandlersAreComplete
<1> QED BY <1>1, <1>2, <1>3, <1>4, <1>5, <1>6, <1>7, <1>8 DEF IInv

\* A call of Register.
LEMMA CallRegisterPreserves ==
  ASSUME IInv, NEW i \in Irqs, CallRegister(i)
  PROVE  IInv'
<1> USE ConstantsAssumption
    DEF IInv, CallRegister, MayCall, Runs, cpu, count, table, lines, Contexts
<1>1. TypeOK'
  BY DEF TypeOK, CountIsOfRunning, StatusIsCurrent, NothingLeftOpen
<1>2. CountIsOfRunning'
  BY DEF TypeOK, CountIsOfRunning, StatusIsCurrent, EnabledExactlyOutside, NothingLeftOpen
<1>3. StatusIsCurrent'
  BY DEF TypeOK, CountIsOfRunning, StatusIsCurrent, EnabledExactlyOutside, NothingLeftOpen
<1>4. EnabledExactlyOutside'
  BY DEF TypeOK, CountIsOfRunning, StatusIsCurrent, EnabledExactlyOutside, SavedIsOfRunning, NothingLeftOpen
<1>5. SavedIsOfRunning'
  BY DEF TypeOK, CountIsOfRunning, StatusIsCurrent, EnabledExactlyOutside, SavedIsOfRunning, NothingLeftOpen
<1>6. TableIsComplete'
  <2>1. change.do = "nothing" /\ change'.do = "handler" /\ change'.irq = i
    BY DEF NoChange
  <2>2. \A j \in Irqs : /\ j \in unmasked => j \in handlers
                       /\ j \in handlers => j \in userData
    BY <2>1 DEF TableIsComplete
  <2> QED BY <2>1, <2>2 DEF TableIsComplete
<1>7. NothingLeftOpen'
  BY DEF TypeOK, CountIsOfRunning, StatusIsCurrent, TableIsComplete, NothingLeftOpen
<1>8. HandlersAreComplete'
  BY DEF TypeOK, TableIsComplete, NothingLeftOpen, HandlersAreComplete
<1> QED BY <1>1, <1>2, <1>3, <1>4, <1>5, <1>6, <1>7, <1>8 DEF IInv

\* The assignments of Register.
LEMMA RegisterPreserves ==
  ASSUME IInv, Register
  PROVE  IInv'
<1> USE ConstantsAssumption
    DEF IInv, Register, Runs, NoChange, cpu, count, table, lines, Contexts
<1>1. TypeOK'
  BY DEF TypeOK, CountIsOfRunning, StatusIsCurrent, NothingLeftOpen
<1>2. CountIsOfRunning'
  BY DEF TypeOK, CountIsOfRunning, StatusIsCurrent, EnabledExactlyOutside, NothingLeftOpen
<1>3. StatusIsCurrent'
  BY DEF TypeOK, CountIsOfRunning, StatusIsCurrent, EnabledExactlyOutside, NothingLeftOpen
<1>4. EnabledExactlyOutside'
  BY DEF TypeOK, CountIsOfRunning, StatusIsCurrent, EnabledExactlyOutside, SavedIsOfRunning, NothingLeftOpen
<1>5. SavedIsOfRunning'
  BY DEF TypeOK, CountIsOfRunning, StatusIsCurrent, EnabledExactlyOutside, SavedIsOfRunning, NothingLeftOpen
<1>6. TableIsComplete'
  <2> USE DEF IInv, TypeOK, TableIsComplete, NothingLeftOpen, NoChange
  <2>1. CASE /\ change.do = "handler" /\ handlers' = handlers \cup {change.irq}
             /\ change' = [change EXCEPT !.do = "userData"]
             /\ UNCHANGED <<userData, unmasked>>
    <3>1. change' = [do |-> "userData", irq |-> change.irq]
          /\ change = [do |-> "handler", irq |-> change.irq]
      BY <2>1
    <3>2. change.irq \notin unmasked
      BY <2>1
    <3> QED BY <2>1, <3>1, <3>2
  <2>2. CASE /\ change.do = "userData" /\ userData' = userData \cup {change.irq}
             /\ change' = [change EXCEPT !.do = "enable"]
             /\ UNCHANGED <<handlers, unmasked>>
    <3>1. change = [do |-> "userData", irq |-> change.irq]
          /\ change' = [do |-> "enable", irq |-> change.irq]
      BY <2>2
    <3> QED BY <2>2, <3>1
  <2>3. CASE /\ change.do = "enable" /\ unmasked' = unmasked \cup {change.irq}
             /\ change' = NoChange
             /\ UNCHANGED <<handlers, userData>>
    <3>1. change = [do |-> "enable", irq |-> change.irq]
      BY <2>3
    <3> QED BY <2>3, <3>1
  <2> QED BY <2>1, <2>2, <2>3 DEF Register
<1>7. NothingLeftOpen'
  BY DEF TypeOK, CountIsOfRunning, StatusIsCurrent, TableIsComplete, NothingLeftOpen
<1>8. HandlersAreComplete'
  BY DEF TypeOK, TableIsComplete, NothingLeftOpen, HandlersAreComplete
<1> QED BY <1>1, <1>2, <1>3, <1>4, <1>5, <1>6, <1>7, <1>8 DEF IInv

\* A call of Unregister.
LEMMA CallUnregisterPreserves ==
  ASSUME IInv, NEW i \in Irqs, CallUnregister(i)
  PROVE  IInv'
<1> USE ConstantsAssumption
    DEF IInv, CallUnregister, MayCall, Runs, cpu, count, table, lines, Contexts
<1>1. TypeOK'
  BY DEF TypeOK, CountIsOfRunning, StatusIsCurrent, NothingLeftOpen
<1>2. CountIsOfRunning'
  BY DEF TypeOK, CountIsOfRunning, StatusIsCurrent, EnabledExactlyOutside, NothingLeftOpen
<1>3. StatusIsCurrent'
  BY DEF TypeOK, CountIsOfRunning, StatusIsCurrent, EnabledExactlyOutside, NothingLeftOpen
<1>4. EnabledExactlyOutside'
  BY DEF TypeOK, CountIsOfRunning, StatusIsCurrent, EnabledExactlyOutside, SavedIsOfRunning, NothingLeftOpen
<1>5. SavedIsOfRunning'
  BY DEF TypeOK, CountIsOfRunning, StatusIsCurrent, EnabledExactlyOutside, SavedIsOfRunning, NothingLeftOpen
<1>6. TableIsComplete'
  <2>1. change.do = "nothing" /\ change'.do = "noHandler" /\ change'.irq = i
    BY DEF NoChange
  <2>2. \A j \in Irqs : /\ j \in unmasked => j \in handlers
                       /\ j \in handlers => j \in userData
    BY <2>1 DEF TableIsComplete
  <2> QED BY <2>1, <2>2 DEF TableIsComplete
<1>7. NothingLeftOpen'
  BY DEF TypeOK, CountIsOfRunning, StatusIsCurrent, TableIsComplete, NothingLeftOpen
<1>8. HandlersAreComplete'
  BY DEF TypeOK, TableIsComplete, NothingLeftOpen, HandlersAreComplete
<1> QED BY <1>1, <1>2, <1>3, <1>4, <1>5, <1>6, <1>7, <1>8 DEF IInv

\* The assignments of Unregister.
LEMMA UnregisterPreserves ==
  ASSUME IInv, Unregister
  PROVE  IInv'
<1> USE ConstantsAssumption
    DEF IInv, Unregister, Runs, NoChange, cpu, count, table, lines, Contexts
<1>1. TypeOK'
  BY DEF TypeOK, CountIsOfRunning, StatusIsCurrent, NothingLeftOpen
<1>2. CountIsOfRunning'
  BY DEF TypeOK, CountIsOfRunning, StatusIsCurrent, EnabledExactlyOutside, NothingLeftOpen
<1>3. StatusIsCurrent'
  BY DEF TypeOK, CountIsOfRunning, StatusIsCurrent, EnabledExactlyOutside, NothingLeftOpen
<1>4. EnabledExactlyOutside'
  BY DEF TypeOK, CountIsOfRunning, StatusIsCurrent, EnabledExactlyOutside, SavedIsOfRunning, NothingLeftOpen
<1>5. SavedIsOfRunning'
  BY DEF TypeOK, CountIsOfRunning, StatusIsCurrent, EnabledExactlyOutside, SavedIsOfRunning, NothingLeftOpen
<1>6. TableIsComplete'
  BY DEF TypeOK, TableIsComplete, NothingLeftOpen
<1>7. NothingLeftOpen'
  BY DEF TypeOK, CountIsOfRunning, StatusIsCurrent, TableIsComplete, NothingLeftOpen
<1>8. HandlersAreComplete'
  BY DEF TypeOK, TableIsComplete, NothingLeftOpen, HandlersAreComplete
<1> QED BY <1>1, <1>2, <1>3, <1>4, <1>5, <1>6, <1>7, <1>8 DEF IInv

\* A device raises its interrupt.
LEMMA RaisePreserves ==
  ASSUME IInv, NEW i \in Irqs, Raise(i)
  PROVE  IInv'
<1>1. UNCHANGED <<cpu, count, table, cursor>>
  BY DEF Raise
<1>2. TypeOK'
  BY ConstantsAssumption DEF IInv, TypeOK, Raise, cpu, count, table
<1>3. CountIsOfRunning' /\ StatusIsCurrent' /\ EnabledExactlyOutside' /\ SavedIsOfRunning'
  BY <1>1 DEF IInv, CountIsOfRunning, StatusIsCurrent, EnabledExactlyOutside,
              SavedIsOfRunning, cpu, count
<1>4. TableIsComplete' /\ NothingLeftOpen' /\ HandlersAreComplete'
  BY <1>1 DEF IInv, TableIsComplete, NothingLeftOpen, HandlersAreComplete, cpu, count, table
<1> QED BY <1>2, <1>3, <1>4 DEF IInv

\* The processor takes an interrupt.
LEMMA TakeInterruptPreserves ==
  ASSUME IInv, TakeInterrupt
  PROVE  IInv'
<1> USE ConstantsAssumption
    DEF IInv, TakeInterrupt, Interrupted, Pending, Scanning, cpu, count, table, lines, Contexts
<1>1. TypeOK'
  BY DEF TypeOK, CountIsOfRunning, StatusIsCurrent, NothingLeftOpen
<1>2. CountIsOfRunning'
  BY DEF TypeOK, CountIsOfRunning, StatusIsCurrent, EnabledExactlyOutside, NothingLeftOpen
<1>3. StatusIsCurrent'
  BY DEF TypeOK, CountIsOfRunning, StatusIsCurrent, EnabledExactlyOutside, NothingLeftOpen
<1>4. EnabledExactlyOutside'
  BY DEF TypeOK, CountIsOfRunning, StatusIsCurrent, EnabledExactlyOutside, SavedIsOfRunning, NothingLeftOpen
<1>5. SavedIsOfRunning'
  BY DEF TypeOK, CountIsOfRunning, StatusIsCurrent, EnabledExactlyOutside, SavedIsOfRunning, NothingLeftOpen
<1>6. TableIsComplete'
  BY DEF TypeOK, TableIsComplete, NothingLeftOpen
<1>7. NothingLeftOpen'
  BY DEF TypeOK, CountIsOfRunning, StatusIsCurrent, TableIsComplete, NothingLeftOpen
<1>8. HandlersAreComplete'
  BY DEF TypeOK, TableIsComplete, NothingLeftOpen, HandlersAreComplete
<1> QED BY <1>1, <1>2, <1>3, <1>4, <1>5, <1>6, <1>7, <1>8 DEF IInv

\* InterruptHandler finds a pending interrupt.
LEMMA HandlePreserves ==
  ASSUME IInv, NEW i \in Irqs, Handle(i)
  PROVE  IInv'
<1> USE ConstantsAssumption
    DEF IInv, Handle, FirstPending, Pending, cpu, count, table, lines, Contexts
<1>1. TypeOK'
  <2> USE DEF IInv, TypeOK, Handle, cpu, count, table, lines
  <2>1. /\ enabled' \in BOOLEAN /\ wereEnabled' \in BOOLEAN /\ depth' \in 0 .. MaxNesting
        /\ running' \in Contexts
    BY DEF CountIsOfRunning, StatusIsCurrent, Runs, SaveStatus
  <2>2. /\ status' \in [Contexts -> {"unread", "on", "off"}]
        /\ held' \in [Contexts -> 0 .. MaxNesting]
    BY DEF CountIsOfRunning, StatusIsCurrent, Runs
  <2>3. /\ handlers' \subseteq Irqs /\ userData' \subseteq Irqs /\ unmasked' \subseteq Irqs
        /\ raised' \subseteq Irqs /\ raises' \in [Irqs -> 0 .. MaxRaises]
    OBVIOUS
  <2>4. change' \in [do : {"nothing", "handler", "userData", "enable",
                       "noHandler", "noUserData", "disable"}, irq : Irqs \cup {0}]
    OBVIOUS
  <2>5. cursor' \in [at : {"scan", "handle", "return"}, irq : Nat]
    BY DEF Scanning
  <2> QED BY <2>1, <2>2, <2>3, <2>4, <2>5
<1>2. CountIsOfRunning'
  BY DEF TypeOK, CountIsOfRunning, StatusIsCurrent, EnabledExactlyOutside, NothingLeftOpen
<1>3. StatusIsCurrent'
  BY DEF TypeOK, CountIsOfRunning, StatusIsCurrent, EnabledExactlyOutside, NothingLeftOpen
<1>4. EnabledExactlyOutside'
  BY DEF TypeOK, CountIsOfRunning, StatusIsCurrent, EnabledExactlyOutside, SavedIsOfRunning, NothingLeftOpen
<1>5. SavedIsOfRunning'
  BY DEF TypeOK, CountIsOfRunning, StatusIsCurrent, EnabledExactlyOutside, SavedIsOfRunning, NothingLeftOpen
<1>6. TableIsComplete'
  BY DEF TypeOK, TableIsComplete, NothingLeftOpen
<1>7. NothingLeftOpen'
  BY DEF TypeOK, CountIsOfRunning, StatusIsCurrent, TableIsComplete, NothingLeftOpen
<1>8. HandlersAreComplete'
  BY DEF TypeOK, TableIsComplete, NothingLeftOpen, HandlersAreComplete
<1> QED BY <1>1, <1>2, <1>3, <1>4, <1>5, <1>6, <1>7, <1>8 DEF IInv

\* A handler returns.
LEMMA HandlerReturnsPreserves ==
  ASSUME IInv, HandlerReturns
  PROVE  IInv'
<1> USE ConstantsAssumption
    DEF IInv, HandlerReturns, cpu, count, table, lines, Contexts
<1>1. TypeOK'
  BY DEF TypeOK, CountIsOfRunning, StatusIsCurrent, NothingLeftOpen
<1>2. CountIsOfRunning'
  BY DEF TypeOK, CountIsOfRunning, StatusIsCurrent, EnabledExactlyOutside, NothingLeftOpen
<1>3. StatusIsCurrent'
  BY DEF TypeOK, CountIsOfRunning, StatusIsCurrent, EnabledExactlyOutside, NothingLeftOpen
<1>4. EnabledExactlyOutside'
  BY DEF TypeOK, CountIsOfRunning, StatusIsCurrent, EnabledExactlyOutside, SavedIsOfRunning, NothingLeftOpen
<1>5. SavedIsOfRunning'
  BY DEF TypeOK, CountIsOfRunning, StatusIsCurrent, EnabledExactlyOutside, SavedIsOfRunning, NothingLeftOpen
<1>6. TableIsComplete'
  BY DEF TypeOK, TableIsComplete, NothingLeftOpen
<1>7. NothingLeftOpen'
  BY DEF TypeOK, CountIsOfRunning, StatusIsCurrent, TableIsComplete, NothingLeftOpen
<1>8. HandlersAreComplete'
  BY DEF TypeOK, TableIsComplete, NothingLeftOpen, HandlersAreComplete
<1> QED BY <1>1, <1>2, <1>3, <1>4, <1>5, <1>6, <1>7, <1>8 DEF IInv

\* InterruptHandler returns.
LEMMA ReturnFromInterruptPreserves ==
  ASSUME IInv, ReturnFromInterrupt
  PROVE  IInv'
<1> USE ConstantsAssumption
    DEF IInv, ReturnFromInterrupt, FirstPending, Pending, Scanning, cpu, count, table, lines, Contexts
<1>1. TypeOK'
  BY DEF TypeOK, CountIsOfRunning, StatusIsCurrent, NothingLeftOpen
<1>2. CountIsOfRunning'
  BY DEF TypeOK, CountIsOfRunning, StatusIsCurrent, EnabledExactlyOutside, NothingLeftOpen
<1>3. StatusIsCurrent'
  BY DEF TypeOK, CountIsOfRunning, StatusIsCurrent, EnabledExactlyOutside, NothingLeftOpen
<1>4. EnabledExactlyOutside'
  BY DEF TypeOK, CountIsOfRunning, StatusIsCurrent, EnabledExactlyOutside, SavedIsOfRunning, NothingLeftOpen
<1>5. SavedIsOfRunning'
  BY DEF TypeOK, CountIsOfRunning, StatusIsCurrent, EnabledExactlyOutside, SavedIsOfRunning, NothingLeftOpen
<1>6. TableIsComplete'
  BY DEF TypeOK, TableIsComplete, NothingLeftOpen
<1>7. NothingLeftOpen'
  BY DEF TypeOK, CountIsOfRunning, StatusIsCurrent, TableIsComplete, NothingLeftOpen
<1>8. HandlersAreComplete'
  BY DEF TypeOK, TableIsComplete, NothingLeftOpen, HandlersAreComplete
<1> QED BY <1>1, <1>2, <1>3, <1>4, <1>5, <1>6, <1>7, <1>8 DEF IInv

\* A step that changes no variable preserves the invariant.
LEMMA StutterPreserves == IInv /\ UNCHANGED vars => IInv'
<1> SUFFICES ASSUME IInv, UNCHANGED vars PROVE IInv'
  OBVIOUS
<1> USE DEF IInv, vars
<1>1. TypeOK' /\ CountIsOfRunning' /\ StatusIsCurrent'
  BY DEF TypeOK, CountIsOfRunning, StatusIsCurrent
<1>2. EnabledExactlyOutside' /\ SavedIsOfRunning' /\ TableIsComplete'
  BY DEF EnabledExactlyOutside, SavedIsOfRunning, TableIsComplete
<1>3. NothingLeftOpen' /\ HandlersAreComplete'
  BY DEF NothingLeftOpen, HandlersAreComplete
<1> QED BY <1>1, <1>2, <1>3

\* Every step of the two contexts, the devices and the controller.
LEMMA NextPreserves == IInv /\ [Next]_vars => IInv'
<1> SUFFICES ASSUME IInv, [Next]_vars PROVE IInv'
  OBVIOUS
<1>1. CASE Sections
  BY <1>1, ReadStatusPreserves, DisableAndCountPreserves, LeaveCriticalSectionPreserves
     DEF Sections
<1>2. CASE \E i \in Irqs : CallRegister(i) \/ CallUnregister(i) \/ Raise(i)
  BY <1>2, CallRegisterPreserves, CallUnregisterPreserves, RaisePreserves
<1>3. CASE Changing
  BY <1>3, RegisterPreserves, UnregisterPreserves DEF Changing
<1>4. CASE Dispatching
  BY <1>4, TakeInterruptPreserves, HandlePreserves, HandlerReturnsPreserves,
     ReturnFromInterruptPreserves DEF Dispatching
<1>5. CASE UNCHANGED vars
  BY <1>5, StutterPreserves
<1> QED BY <1>1, <1>2, <1>3, <1>4, <1>5 DEF Next

-----------------------------------------------------------------------------

(***************************************************************************)
(* The inductive invariant holds in every state of Interrupt.cpp.          *)
(***************************************************************************)
THEOREM Invariance == Spec => []IInv
BY InitInvariant, NextPreserves, PTL DEF Spec

(***************************************************************************)
(* Every variable keeps its type; in particular s_criticalLevelDepth stays *)
(* between 0 and the deepest nesting of one context, whatever interrupts.  *)
(***************************************************************************)
THEOREM TypeCorrect == Spec => []TypeOK
<1>1. IInv => TypeOK
  BY DEF IInv
<1> QED BY <1>1, Invariance, PTL

(***************************************************************************)
(* A critical section of Interrupt.cpp excludes the other context: the     *)
(* count that both share belongs to the context that is in one.            *)
(***************************************************************************)
THEOREM CriticalSectionsExclude == Spec => []SectionsAreExclusive
<1>1. ASSUME IInv PROVE SectionsAreExclusive
  <2> SUFFICES ASSUME NEW c \in Contexts, held[c] > 0
               PROVE  running = c /\ ~enabled /\ depth = held[c]
    BY DEF SectionsAreExclusive
  <2>1. running = c /\ depth = held[c]
    BY <1>1 DEF IInv, TypeOK, CountIsOfRunning
  <2>2. ~enabled
    BY <1>1, <2>1 DEF IInv, TypeOK, EnabledExactlyOutside, Contexts
  <2> QED BY <2>1, <2>2
<1> QED BY <1>1, Invariance, PTL

(***************************************************************************)
(* LeaveCriticalSection restores what the outermost EnterCriticalSection   *)
(* found, although an interrupt between its two steps uses the variables.  *)
(***************************************************************************)
THEOREM InterruptsAreRestored == Spec => []EnabledExactlyOutside
<1>1. IInv => EnabledExactlyOutside
  BY DEF IInv
<1> QED BY <1>1, Invariance, PTL

(***************************************************************************)
(* InterruptHandler calls a handler only after Register has stored its     *)
(* user data, whichever assignment of Register is interrupted.             *)
(***************************************************************************)
THEOREM HandlersAreRegistered == Spec => []HandlersAreComplete
<1>1. IInv => HandlersAreComplete
  BY DEF IInv
<1> QED BY <1>1, Invariance, PTL
=============================================================================
