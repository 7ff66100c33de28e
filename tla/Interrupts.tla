----------------------------- MODULE Interrupts -----------------------------
(***************************************************************************)
(* Critical sections and the dispatching of interrupts (Interrupt.cpp,     *)
(* InterruptHandlers.cpp, InterruptStubs.S).  One processor runs either    *)
(* the kernel thread or InterruptHandler; both enter critical sections,    *)
(* nested ones too, and share the two variables that count them.  The      *)
(* other modules take a critical section for one atomic step: this one     *)
(* shows why they may.                                                     *)
(***************************************************************************)
EXTENDS Integers, FiniteSets

CONSTANTS
  Irqs,       (* the interrupts in use, of 0 .. NUMBER_OF_INTERRUPTS - 1    *)
  MaxNesting, (* how deep the callers nest critical sections                *)
  MaxRaises   (* bounds how often a device raises its interrupt             *)

ASSUME ConstantsAssumption ==
  /\ Irqs \subseteq Nat /\ IsFiniteSet(Irqs)
  /\ MaxNesting \in Nat \ {0} /\ MaxRaises \in Nat

Contexts == {"thread", "handler"}

VARIABLES
  enabled,     (* the I bit of CPSR is clear                                *)
  depth,       (* s_criticalLevelDepth                                      *)
  wereEnabled, (* s_interruptsWereEnabled                                   *)
  running,     (* the context on the processor                              *)
  status,      (* EnterCriticalSection: what Status() returned, or "unread" *)
  held,        (* the critical sections each context is in                  *)
  handlers, userData,  (* s_irqHandlers                                     *)
  unmasked,    (* the enable bits of the interrupt controller               *)
  raised,      (* the interrupts the devices hold up                        *)
  raises,      (* how often each has been raised                            *)
  change,      (* what Register or Unregister, called by the thread, does   *)
  cursor       (* i of InterruptHandler, or the handler that runs           *)

vars == <<enabled, depth, wereEnabled, running, status, held, handlers, userData,
          unmasked, raised, raises, change, cursor>>

cpu   == <<enabled, running>>
count == <<depth, wereEnabled, status, held>>
table == <<handlers, userData, unmasked, change>>
lines == <<raised, raises>>

NoChange  == [do |-> "nothing", irq |-> 0]
Scanning  == [at |-> "scan", irq |-> 0]

Init ==
  /\ enabled = TRUE
  /\ depth = 0 /\ wereEnabled = FALSE
  /\ running = "thread"
  /\ status = [c \in Contexts |-> "unread"] /\ held = [c \in Contexts |-> 0]
  /\ handlers = {} /\ userData = {} /\ unmasked = {}
  /\ raised = {} /\ raises = [i \in Irqs |-> 0]
  /\ change = NoChange
  /\ cursor = Scanning

Pending == raised \cap unmasked

\* The processor takes an interrupt before the next instruction.
Interrupted == running = "thread" /\ enabled /\ Pending # {}

Runs(c) == running = c /\ ~Interrupted

\* The code of the caller: a thread, or a handler that InterruptHandler called.
MayCall(c) ==
  /\ Runs(c) /\ status[c] = "unread"
  /\ IF c = "thread" THEN change = NoChange ELSE cursor.at = "handle"

-----------------------------------------------------------------------------
(* EnterCriticalSection: an interrupt may come between the two steps.        *)

ReadStatus(c) ==
  /\ MayCall(c) /\ held[c] < MaxNesting
  /\ status' = [status EXCEPT ![c] = IF enabled THEN "on" ELSE "off"]
  /\ UNCHANGED <<cpu, depth, wereEnabled, held, table, lines, cursor>>

SaveStatus(c) ==
  wereEnabled' = IF depth = 0 THEN status[c] = "on" ELSE wereEnabled

\* Disable(), and nothing interrupts the rest.
DisableAndCount(c) ==
  /\ Runs(c) /\ status[c] # "unread"
  /\ enabled' = FALSE
  /\ depth' = depth + 1
  /\ SaveStatus(c)
  /\ held' = [held EXCEPT ![c] = @ + 1]
  /\ status' = [status EXCEPT ![c] = "unread"]
  /\ UNCHANGED <<running, table, lines, cursor>>

\* Slip: interrupts are enabled whenever a section is left.
EnabledAfterAny == TRUE

\* Slip: interrupts are enabled behind the outermost section in any case.
EnabledAfterOutermost == enabled \/ depth = 1

EnabledAfter == enabled \/ (depth = 1 /\ wereEnabled)

LeaveCriticalSection(c) ==
  /\ MayCall(c) /\ held[c] > 0
  /\ depth' = depth - 1
  /\ enabled' = EnabledAfter
  /\ held' = [held EXCEPT ![c] = @ - 1]
  /\ UNCHANGED <<running, wereEnabled, status, table, lines, cursor>>

-----------------------------------------------------------------------------
(* Register and Unregister, one assignment at a time.                        *)

CallRegister(i) ==
  /\ MayCall("thread") /\ i \notin handlers
  /\ change' = [do |-> "handler", irq |-> i]
  /\ UNCHANGED <<cpu, count, handlers, userData, unmasked, lines, cursor>>

\* Slip: the interrupt is enabled before its handler is complete.
RegisterEnabledFirst ==
  /\ Runs("thread")
  /\ LET i == change.irq IN
     \/ /\ change.do = "handler"
        /\ handlers' = handlers \cup {i} /\ unmasked' = unmasked \cup {i}
        /\ change' = [change EXCEPT !.do = "userData"]
        /\ UNCHANGED userData
     \/ /\ change.do = "userData"
        /\ userData' = userData \cup {i} /\ change' = NoChange
        /\ UNCHANGED <<handlers, unmasked>>
  /\ UNCHANGED <<cpu, count, lines, cursor>>

Register ==
  /\ Runs("thread")
  /\ LET i == change.irq IN
     \/ /\ change.do = "handler"
        /\ handlers' = handlers \cup {i}
        /\ change' = [change EXCEPT !.do = "userData"]
        /\ UNCHANGED <<userData, unmasked>>
     \/ /\ change.do = "userData"
        /\ userData' = userData \cup {i}
        /\ change' = [change EXCEPT !.do = "enable"]
        /\ UNCHANGED <<handlers, unmasked>>
     \/ /\ change.do = "enable"
        /\ unmasked' = unmasked \cup {i} /\ change' = NoChange
        /\ UNCHANGED <<handlers, userData>>
  /\ UNCHANGED <<cpu, count, lines, cursor>>

CallUnregister(i) ==
  /\ MayCall("thread") /\ i \in handlers
  /\ change' = [do |-> "noHandler", irq |-> i]
  /\ UNCHANGED <<cpu, count, handlers, userData, unmasked, lines, cursor>>

Unregister ==
  /\ Runs("thread")
  /\ LET i == change.irq IN
     \/ /\ change.do = "noHandler"
        /\ handlers' = handlers \ {i}
        /\ change' = [change EXCEPT !.do = "noUserData"]
        /\ UNCHANGED <<userData, unmasked>>
     \/ /\ change.do = "noUserData"
        /\ userData' = userData \ {i}
        /\ change' = [change EXCEPT !.do = "disable"]
        /\ UNCHANGED <<handlers, unmasked>>
     \/ /\ change.do = "disable"
        /\ unmasked' = unmasked \ {i} /\ change' = NoChange
        /\ UNCHANGED <<handlers, userData>>
  /\ UNCHANGED <<cpu, count, lines, cursor>>

-----------------------------------------------------------------------------
(* An interrupt.                                                             *)

\* A device raises its interrupt and holds it up until its handler has run.
Raise(i) ==
  /\ i \notin raised /\ raises[i] < MaxRaises
  /\ raised' = raised \cup {i}
  /\ raises' = [raises EXCEPT ![i] = @ + 1]
  /\ UNCHANGED <<cpu, count, table, cursor>>

TakeInterrupt ==
  /\ Interrupted
  /\ running' = "handler" /\ enabled' = FALSE
  /\ cursor' = Scanning
  /\ UNCHANGED <<count, table, lines>>

\* The next interrupt of the scan that is pending.
FirstPending(i) ==
  i \in Pending /\ cursor.irq <= i /\ \A j \in Pending : cursor.irq <= j => i <= j

\* Slip: the scan ends with an interrupt that has no handler.
HandleAndReturn(i) ==
  /\ running = "handler" /\ cursor.at = "scan" /\ FirstPending(i)
  /\ cursor' = [at |-> IF i \in handlers THEN "handle" ELSE "return", irq |-> i]
  /\ UNCHANGED <<cpu, count, table, lines>>

\* The whole Unregister: nothing interrupts it here.
Handle(i) ==
  /\ running = "handler" /\ cursor.at = "scan" /\ FirstPending(i)
  /\ IF i \in handlers
     THEN /\ cursor' = [at |-> "handle", irq |-> i]
          /\ UNCHANGED <<userData, unmasked>>
     ELSE /\ cursor' = [at |-> "scan", irq |-> i + 1]
          /\ userData' = userData \ {i} /\ unmasked' = unmasked \ {i}
  /\ UNCHANGED <<cpu, count, handlers, change, lines>>

\* The handler has served its device and returns.
HandlerReturns ==
  /\ running = "handler" /\ cursor.at = "handle"
  /\ held["handler"] = 0 /\ status["handler"] = "unread"
  /\ raised' = raised \ {cursor.irq}
  /\ cursor' = [cursor EXCEPT !.at = "return"]
  /\ UNCHANGED <<cpu, count, table, raises>>

\* The interrupted thread continues with the CPSR it had.
ReturnFromInterrupt ==
  /\ running = "handler"
  /\ \/ cursor.at = "return"
     \/ cursor.at = "scan" /\ \A i \in Irqs : ~FirstPending(i)
  /\ running' = "thread" /\ enabled' = TRUE
  /\ cursor' = Scanning
  /\ UNCHANGED <<count, table, lines>>

-----------------------------------------------------------------------------

Sections ==
  \E c \in Contexts : ReadStatus(c) \/ DisableAndCount(c) \/ LeaveCriticalSection(c)

Changing == Register \/ Unregister

Dispatching ==
  \/ TakeInterrupt
  \/ \E i \in Irqs : Handle(i)
  \/ HandlerReturns
  \/ ReturnFromInterrupt

Next ==
  \/ Sections
  \/ \E i \in Irqs : CallRegister(i) \/ CallUnregister(i) \/ Raise(i)
  \/ Changing
  \/ Dispatching

Spec == Init /\ [][Next]_vars

(***************************************************************************)
(* The processor goes on, and no caller stays in a critical section or in  *)
(* a handler for ever.                                                     *)
(***************************************************************************)
FairSpec ==
  /\ Spec
  /\ \A c \in Contexts : WF_vars(DisableAndCount(c))
  /\ \A c \in Contexts, n \in 1 .. MaxNesting : SF_vars(LeaveCriticalSection(c) /\ held[c] = n)
  /\ WF_vars(Changing) /\ SF_vars(Dispatching)

-----------------------------------------------------------------------------

TypeOK ==
  /\ enabled \in BOOLEAN /\ wereEnabled \in BOOLEAN /\ depth \in 0 .. MaxNesting
  /\ running \in Contexts
  /\ status \in [Contexts -> {"unread", "on", "off"}]
  /\ held \in [Contexts -> 0 .. MaxNesting]
  /\ handlers \subseteq Irqs /\ userData \subseteq Irqs /\ unmasked \subseteq Irqs
  /\ raised \subseteq Irqs /\ raises \in [Irqs -> 0 .. MaxRaises]
  /\ change \in [do : {"nothing", "handler", "userData", "enable",
                       "noHandler", "noUserData", "disable"}, irq : Irqs \cup {0}]
  /\ cursor \in [at : {"scan", "handle", "return"}, irq : Nat]

(***************************************************************************)
(* While a context is in a critical section no interrupt is taken: the     *)
(* other context does not run, and the count is the one of this context.   *)
(***************************************************************************)
SectionsAreExclusive ==
  \A c \in Contexts :
    held[c] > 0 => running = c /\ ~enabled /\ depth = held[c]

(***************************************************************************)
(* Interrupts are enabled for a thread outside critical sections, and only *)
(* there, although an interrupt between Status() and Disable() uses the    *)
(* same two variables: InterruptHandler is never interrupted itself.       *)
(***************************************************************************)
EnabledExactlyOutside == enabled <=> running = "thread" /\ held["thread"] = 0

(***************************************************************************)
(* A handler is called only with the user data that was registered for it, *)
(* although Register and Unregister may be interrupted at every assignment.*)
(***************************************************************************)
HandlersAreComplete == cursor.at = "handle" => cursor.irq \in handlers \cap userData

(***************************************************************************)
(* An interrupt that a device raises does not stay pending for ever.       *)
(***************************************************************************)
InterruptsAreServed == \A i \in Irqs : i \in Pending ~> i \notin Pending
=============================================================================
