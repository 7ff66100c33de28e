------------------------------- MODULE Tasks -------------------------------
(***************************************************************************)
(* The tasks of the kernel (Task.cpp) on the lists of IntrusiveList.h.     *)
(* A Task has one pair of links, and is in two lists: s_tasks, which only  *)
(* grows, and s_runQueue, the tasks that wait for the processor.  The       *)
(* stacks and the saved registers of the tasks are left out.               *)
(***************************************************************************)
EXTENDS Naturals, FiniteSets

CONSTANTS
  Blocks,  (* the memory blocks that allocate<Task> may return              *)
  Idle,    (* the Task of Tasks::Initialize                                 *)
  Null,
  MaxTasks (* bounds how often Create is called                             *)

ASSUME ConstantsAssumption ==
  /\ IsFiniteSet(Blocks) /\ Idle \notin Blocks
  /\ Null \notin Blocks \cup {Idle}
  /\ MaxTasks \in Nat

Nodes == Blocks \cup {Idle}

VARIABLES
  next, prev, (* the links of every Task, also of those that are freed      *)
  pid,        (* and its pid                                                *)
  taskIdCounter,
  tasks,      (* s_tasks: its head and tail                                 *)
  runQueue,   (* s_runQueue                                                 *)
  current,    (* s_currentTask; Null when the processor has left the tasks  *)
  allocated   (* the blocks that hold a task                                *)

vars == <<next, prev, pid, taskIdCounter, tasks, runQueue, current, allocated>>

-----------------------------------------------------------------------------
(* IntrusiveList<Task>, with the links it changes.                           *)

List(ends, n, p) == [head |-> ends.head, tail |-> ends.tail, next |-> n, prev |-> p]
Ends(l) == [head |-> l.head, tail |-> l.tail]

\* Slip: the newest task is the next to run.
AddInFront(l, item) ==
  [head |-> item, tail |-> IF l.head = Null THEN item ELSE l.tail,
   next |-> [l.next EXCEPT ![item] = l.head],
   prev |-> [n \in Nodes |-> IF n = l.head THEN item ELSE IF n = item THEN Null ELSE l.prev[n]]]

Add(l, item) ==
  IF l.head = Null
  THEN [head |-> item, tail |-> item,
        next |-> [l.next EXCEPT ![item] = Null], prev |-> [l.prev EXCEPT ![item] = Null]]
  ELSE [head |-> l.head, tail |-> item,
        next |-> [l.next EXCEPT ![l.tail] = item, ![item] = Null],
        prev |-> [l.prev EXCEPT ![item] = l.tail]]

Remove(l, item) ==
  LET p == l.prev[item]
      n == l.next[item] IN
  [head |-> IF p = Null THEN n ELSE l.head,
   tail |-> IF n = Null THEN p ELSE l.tail,
   next |-> IF p = Null THEN l.next ELSE [l.next EXCEPT ![p] = n],
   prev |-> IF n = Null THEN l.prev ELSE [l.prev EXCEPT ![n] = p]]

\* The nodes that GetCount walks, and where it is after as many as there are.
Walk(head) ==
  LET at[k \in 0 .. Cardinality(Nodes)] ==
        IF k = 0 THEN head ELSE IF at[k - 1] = Null THEN Null ELSE next[at[k - 1]]
  IN  at

Waiting == {Walk(runQueue.head)[k] : k \in 0 .. Cardinality(Nodes)} \ {Null}

-----------------------------------------------------------------------------

\* Tasks::Initialize: the idle task runs, and is in s_tasks only.
Init ==
  /\ next = [n \in Nodes |-> Null] /\ prev = [n \in Nodes |-> Null]
  /\ pid = [n \in Nodes |-> 0] /\ taskIdCounter = 1
  /\ tasks = [head |-> Idle, tail |-> Idle]
  /\ runQueue = [head |-> Null, tail |-> Null]
  /\ current = Idle
  /\ allocated = {}

(***************************************************************************)
(* A new task starts in the mode of SwitchToTask's caller, which is that   *)
(* of the interrupt handler: interrupts stay off until the idle task,      *)
(* the only one that was interrupted, goes on.                             *)
(***************************************************************************)
InterruptsEnabled == current = Idle

NewTask(task) ==
  /\ current # Null
  /\ task \in Blocks \ allocated /\ taskIdCounter <= MaxTasks
  /\ allocated' = allocated \cup {task}
  /\ pid' = [pid EXCEPT ![task] = taskIdCounter]
  /\ taskIdCounter' = taskIdCounter + 1

\* A critical section: no interrupt comes between the two lists.
Create(task) ==
  /\ NewTask(task)
  /\ LET listed == Add(List(tasks, next, prev), task)
         queued == Add(List(runQueue, listed.next, listed.prev), task) IN
     /\ tasks' = Ends(listed) /\ runQueue' = Ends(queued)
     /\ next' = queued.next /\ prev' = queued.prev
  /\ UNCHANGED current

Preempt ==
  /\ InterruptsEnabled
  /\ runQueue.head # Null
  /\ LET popped == Remove(List(runQueue, next, prev), runQueue.head)
         queued == Add(popped, current) IN
     /\ runQueue' = Ends(queued)
     /\ next' = queued.next /\ prev' = queued.prev
  /\ current' = runQueue.head
  /\ UNCHANGED <<tasks, allocated, pid, taskIdCounter>>

\* Slip: the ended task is put back, as Preempt puts back the one it stops.
CleanupQueued ==
  /\ current \in Blocks /\ runQueue.head # Null
  /\ allocated' = allocated \ {current}
  /\ current' = runQueue.head
  /\ LET queued == Add(Remove(List(runQueue, next, prev), runQueue.head), current) IN
     /\ runQueue' = Ends(queued)
     /\ next' = queued.next /\ prev' = queued.prev
  /\ UNCHANGED <<tasks, pid, taskIdCounter>>

(***************************************************************************)
(* The current task ends.  Its block is free, and still linked where it    *)
(* was.  With nobody on the run queue, a task is read at address 0.        *)
(***************************************************************************)
Cleanup ==
  /\ current \in Blocks
  /\ allocated' = allocated \ {current}
  /\ current' = runQueue.head
  /\ IF runQueue.head = Null
     THEN UNCHANGED <<next, prev, runQueue>>
     ELSE LET popped == Remove(List(runQueue, next, prev), runQueue.head) IN
          /\ runQueue' = Ends(popped)
          /\ next' = popped.next /\ prev' = popped.prev
  /\ UNCHANGED <<tasks, pid, taskIdCounter>>

Next == (\E task \in Blocks : Create(task)) \/ Preempt \/ Cleanup

Spec == Init /\ [][Next]_vars

-----------------------------------------------------------------------------

TypeOK ==
  /\ next \in [Nodes -> Nodes \cup {Null}] /\ prev \in [Nodes -> Nodes \cup {Null}]
  /\ pid \in [Nodes -> 0 .. MaxTasks] /\ taskIdCounter \in 1 .. MaxTasks + 1
  /\ tasks \in [head : Nodes, tail : Nodes]
  /\ runQueue \in [head : Nodes \cup {Null}, tail : Nodes \cup {Null}]
  /\ current \in Nodes \cup {Null}
  /\ allocated \subseteq Blocks

(***************************************************************************)
(* GetCount comes to an end, and the run queue holds only tasks that have  *)
(* not ended and do not run, although s_tasks uses the same links and      *)
(* still leads through blocks that were freed and used again.              *)
(***************************************************************************)
RunQueueIsSound ==
  /\ Walk(runQueue.head)[Cardinality(Nodes)] = Null
  /\ Waiting \subseteq (allocated \cup {Idle}) \ {current}

(***************************************************************************)
(* A task that was created runs or waits for the processor until it ends,  *)
(* although a later Create may change the links of a waiting task.         *)
(***************************************************************************)
NoTaskIsLost == allocated \ {current} \subseteq Waiting

\* What holds of the two lists at any time, although their nodes share one pair of links.
ListsAreSound == TypeOK /\ RunQueueIsSound /\ NoTaskIsLost

(***************************************************************************)
(* Tasks start in the order of their creation.                             *)
(***************************************************************************)
TasksTakeTurns ==
  [][current' # current /\ current' \in Blocks =>
       \A task \in allocated \ {current} : pid[current'] <= pid[task]]_vars

(***************************************************************************)
(* "We always have the kernel idle task to keep us company."  (Cleanup)    *)
(***************************************************************************)
IdleKeepsUsCompany == current = Idle \/ Idle \in Waiting
=============================================================================
