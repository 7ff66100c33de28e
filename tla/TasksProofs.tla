---------------------------- MODULE TasksProofs ----------------------------
(***************************************************************************)
(* Proofs about Tasks, for any number of tasks and any blocks their memory *)
(* may come from: the run queue stays a sound list of exactly the tasks    *)
(* that wait, and they run in the order of their creation.                 *)
(***************************************************************************)
EXTENDS Tasks, FiniteSetTheorems, WellFoundedInduction, TLAPS

\* The nodes of a list in their order; where the link of the last leads is left open.
Links(l, m, f) ==
  /\ \A i, j \in 1 .. m : f[i] = f[j] => i = j
  /\ m = 0 => l.head = Null /\ l.tail = Null
  /\ m > 0 => l.head = f[1] /\ l.tail = f[m] /\ l.prev[f[1]] = Null
  /\ \A i \in 1 .. m : i < m => l.next[f[i]] = f[i + 1]

Chain(l, m, f) == Links(l, m, f) /\ (m > 0 => l.next[f[m]] = Null)

\* Those that wait, in the order of their creation; the idle task anywhere between them.
Waits(m, f) ==
  /\ \A i \in 1 .. m : f[i] \in (allocated \cup {Idle}) \ {current}
  /\ \A a \in allocated \ {current} : \E i \in 1 .. m : f[i] = a
  /\ \A i, j \in 1 .. m : i < j /\ f[i] # Idle /\ f[j] # Idle => pid[f[i]] < pid[f[j]]

RunQueueIsChain ==
  \E m \in Nat : \E f \in [1 .. m -> Nodes] : Chain(List(runQueue, next, prev), m, f) /\ Waits(m, f)

\* The last of s_tasks is the newest task, also when it has ended.
TailIsNewest ==
  /\ \A a \in allocated : pid[a] < taskIdCounter
  /\ tasks.tail \in allocated => \A a \in allocated : pid[a] <= pid[tasks.tail]
  /\ tasks.tail = Idle => allocated = {}

\* Who runs has not ended.
RunningHasNotEnded == current \in allocated \cup {Idle, Null}

IInv == TypeOK /\ RunQueueIsChain /\ TailIsNewest /\ RunningHasNotEnded

-----------------------------------------------------------------------------
(* The list.                                                                 *)

LinkFunctions == [Nodes -> Nodes \cup {Null}]

\* Every node of a list links to nodes or to none.
LinksInNodes(l) == l.next \in LinkFunctions /\ l.prev \in LinkFunctions

LEMMA NullIsNoNode == Null \notin Nodes /\ Idle \in Nodes /\ Blocks \subseteq Nodes
BY ConstantsAssumption DEF Nodes

LEMMA ListField ==
  ASSUME NEW e, NEW n, NEW p
  PROVE  /\ List(e, n, p).head = e.head /\ List(e, n, p).tail = e.tail
         /\ List(e, n, p).next = n /\ List(e, n, p).prev = p
         /\ Ends(e).head = e.head /\ Ends(e).tail = e.tail
BY DEF List, Ends

\* Add puts an item that is not in a list behind its last.
LEMMA Appended ==
  ASSUME NEW ends, NEW n \in LinkFunctions, NEW p \in LinkFunctions, NEW item \in Nodes,
         NEW m \in Nat, NEW f \in [1 .. m -> Nodes], Links(List(ends, n, p), m, f),
         \A i \in 1 .. m : f[i] # item,
         NEW g \in [1 .. m + 1 -> Nodes], g[m + 1] = item, \A i \in 1 .. m : g[i] = f[i]
  PROVE  /\ Chain(Add(List(ends, n, p), item), m + 1, g)
         /\ LinksInNodes(Add(List(ends, n, p), item))
<1> DEFINE l == List(ends, n, p)
           a == Add(l, item)
<1>1. l.head = ends.head /\ l.tail = ends.tail /\ l.next = n /\ l.prev = p
  BY DEF List
<1>2. /\ g[m + 1] = item
      /\ \A i \in 1 .. m : g[i] = f[i] /\ i \in 1 .. m + 1
  OBVIOUS
<1>3. \A i, j \in 1 .. m + 1 : g[i] = g[j] => i = j
  <2> SUFFICES ASSUME NEW i \in 1 .. m + 1, NEW j \in 1 .. m + 1, g[i] = g[j] PROVE i = j
    OBVIOUS
  <2>1. (i \in 1 .. m \/ i = m + 1) /\ (j \in 1 .. m \/ j = m + 1)
    OBVIOUS
  <2>2. QED
    BY <1>2, <2>1 DEF Links
<1>4. CASE m = 0
  <2>1. /\ a.head = item /\ a.tail = item
        /\ a.next = [n EXCEPT ![item] = Null] /\ a.prev = [p EXCEPT ![item] = Null]
    BY <1>1, <1>4 DEF Links, Add
  <2>2. a.next \in LinkFunctions /\ a.prev \in LinkFunctions /\ a.next[item] = Null /\ a.prev[item] = Null
    BY <2>1 DEF LinkFunctions
  <2> HIDE DEF a, l
  <2>3. Chain(a, m + 1, g)
    BY <1>2, <1>3, <1>4, <2>1, <2>2 DEF Chain, Links
  <2>4. QED
    BY <2>2, <2>3 DEF a, l, LinksInNodes
<1>5. CASE m # 0
  <2>1. m \in 1 .. m /\ 1 \in 1 .. m /\ m > 0
    BY <1>5
  <2>2. ends.head = f[1] /\ ends.tail = f[m] /\ p[f[1]] = Null /\ f[1] \in Nodes /\ f[m] \in Nodes
    BY <1>1, <2>1 DEF Links
  <2>3. /\ a.head = f[1] /\ a.tail = item
        /\ a.next = [n EXCEPT ![f[m]] = item, ![item] = Null] /\ a.prev = [p EXCEPT ![item] = f[m]]
    BY <1>1, <2>2, NullIsNoNode DEF Add
  <2>4. /\ a.next \in LinkFunctions /\ a.prev \in LinkFunctions /\ a.next[item] = Null
        /\ a.next[f[m]] = item /\ a.prev[f[1]] = Null
        /\ \A x \in Nodes : x # item /\ x # f[m] => a.next[x] = n[x]
    BY <2>1, <2>2, <2>3 DEF LinkFunctions
  <2> HIDE DEF a
  <2>5. \A i \in 1 .. m + 1 : i < m + 1 => a.next[g[i]] = g[i + 1]
    <3> SUFFICES ASSUME NEW i \in 1 .. m + 1, i < m + 1 PROVE a.next[g[i]] = g[i + 1]
      OBVIOUS
    <3>1. i \in 1 .. m /\ g[i] = f[i] /\ f[i] \in Nodes /\ f[i] # item
      BY <1>2
    <3>2. CASE i = m
      BY <1>2, <2>4, <3>1, <3>2
    <3>3. CASE i # m
      <4>1. i + 1 \in 1 .. m /\ f[i] # f[m] /\ n[f[i]] = f[i + 1]
        BY <1>1, <2>1, <3>1, <3>3 DEF Links
      <4>2. QED
        BY <1>2, <2>4, <3>1, <4>1
    <3>4. QED
      BY <3>2, <3>3
  <2>6. g[1] = f[1]
    BY <1>2, <2>1
  <2>7. Chain(a, m + 1, g)
    <3>1. a.head = g[1] /\ a.tail = g[m + 1] /\ a.prev[g[1]] = Null /\ a.next[g[m + 1]] = Null
      BY <1>2, <2>3, <2>4, <2>6
    <3>2. m + 1 # 0
      OBVIOUS
    <3>3. QED
      BY <1>3, <2>5, <3>1, <3>2 DEF Chain, Links
  <2>8. QED
    BY <2>4, <2>7 DEF a, LinksInNodes
<1>6. QED
  BY <1>4, <1>5

LEMMA Popped ==
  ASSUME NEW ends, NEW n \in LinkFunctions, NEW p \in LinkFunctions,
         NEW m \in Nat, NEW f \in [1 .. m -> Nodes], Chain(List(ends, n, p), m, f), ends.head # Null
  PROVE  /\ m > 0 /\ ends.head = f[1] /\ f[1] \in Nodes /\ m - 1 \in Nat
         /\ [i \in 1 .. m - 1 |-> f[i + 1]] \in [1 .. m - 1 -> Nodes]
         /\ Chain(Remove(List(ends, n, p), ends.head), m - 1, [i \in 1 .. m - 1 |-> f[i + 1]])
         /\ Remove(List(ends, n, p), ends.head).next \in LinkFunctions
         /\ Remove(List(ends, n, p), ends.head).prev \in LinkFunctions
<1> DEFINE l == List(ends, n, p)
           r == Remove(l, ends.head)
           k == m - 1
           g == [i \in 1 .. k |-> f[i + 1]]
<1>1. l.head = ends.head /\ l.tail = ends.tail /\ l.next = n /\ l.prev = p
  BY DEF List
<1>2. m > 0 /\ 1 \in 1 .. m /\ m \in 1 .. m /\ k \in Nat /\ m = k + 1
  BY <1>1 DEF Chain, Links
<1>3. /\ ends.head = f[1] /\ ends.tail = f[m] /\ p[f[1]] = Null /\ f[1] \in Nodes /\ f[m] \in Nodes
      /\ n[f[m]] = Null
  BY <1>1, <1>2 DEF Chain, Links
<1>4. /\ r.head = n[f[1]] /\ r.tail = IF n[f[1]] = Null THEN Null ELSE ends.tail
      /\ r.next = n /\ r.prev = IF n[f[1]] = Null THEN p ELSE [p EXCEPT ![n[f[1]]] = Null]
  BY <1>1, <1>3 DEF Remove
<1>5. g \in [1 .. k -> Nodes] /\ \A i \in 1 .. k : g[i] = f[i + 1] /\ i + 1 \in 1 .. m
  BY <1>2
<1> HIDE DEF g, r, l, k
<1>6. \A i, j \in 1 .. k : g[i] = g[j] => i = j
  <2> SUFFICES ASSUME NEW i \in 1 .. k, NEW j \in 1 .. k, g[i] = g[j] PROVE i = j
    OBVIOUS
  <2>1. f[i + 1] = f[j + 1] /\ i + 1 \in 1 .. m /\ j + 1 \in 1 .. m
    BY <1>5
  <2>2. i + 1 = j + 1
    BY <2>1 DEF Chain, Links
  <2>3. QED
    BY <2>2
<1>7. \A i \in 1 .. k : i < k => n[g[i]] = g[i + 1]
  <2> SUFFICES ASSUME NEW i \in 1 .. k, i < k PROVE n[g[i]] = g[i + 1]
    OBVIOUS
  <2>1. i + 1 \in 1 .. k /\ i + 1 \in 1 .. m /\ i + 1 < m
    BY <1>2
  <2>2. n[f[i + 1]] = f[i + 1 + 1]
    BY <1>1, <2>1 DEF Chain, Links, l
  <2>3. QED
    BY <1>5, <2>1, <2>2
<1>8. CASE k = 0
  <2>1. n[f[1]] = Null
    BY <1>2, <1>3, <1>8
  <2>2. r.head = Null /\ r.tail = Null /\ r.next = n /\ r.prev = p
    BY <1>4, <2>1
  <2>3. Chain(r, k, g)
    BY <1>6, <1>7, <1>8, <2>2 DEF Chain, Links
  <2>4. QED
    BY <1>2, <1>3, <1>5, <2>2, <2>3 DEF r, l, k, g
<1>9. CASE k # 0
  <2>1. 1 \in 1 .. k /\ k \in 1 .. k /\ 1 < m /\ k > 0
    BY <1>2, <1>9
  <2>2. n[f[1]] = f[2] /\ g[1] = f[2] /\ g[k] = f[m] /\ g[1] \in Nodes
    BY <1>1, <1>2, <1>5, <2>1 DEF Chain, Links, l
  <2>3. /\ r.head = g[1] /\ r.tail = g[k] /\ r.next = n /\ r.prev = [p EXCEPT ![g[1]] = Null]
    BY <1>3, <1>4, <2>2, NullIsNoNode
  <2>4. r.prev \in LinkFunctions /\ r.prev[g[1]] = Null
    BY <2>2, <2>3 DEF LinkFunctions
  <2>5. Chain(r, k, g)
    BY <1>3, <1>6, <1>7, <2>1, <2>2, <2>3, <2>4 DEF Chain, Links
  <2>6. QED
    BY <1>2, <1>3, <1>5, <2>3, <2>4, <2>5 DEF r, l, k, g
<1>10. QED
  BY <1>8, <1>9

-----------------------------------------------------------------------------
(* What Walk, a recursive function, finds in a list.                         *)

\* The least number principle, for a set and not for a predicate.
LEMMA LeastNatural ==
  ASSUME NEW T, T \subseteq Nat, T # {}
  PROVE  \E x \in T : \A y \in T : x <= y
<1> DEFINE R == OpToRel(<, Nat)
<1>1. IsWellFoundedOn(R, Nat)
  BY NatLessThanWellFounded
<1>2. \A x, y \in Nat : <<y, x>> \in R <=> y < x
  BY DEF OpToRel
<1> HIDE DEF R
<1>3. PICK x \in T : \A y \in T : ~(<<y, x>> \in R)
  BY <1>1, WFMin
<1>4. \A y \in T : x \in Nat /\ y \in Nat /\ ~(y < x)
  BY <1>2, <1>3
<1>5. QED
  BY <1>4

LEMMA NodesAreFinite == IsFiniteSet(Nodes) /\ Cardinality(Nodes) \in Nat
<1>1. IsFiniteSet(Blocks \cup {Idle})
  BY ConstantsAssumption, FS_AddElement
<1>2. QED
  BY <1>1, FS_CardinalityType DEF Nodes

\* No list is longer than there are nodes.
LEMMA ListFits ==
  ASSUME NEW m \in Nat, NEW f \in [1 .. m -> Nodes], \A i, j \in 1 .. m : f[i] = f[j] => i = j
  PROVE  m <= Cardinality(Nodes)
<1>1. IsFiniteSet(1 .. m) /\ Cardinality(1 .. m) = m
  BY FS_Interval
<1>2. f \in Injection(1 .. m, Nodes)
  BY DEF Injection, IsInjective
<1>3. Cardinality(1 .. m) <= Cardinality(Nodes)
  BY <1>2, NodesAreFinite, FS_Injection
<1>4. QED
  BY <1>1, <1>3

LEMMA WalkIs ==
  ASSUME NEW m \in Nat, NEW f \in [1 .. m -> Nodes], Chain(List(runQueue, next, prev), m, f),
         NEW k \in 0 .. Cardinality(Nodes)
  PROVE  Walk(runQueue.head)[k] = IF k < m THEN f[k + 1] ELSE Null
<1> DEFINE N == Cardinality(Nodes)
           head == runQueue.head
           Step(g, i) == IF i = 0 THEN head ELSE IF g[i - 1] = Null THEN Null ELSE next[g[i - 1]]
           Solves(g) == g = [i \in 0 .. N |-> Step(g, i)]
           At(i) == IF i < m THEN f[i + 1] ELSE Null
           there == [i \in 0 .. N |-> At(i)]
           walk == CHOOSE g : Solves(g)
<1>0. N \in Nat
  BY NodesAreFinite
<1>1. /\ m = 0 => head = Null
      /\ m > 0 => head = f[1] /\ next[f[m]] = Null
      /\ \A i \in 1 .. m : i < m => next[f[i]] = f[i + 1]
  BY DEF Chain, Links, List
<1> HIDE DEF N, head
<1>2. \A i \in 0 .. N : i # 0 =>
        i - 1 \in 0 .. N /\ At(i) = IF At(i - 1) = Null THEN Null ELSE next[At(i - 1)]
  <2> SUFFICES ASSUME NEW i \in 0 .. N, i # 0
               PROVE  i - 1 \in 0 .. N /\ At(i) = IF At(i - 1) = Null THEN Null ELSE next[At(i - 1)]
    OBVIOUS
  <2>1. i - 1 \in 0 .. N /\ (i - 1) + 1 = i
    BY <1>0
  <2>2. CASE i - 1 < m
    <3>1. i \in 1 .. m /\ At(i - 1) = f[i] /\ f[i] # Null
      BY <1>0, <2>1, <2>2, NullIsNoNode
    <3>2. CASE i < m
      BY <1>1, <2>1, <3>1, <3>2
    <3>3. CASE i = m
      BY <1>0, <1>1, <2>1, <3>1, <3>3
    <3>4. QED
      BY <1>0, <3>1, <3>2, <3>3
  <2>3. CASE ~(i - 1 < m)
    BY <1>0, <2>1, <2>3
  <2>4. QED
    BY <2>2, <2>3
<1>3. At(0) = head
  BY <1>1
<1>4. Solves(there)
  <2>1. \A i \in 0 .. N : there[i] = At(i)
    OBVIOUS
  <2> HIDE DEF At
  <2>2. \A i \in 0 .. N : At(i) = Step(there, i)
    BY <1>2, <1>3, <2>1
  <2>3. QED
    BY <2>2
<1>5. Walk(head) = walk
  BY DEF Walk, N
<1> HIDE DEF there, Solves, At
<1>6. Solves(walk)
  BY <1>4
<1>7. \A i \in 0 .. N : walk[i] = At(i)
  <2> DEFINE T == {i \in 0 .. N : walk[i] # At(i)}
  <2> SUFFICES ASSUME T # {} PROVE FALSE
    OBVIOUS
  <2>1. PICK x \in T : \A y \in T : x <= y
    <3>1. T \subseteq Nat
      OBVIOUS
    <3>2. QED
      BY <3>1, LeastNatural
  <2>2. walk[x] = Step(walk, x)
    BY <1>6, <2>1 DEF Solves
  <2>3. x # 0
    BY <1>3, <2>1, <2>2
  <2>4. x - 1 \in 0 .. N /\ ~(x <= x - 1)
    BY <1>0, <2>1, <2>3
  <2>5. walk[x - 1] = At(x - 1)
    BY <2>1, <2>4
  <2>6. QED
    BY <1>2, <2>1, <2>2, <2>3, <2>5
<1>8. QED
  BY <1>5, <1>7 DEF At, N, head

LEMMA ChainIsSound ==
  ASSUME TypeOK, RunQueueIsChain
  PROVE  RunQueueIsSound /\ NoTaskIsLost
<1>a. PICK m \in Nat : \E f \in [1 .. m -> Nodes] : Chain(List(runQueue, next, prev), m, f) /\ Waits(m, f)
  BY DEF RunQueueIsChain
<1>1. PICK f \in [1 .. m -> Nodes] : Chain(List(runQueue, next, prev), m, f) /\ Waits(m, f)
  BY <1>a
<1> DEFINE N == Cardinality(Nodes)
<1>2. N \in Nat /\ m <= N
  BY <1>1, ListFits, NodesAreFinite DEF Chain, Links
<1>3. \A k \in 0 .. N : Walk(runQueue.head)[k] = IF k < m THEN f[k + 1] ELSE Null
  BY <1>1, WalkIs
<1> HIDE DEF N
<1>4. Walk(runQueue.head)[N] = Null
  BY <1>2, <1>3
<1>5. Waiting = {Walk(runQueue.head)[k] : k \in 0 .. N} \ {Null}
  BY DEF Waiting, N
<1>6. ASSUME NEW a \in Waiting PROVE a \in (allocated \cup {Idle}) \ {current}
  <2>1. PICK k \in 0 .. N : a = Walk(runQueue.head)[k] /\ a # Null
    BY <1>5
  <2>2. k + 1 \in 1 .. m /\ a = f[k + 1]
    BY <1>2, <1>3, <2>1
  <2>3. QED
    BY <1>1, <2>2 DEF Waits
<1>7. ASSUME NEW a \in allocated \ {current} PROVE a \in Waiting
  <2>1. PICK i \in 1 .. m : f[i] = a
    BY <1>1 DEF Waits
  <2>2. i - 1 \in 0 .. N /\ i - 1 < m /\ (i - 1) + 1 = i
    BY <1>2
  <2>3. Walk(runQueue.head)[i - 1] = a /\ a # Null
    BY <1>3, <2>1, <2>2, NullIsNoNode
  <2>4. QED
    BY <1>5, <2>2, <2>3
<1>8. QED
  BY <1>4, <1>6, <1>7 DEF RunQueueIsSound, NoTaskIsLost, N

-----------------------------------------------------------------------------
(* The steps.                                                                *)

\* A list taken apart into ends and links and put together again.
LEMMA SameChain ==
  ASSUME NEW l, NEW m, NEW f
  PROVE  /\ Chain(l, m, f) <=> Chain(List(Ends(l), l.next, l.prev), m, f)
         /\ Links(l, m, f) <=> Links(List(Ends(l), l.next, l.prev), m, f)
BY DEF List, Ends, Chain, Links

LEMMA LinkTypes ==
  ASSUME TypeOK
  PROVE  /\ next \in LinkFunctions /\ prev \in LinkFunctions
         /\ taskIdCounter \in Nat /\ \A a \in Nodes : pid[a] \in Nat
         /\ allocated \subseteq Nodes /\ Idle \notin allocated /\ MaxTasks \in Nat
BY ConstantsAssumption DEF TypeOK, LinkFunctions, Nodes

\* The ends of a list that holds nodes, and of an empty one.
LEMMA EndsType ==
  ASSUME NEW l, NEW m \in Nat, NEW f \in [1 .. m -> Nodes], Links(l, m, f)
  PROVE  Ends(l) \in [head : Nodes \cup {Null}, tail : Nodes \cup {Null}]
<1>1. CASE m = 0
  BY <1>1 DEF Links, Ends
<1>2. CASE m # 0
  <2>1. 1 \in 1 .. m /\ m \in 1 .. m /\ m > 0
    BY <1>2
  <2>2. QED
    BY <2>1 DEF Links, Ends
<1>3. QED
  BY <1>1, <1>2

LEMMA PoppedWaits ==
  ASSUME TypeOK, NEW m \in Nat, NEW f \in [1 .. m -> Nodes], m > 0, Waits(m, f),
         \A i, j \in 1 .. m : f[i] = f[j] => i = j, current' = f[1], UNCHANGED pid,
         allocated' = allocated \ {current} \/ (current = Idle /\ allocated' = allocated)
  PROVE  /\ Waits(m - 1, [i \in 1 .. m - 1 |-> f[i + 1]])'
         /\ f[1] # current /\ f[1] \in allocated \cup {Idle}
         /\ \A a \in allocated \ {current} : f[1] # Idle => pid[f[1]] <= pid[a]
<1> DEFINE k == m - 1
           g == [i \in 1 .. k |-> f[i + 1]]
<1>1. 1 \in 1 .. m /\ k \in Nat /\ m = k + 1
  OBVIOUS
<1>2. \A i \in 1 .. k : g[i] = f[i + 1] /\ i + 1 \in 1 .. m /\ i + 1 # 1
  OBVIOUS
<1>3. f[1] \in (allocated \cup {Idle}) \ {current}
  BY <1>1 DEF Waits
<1> HIDE DEF g, k
<1>4. allocated' \ {current'} = (allocated \ {current}) \ {f[1]}
  BY LinkTypes
<1>5. \A i \in 1 .. k : g[i] \in (allocated' \cup {Idle}) \ {current'}
  BY <1>1, <1>2, LinkTypes DEF Waits
<1>6. ASSUME NEW a \in allocated' \ {current'} PROVE \E i \in 1 .. k : g[i] = a
  <2>1. a \in allocated \ {current} /\ a # f[1]
    BY <1>4
  <2>2. PICK i \in 1 .. m : f[i] = a
    BY <2>1 DEF Waits
  <2>3. i - 1 \in 1 .. k /\ (i - 1) + 1 = i
    BY <1>1, <2>1, <2>2
  <2>4. g[i - 1] = a
    BY <1>2, <2>2, <2>3
  <2>5. QED
    BY <2>3, <2>4
<1>7. ASSUME NEW i \in 1 .. k, NEW j \in 1 .. k, i < j, g[i] # Idle, g[j] # Idle
      PROVE  pid'[g[i]] < pid'[g[j]]
  <2>1. i + 1 \in 1 .. m /\ j + 1 \in 1 .. m /\ i + 1 < j + 1 /\ g[i] = f[i + 1] /\ g[j] = f[j + 1]
    BY <1>2, <1>7
  <2>2. QED
    BY <1>7, <2>1 DEF Waits
<1>8. ASSUME NEW a \in allocated \ {current}, f[1] # Idle PROVE pid[f[1]] <= pid[a]
  <2>1. PICK i \in 1 .. m : f[i] = a
    BY DEF Waits
  <2>2. a # Idle /\ pid[a] \in Nat
    BY LinkTypes
  <2>3. CASE i = 1
    BY <2>1, <2>2, <2>3
  <2>4. CASE i # 1
    <3>1. 1 < i
      BY <2>4
    <3>2. pid[f[1]] < pid[a]
      BY <1>1, <1>8, <2>1, <2>2, <3>1 DEF Waits
    <3>3. pid[f[1]] \in Nat
      BY <1>1, LinkTypes
    <3>4. QED
      BY <2>2, <3>2, <3>3
  <2>5. QED
    BY <2>3, <2>4
<1>9. Waits(k, g)'
  BY <1>5, <1>6, <1>7 DEF Waits
<1>10. QED
  BY <1>3, <1>8, <1>9 DEF g, k

\* What a change of tasks promises beside the invariant.
Turn ==
  current' # current /\ current' \in Blocks => \A task \in allocated \ {current} : pid[current'] <= pid[task]

LEMMA CleanupKeeps ==
  ASSUME IInv, Cleanup
  PROVE  IInv' /\ Turn
<1>1. /\ current \in Blocks /\ allocated' = allocated \ {current} /\ current' = runQueue.head
      /\ UNCHANGED <<tasks, pid, taskIdCounter>>
  BY DEF Cleanup
<1>2. TailIsNewest'
  BY <1>1 DEF IInv, TailIsNewest
<1>3. PICK m \in Nat : \E f \in [1 .. m -> Nodes] : Chain(List(runQueue, next, prev), m, f) /\ Waits(m, f)
  BY DEF IInv, RunQueueIsChain
<1>4. PICK f \in [1 .. m -> Nodes] : Chain(List(runQueue, next, prev), m, f) /\ Waits(m, f)
  BY <1>3
<1>5. CASE runQueue.head = Null
  <2>1. UNCHANGED <<next, prev, runQueue>>
    BY <1>5 DEF Cleanup
  <2>2. m = 0
    <3>1. ASSUME m # 0 PROVE FALSE
      <4>1. m > 0 /\ 1 \in 1 .. m
        BY <3>1
      <4>2. runQueue.head = f[1]
        BY <1>4, <4>1, ListField DEF Chain, Links
      <4>3. QED
        BY <1>5, <4>1, <4>2, NullIsNoNode
    <3>2. QED
      BY <3>1
  <2>3. allocated' = {}
    BY <1>1, <1>4, <2>2 DEF Waits
  <2>4. Waits(m, f)'
    BY <2>2, <2>3 DEF Waits
  <2>5. Chain(List(runQueue, next, prev), m, f)'
    BY <1>4, <2>1
  <2>6. RunQueueIsChain'
    BY <2>4, <2>5 DEF RunQueueIsChain
  <2>7. TypeOK'
    BY <1>1, <1>5, <2>1 DEF IInv, TypeOK
  <2>8. QED
    BY <1>1, <1>2, <1>5, <2>6, <2>7, NullIsNoNode DEF IInv, Turn, Nodes, RunningHasNotEnded
<1>6. CASE runQueue.head # Null
  <2> DEFINE popped == Remove(List(runQueue, next, prev), runQueue.head)
             k == m - 1
             g == [i \in 1 .. k |-> f[i + 1]]
  <2>1. runQueue' = Ends(popped) /\ next' = popped.next /\ prev' = popped.prev
    BY <1>6 DEF Cleanup
  <2>2. /\ m > 0 /\ runQueue.head = f[1] /\ f[1] \in Nodes /\ k \in Nat /\ g \in [1 .. k -> Nodes]
        /\ Chain(popped, k, g) /\ popped.next \in LinkFunctions /\ popped.prev \in LinkFunctions
    BY <1>4, <1>6, LinkTypes, Popped DEF IInv
  <2>3. \A i, j \in 1 .. m : f[i] = f[j] => i = j
    BY <1>4 DEF Chain, Links
  <2>4. /\ Waits(k, g)' /\ \A a \in allocated \ {current} : f[1] # Idle => pid[f[1]] <= pid[a]
        /\ f[1] \in (allocated \cup {Idle}) \ {current}
    BY <1>1, <1>4, <2>2, <2>3, PoppedWaits DEF IInv
  <2> HIDE DEF popped, k, g
  <2>5. Chain(List(runQueue, next, prev), k, g)'
    BY <2>1, <2>2, SameChain
  <2>6. RunQueueIsChain'
    BY <2>2, <2>4, <2>5 DEF RunQueueIsChain
  <2>7. TypeOK'
    <3>1. runQueue' \in [head : Nodes \cup {Null}, tail : Nodes \cup {Null}]
      BY <2>1, <2>2, EndsType DEF Chain
    <3>2. QED
      BY <1>1, <2>1, <2>2, <3>1 DEF IInv, TypeOK, LinkFunctions
  <2>8. Turn
    BY <1>1, <2>2, <2>4, ConstantsAssumption DEF Turn
  <2>9. RunningHasNotEnded'
    BY <1>1, <2>2, <2>4 DEF RunningHasNotEnded
  <2>10. QED
    BY <1>2, <2>6, <2>7, <2>8, <2>9 DEF IInv
<1>7. QED
  BY <1>5, <1>6

LEMMA PreemptKeeps ==
  ASSUME IInv, Preempt
  PROVE  IInv' /\ Turn
<1>1. /\ current = Idle /\ allocated' = allocated /\ current' = runQueue.head /\ runQueue.head # Null
      /\ UNCHANGED <<tasks, pid, taskIdCounter>>
  BY DEF Preempt, InterruptsEnabled
<1>2. TailIsNewest'
  BY <1>1 DEF IInv, TailIsNewest
<1>3. PICK m \in Nat : \E f \in [1 .. m -> Nodes] : Chain(List(runQueue, next, prev), m, f) /\ Waits(m, f)
  BY DEF IInv, RunQueueIsChain
<1>4. PICK f \in [1 .. m -> Nodes] : Chain(List(runQueue, next, prev), m, f) /\ Waits(m, f)
  BY <1>3
<1> DEFINE popped == Remove(List(runQueue, next, prev), runQueue.head)
           queued == Add(popped, current)
           k == m - 1
           g == [i \in 1 .. k |-> f[i + 1]]
           h == [i \in 1 .. k + 1 |-> IF i <= k THEN g[i] ELSE Idle]
<1>5. runQueue' = Ends(queued) /\ next' = queued.next /\ prev' = queued.prev
  BY DEF Preempt
<1>6. /\ m > 0 /\ runQueue.head = f[1] /\ f[1] \in Nodes /\ k \in Nat /\ g \in [1 .. k -> Nodes]
      /\ Chain(popped, k, g) /\ popped.next \in LinkFunctions /\ popped.prev \in LinkFunctions
  <2>1. next \in LinkFunctions /\ prev \in LinkFunctions
    BY LinkTypes DEF IInv
  <2>2. Chain(List(runQueue, next, prev), m, f)
    BY <1>4
  <2>3. QED
    BY <1>1, <2>1, <2>2, Popped, SMTT(30)
<1>7. \A i, j \in 1 .. m : f[i] = f[j] => i = j
  BY <1>4 DEF Chain, Links
<1>8. /\ Waits(k, g)' /\ f[1] # current /\ f[1] \in allocated \cup {Idle}
      /\ \A a \in allocated \ {current} : f[1] # Idle => pid[f[1]] <= pid[a]
  BY <1>1, <1>4, <1>6, <1>7, PoppedWaits DEF IInv
<1>9. \A i \in 1 .. k : g[i] # Idle
  <2> SUFFICES ASSUME NEW i \in 1 .. k PROVE g[i] # Idle
    OBVIOUS
  <2>1. i + 1 \in 1 .. m /\ g[i] = f[i + 1]
    OBVIOUS
  <2>2. QED
    BY <1>1, <1>4, <2>1 DEF Waits
<1>10. popped = List(Ends(popped), popped.next, popped.prev)
  BY DEF Remove, List, Ends
<1> HIDE DEF popped, g, k
<1>11. /\ h \in [1 .. k + 1 -> Nodes] /\ Chain(queued, k + 1, h)
       /\ queued.next \in LinkFunctions /\ queued.prev \in LinkFunctions
  <2> DEFINE e == Ends(popped)
             n == popped.next
             p == popped.prev
  <2>1. popped = List(e, n, p)
    BY <1>10
  <2>2. Links(List(e, n, p), k, g)
    BY <1>6, <2>1 DEF Chain
  <2>3. queued = Add(List(e, n, p), Idle)
    BY <1>1, <2>1
  <2>4. n \in LinkFunctions /\ p \in LinkFunctions
    BY <1>6
  <2>5. /\ h \in [1 .. k + 1 -> Nodes] /\ h[k + 1] = Idle /\ \A i \in 1 .. k : h[i] = g[i]
        /\ Idle \in Nodes
    BY <1>6, NullIsNoNode
  <2> HIDE DEF e, n, p, queued, h
  <2>6. QED
    <3>1. k \in Nat /\ g \in [1 .. k -> Nodes]
      BY <1>6
    <3>2. Chain(Add(List(e, n, p), Idle), k + 1, h)
      BY <1>9, <2>2, <2>4, <2>5, <3>1, Appended, ZenonT(40)
    <3>3. LinksInNodes(Add(List(e, n, p), Idle))
      BY <1>9, <2>2, <2>4, <2>5, <3>1, Appended, ZenonT(40)
    <3>4. QED
      BY <2>3, <2>5, <3>2, <3>3 DEF LinksInNodes
<1>12. k + 1 \in Nat /\ h[k + 1] = Idle /\ \A i \in 1 .. k : h[i] = g[i] /\ i \in 1 .. k + 1
  BY <1>6
<1> HIDE DEF queued, h
<1>13. Waits(k + 1, h)'
  <2>1. \A i \in 1 .. k + 1 : i \in 1 .. k \/ i = k + 1
    BY <1>6
  <2>2. \A i \in 1 .. k + 1 : h[i] \in (allocated' \cup {Idle}) \ {current'}
    BY <1>1, <1>6, <1>8, <1>12, <2>1 DEF Waits
  <2>3. \A a \in allocated' \ {current'} : \E i \in 1 .. k + 1 : h[i] = a
    BY <1>8, <1>12 DEF Waits
  <2>4. \A i, j \in 1 .. k + 1 : i < j /\ h[i] # Idle /\ h[j] # Idle => pid'[h[i]] < pid'[h[j]]
    <3> SUFFICES ASSUME NEW i \in 1 .. k + 1, NEW j \in 1 .. k + 1, i < j, h[i] # Idle, h[j] # Idle
                 PROVE  pid'[h[i]] < pid'[h[j]]
      OBVIOUS
    <3>1. i \in 1 .. k /\ j \in 1 .. k
      BY <1>12, <2>1
    <3>2. QED
      BY <1>8, <1>12, <3>1 DEF Waits
  <2>5. QED
    BY <2>2, <2>3, <2>4 DEF Waits
<1>14. Chain(List(runQueue, next, prev), k + 1, h)'
  BY <1>5, <1>11, SameChain
<1>15. RunQueueIsChain'
  BY <1>11, <1>12, <1>13, <1>14 DEF RunQueueIsChain
<1>16. TypeOK'
  <2>1. runQueue' \in [head : Nodes \cup {Null}, tail : Nodes \cup {Null}]
    BY <1>5, <1>11, <1>12, EndsType DEF Chain
  <2>2. QED
    BY <1>1, <1>5, <1>6, <1>11, <2>1 DEF IInv, TypeOK, LinkFunctions
<1>17. Turn
  BY <1>1, <1>6, <1>8, ConstantsAssumption DEF Turn
<1>18. RunningHasNotEnded'
  BY <1>1, <1>6, <1>8 DEF RunningHasNotEnded
<1>19. QED
  BY <1>2, <1>15, <1>16, <1>17, <1>18 DEF IInv

\* Where the newest task may wait: last, or before the idle task at the end.
LEMMA NewestIsLast ==
  ASSUME TypeOK, TailIsNewest, NEW m \in Nat, NEW f \in [1 .. m -> Nodes], Waits(m, f),
         \A i, j \in 1 .. m : f[i] = f[j] => i = j, NEW i \in 1 .. m, i < m, f[i] = tasks.tail
  PROVE  i = m - 1 /\ f[m] = Idle
<1>1. tasks.tail # Idle
  <2>1. ASSUME tasks.tail = Idle PROVE FALSE
    <3>1. allocated = {}
      BY <2>1 DEF TailIsNewest
    <3>2. m \in 1 .. m /\ f[m] \in {Idle} /\ f[i] = Idle
      BY <2>1, <3>1 DEF Waits
    <3>3. QED
      BY <3>2
  <2>2. QED
    BY <2>1
<1>2. tasks.tail \in allocated /\ \A a \in allocated : pid[a] <= pid[tasks.tail]
  BY <1>1 DEF Waits, TailIsNewest
<1>3. \A j \in 1 .. m : i < j => f[j] = Idle
  <2> SUFFICES ASSUME NEW j \in 1 .. m, i < j, f[j] # Idle PROVE FALSE
    OBVIOUS
  <2>1. pid[f[i]] < pid[f[j]]
    BY <1>1 DEF Waits
  <2>2. f[j] \in allocated
    BY DEF Waits
  <2>3. pid[f[j]] <= pid[f[i]] /\ pid[f[i]] \in Nat /\ pid[f[j]] \in Nat
    BY <1>2, <2>2, LinkTypes
  <2>4. QED
    BY <2>1, <2>3
<1>4. m \in 1 .. m /\ f[m] = Idle
  BY <1>3
<1>5. ASSUME i # m - 1 PROVE FALSE
  <2>1. m - 1 \in 1 .. m /\ i < m - 1
    BY <1>5
  <2>2. f[m - 1] = Idle
    BY <1>3, <2>1
  <2>3. m - 1 = m
    BY <1>4, <2>1, <2>2
  <2>4. QED
    BY <2>3
<1>6. QED
  BY <1>4, <1>5

LEMMA CreateWaits ==
  ASSUME IInv, NEW task \in Blocks, NewTask(task), UNCHANGED current,
         NEW m \in Nat, NEW f \in [1 .. m -> Nodes], Waits(m, f),
         NEW k \in 0 .. m, k = m \/ (k = m - 1 /\ f[m] = Idle)
  PROVE  Waits(k + 1, [i \in 1 .. k + 1 |-> IF i <= k THEN f[i] ELSE task])'
<1> DEFINE h == [i \in 1 .. k + 1 |-> IF i <= k THEN f[i] ELSE task]
<1>1. /\ task \notin allocated /\ allocated' = allocated \cup {task} /\ task # Idle /\ task \in Nodes
      /\ pid' = [pid EXCEPT ![task] = taskIdCounter]
  BY NullIsNoNode, ConstantsAssumption DEF NewTask
<1>2. task # current
  BY <1>1, ConstantsAssumption DEF IInv, RunningHasNotEnded
<1>3. k \in Nat /\ k <= m /\ h[k + 1] = task /\ \A i \in 1 .. k : h[i] = f[i] /\ i \in 1 .. m
  OBVIOUS
<1>4. \A i \in 1 .. k + 1 : i \in 1 .. k \/ i = k + 1
  OBVIOUS
<1> HIDE DEF h
<1>5. \A i \in 1 .. k + 1 : h[i] \in (allocated' \cup {Idle}) \ {current'}
  BY <1>1, <1>2, <1>3, <1>4 DEF Waits
<1>6. ASSUME NEW a \in allocated' \ {current'} PROVE \E i \in 1 .. k + 1 : h[i] = a
  <2>1. CASE a = task
    BY <1>3, <2>1
  <2>2. CASE a # task
    <3>1. a \in allocated \ {current} /\ a # Idle
      BY <1>1, <2>2, LinkTypes DEF IInv
    <3>2. PICK i \in 1 .. m : f[i] = a
      BY <3>1 DEF Waits
    <3>3. i \in 1 .. k
      BY <3>1, <3>2
    <3>4. QED
      BY <1>3, <3>2, <3>3
  <2>3. QED
    BY <2>1, <2>2
<1>7. ASSUME NEW i \in 1 .. k + 1, NEW j \in 1 .. k + 1, i < j, h[i] # Idle, h[j] # Idle
      PROVE  pid'[h[i]] < pid'[h[j]]
  <2>1. i \in 1 .. k /\ h[i] = f[i] /\ i \in 1 .. m
    BY <1>3, <1>4, <1>7
  <2>2. f[i] \in allocated /\ f[i] \in Nodes /\ f[i] # task /\ pid'[f[i]] = pid[f[i]]
    <3>1. f[i] \in allocated /\ f[i] \in Nodes
      BY <1>7, <2>1 DEF Waits
    <3>2. pid \in [Nodes -> 0 .. MaxTasks]
      BY DEF IInv, TypeOK
    <3>3. QED
      BY <1>1, <3>1, <3>2
  <2>3. CASE j = k + 1
    <3>1. pid'[task] = taskIdCounter /\ pid[f[i]] < taskIdCounter
      BY <1>1, <2>2 DEF IInv, TypeOK, TailIsNewest
    <3>2. QED
      BY <1>3, <2>1, <2>2, <2>3, <3>1
  <2>4. CASE j \in 1 .. k
    <3>1. h[j] = f[j] /\ f[j] \in allocated /\ f[j] \in Nodes /\ j \in 1 .. m
      BY <1>3, <1>7, <2>4 DEF Waits
    <3>2. pid'[f[j]] = pid[f[j]] /\ pid[f[i]] < pid[f[j]]
      BY <1>1, <1>7, <2>1, <3>1 DEF Waits, IInv, TypeOK
    <3>3. QED
      BY <2>1, <2>2, <3>1, <3>2
  <2>5. QED
    BY <1>4, <2>3, <2>4
<1>8. QED
  BY <1>5, <1>6, <1>7 DEF Waits, h

\* The links after the new task was put behind the last of s_tasks.
LEMMA Listed ==
  ASSUME TypeOK, NEW task \in Nodes
  PROVE  LET listed == Add(List(tasks, next, prev), task)
         IN  /\ listed.head = tasks.head /\ listed.tail = task
             /\ listed.next \in LinkFunctions /\ listed.prev \in LinkFunctions
             /\ listed.next[task] = Null
             /\ tasks.tail # task => listed.next[tasks.tail] = task
             /\ \A x \in Nodes : x # task => listed.prev[x] = prev[x]
             /\ \A x \in Nodes : x # task /\ x # tasks.tail => listed.next[x] = next[x]
<1> DEFINE listed == Add(List(tasks, next, prev), task)
<1>1. tasks.head \in Nodes /\ tasks.tail \in Nodes
  BY DEF TypeOK
<1>2. /\ listed.head = tasks.head /\ listed.tail = task
      /\ listed.next = [next EXCEPT ![tasks.tail] = task, ![task] = Null]
      /\ listed.prev = [prev EXCEPT ![task] = tasks.tail]
  BY <1>1, NullIsNoNode DEF Add, List
<1> HIDE DEF listed
<1>3. QED
  BY <1>1, <1>2, LinkTypes DEF LinkFunctions, listed

(***************************************************************************)
(* The newest task waits in front of the idle task, and leads to the item  *)
(* already, which takes the place of the idle task.                        *)
(***************************************************************************)
GivesWay(l, item, m, f) ==
  /\ m > 1
  /\ \A i, j \in 1 .. m : f[i] = f[j] => i = j
  /\ l.head = f[1] /\ l.tail = f[m] /\ l.prev[f[1]] = Null
  /\ \A i \in 1 .. m : f[i] # item
  /\ \A i \in 1 .. m : i < m => l.next[f[i]] = IF i = m - 1 THEN item ELSE f[i + 1]

LEMMA AppendedOver ==
  ASSUME NEW ends, NEW n \in LinkFunctions, NEW p \in LinkFunctions, NEW item \in Nodes,
         NEW m \in Nat, NEW f \in [1 .. m -> Nodes], GivesWay(List(ends, n, p), item, m, f),
         NEW h \in [1 .. m -> Nodes], h[m] = item, \A i \in 1 .. m : i < m => h[i] = f[i]
  PROVE  /\ Chain(Add(List(ends, n, p), item), m, h)
         /\ Add(List(ends, n, p), item).next \in LinkFunctions
         /\ Add(List(ends, n, p), item).prev \in LinkFunctions
<1>0. /\ m > 1 /\ (\A i, j \in 1 .. m : f[i] = f[j] => i = j)
      /\ ends.head = f[1] /\ ends.tail = f[m] /\ p[f[1]] = Null
      /\ \A i \in 1 .. m : f[i] # item
      /\ \A i \in 1 .. m : i < m => n[f[i]] = IF i = m - 1 THEN item ELSE f[i + 1]
  BY ListField DEF GivesWay
<1> DEFINE a == Add(List(ends, n, p), item)
<1>1. /\ 1 \in 1 .. m /\ m \in 1 .. m /\ m - 1 \in 1 .. m /\ f[1] \in Nodes /\ f[m] \in Nodes
      /\ (m - 1) + 1 = m
  BY <1>0
<1>2. /\ h[m] = item /\ h[1] = f[1]
      /\ \A i \in 1 .. m : i # m => h[i] = f[i]
  BY <1>0
<1>3. \A i, j \in 1 .. m : h[i] = h[j] => i = j
  <2> SUFFICES ASSUME NEW i \in 1 .. m, NEW j \in 1 .. m, h[i] = h[j] PROVE i = j
    OBVIOUS
  <2>1. QED
    BY <1>0, <1>1, <1>2
<1>4. /\ a.head = f[1] /\ a.tail = item
      /\ a.next = [n EXCEPT ![f[m]] = item, ![item] = Null] /\ a.prev = [p EXCEPT ![item] = f[m]]
  BY <1>0, <1>1, NullIsNoNode DEF Add, List
<1>5. /\ a.next \in LinkFunctions /\ a.prev \in LinkFunctions /\ a.next[item] = Null
      /\ a.prev[f[1]] = Null /\ \A x \in Nodes : x # item /\ x # f[m] => a.next[x] = n[x]
  BY <1>0, <1>1, <1>4 DEF LinkFunctions
<1> HIDE DEF a
<1>6. \A i \in 1 .. m : i < m => a.next[h[i]] = h[i + 1]
  <2> SUFFICES ASSUME NEW i \in 1 .. m, i < m PROVE a.next[h[i]] = h[i + 1]
    OBVIOUS
  <2>1. h[i] = f[i] /\ f[i] \in Nodes /\ f[i] # item /\ f[i] # f[m] /\ a.next[f[i]] = n[f[i]]
    BY <1>0, <1>1, <1>2, <1>5
  <2>2. CASE i = m - 1
    BY <1>0, <1>1, <1>2, <2>1, <2>2
  <2>3. CASE i # m - 1
    <3>1. i < m - 1 /\ i + 1 \in 1 .. m /\ i + 1 # m
      BY <2>3
    <3>2. QED
      BY <1>0, <1>2, <2>1, <3>1
  <2>4. QED
    BY <2>2, <2>3
<1>7. Chain(a, m, h)
  <2>1. a.head = h[1] /\ a.tail = h[m] /\ a.prev[h[1]] = Null /\ a.next[h[m]] = Null /\ m # 0
    BY <1>0, <1>2, <1>4, <1>5
  <2>2. QED
    BY <1>3, <1>6, <2>1 DEF Chain, Links
<1>8. QED
  BY <1>2, <1>5, <1>7 DEF a

LEMMA CreateKeeps ==
  ASSUME IInv, NEW task \in Blocks, Create(task)
  PROVE  IInv' /\ Turn
<1>1. /\ NewTask(task) /\ UNCHANGED current /\ task \notin allocated /\ task \in Nodes /\ task # Idle
      /\ allocated' = allocated \cup {task} /\ pid' = [pid EXCEPT ![task] = taskIdCounter]
      /\ taskIdCounter <= MaxTasks /\ taskIdCounter' = taskIdCounter + 1
  BY NullIsNoNode, ConstantsAssumption DEF Create, NewTask
<1>a. PICK m \in Nat : \E f \in [1 .. m -> Nodes] : Chain(List(runQueue, next, prev), m, f) /\ Waits(m, f)
  BY DEF IInv, RunQueueIsChain
<1>2. PICK f \in [1 .. m -> Nodes] : Chain(List(runQueue, next, prev), m, f) /\ Waits(m, f)
  BY <1>a
<1> DEFINE listed == Add(List(tasks, next, prev), task)
           n == listed.next
           p == listed.prev
           queued == Add(List(runQueue, n, p), task)
<1>3. /\ tasks' = Ends(listed) /\ runQueue' = Ends(queued)
      /\ next' = queued.next /\ prev' = queued.prev
  BY DEF Create
<1>4. /\ listed.head = tasks.head /\ listed.tail = task
      /\ n \in LinkFunctions /\ p \in LinkFunctions
      /\ n[task] = Null /\ (tasks.tail # task => n[tasks.tail] = task)
      /\ \A x \in Nodes : x # task => p[x] = prev[x]
      /\ \A x \in Nodes : x # task /\ x # tasks.tail => n[x] = next[x]
  BY <1>1, Listed DEF IInv
<1>5. tasks' \in [head : Nodes, tail : Nodes] /\ tasks'.tail = task
  BY <1>1, <1>3, <1>4 DEF IInv, TypeOK, Ends
<1>6. /\ m = 0 => runQueue.head = Null /\ runQueue.tail = Null
      /\ m > 0 => /\ runQueue.head = f[1] /\ runQueue.tail = f[m]
                  /\ prev[f[1]] = Null /\ next[f[m]] = Null
      /\ \A i \in 1 .. m : i < m => next[f[i]] = f[i + 1]
      /\ \A i, j \in 1 .. m : f[i] = f[j] => i = j
  BY <1>2, ListField DEF Chain, Links
<1>7. \A i \in 1 .. m : f[i] # task /\ f[i] \in Nodes
  BY <1>1, <1>2 DEF Waits
<1> HIDE DEF listed, n, p
<1>8. \E k \in Nat : \E h \in [1 .. k -> Nodes] :
        Chain(queued, k, h) /\ Waits(k, h)' /\ queued.next \in LinkFunctions /\ queued.prev \in LinkFunctions
  <2>1. CASE \A i \in 1 .. m : i < m => f[i] # tasks.tail
    <3> DEFINE h == [i \in 1 .. m + 1 |-> IF i <= m THEN f[i] ELSE task]
    <3>1. Links(List(runQueue, n, p), m, f)
      <4>1. m > 0 => p[f[1]] = Null
        BY <1>4, <1>6, <1>7
      <4>2. \A i \in 1 .. m : i < m => n[f[i]] = f[i + 1]
        BY <1>4, <1>6, <1>7, <2>1
      <4>3. QED
        BY <1>6, <4>1, <4>2, ListField DEF Links
    <3>2. /\ h \in [1 .. m + 1 -> Nodes] /\ Chain(queued, m + 1, h)
          /\ queued.next \in LinkFunctions /\ queued.prev \in LinkFunctions
      <4>1. h \in [1 .. m + 1 -> Nodes] /\ h[m + 1] = task /\ \A i \in 1 .. m : h[i] = f[i]
        BY <1>1
      <4>2. n \in LinkFunctions /\ p \in LinkFunctions /\ task \in Nodes /\ \A i \in 1 .. m : f[i] # task
        BY <1>1, <1>4, <1>7
      <4> HIDE DEF h
      <4>3. Links(List(runQueue, n, p), m, f) => Chain(Add(List(runQueue, n, p), task), m + 1, h)
        BY <4>1, <4>2, Appended, ZenonT(40)
      <4>4. LinksInNodes(Add(List(runQueue, n, p), task))
        BY <3>1, <4>1, <4>2, Appended, ZenonT(40)
      <4>5. QED
        BY <3>1, <4>1, <4>3, <4>4 DEF LinksInNodes
    <3>3. Waits(m + 1, h)'
      BY <1>1, <1>2, CreateWaits
    <3> HIDE DEF h, queued
    <3>4. QED
      BY <3>2, <3>3
  <2>2. ASSUME NEW i \in 1 .. m, i < m, f[i] = tasks.tail
        PROVE  \E k \in Nat : \E h \in [1 .. k -> Nodes] :
                 Chain(queued, k, h) /\ Waits(k, h)' /\ queued.next \in LinkFunctions /\ queued.prev \in LinkFunctions
    <3> DEFINE h == [j \in 1 .. m |-> IF j <= m - 1 THEN f[j] ELSE task]
    <3>1. i = m - 1 /\ f[m] = Idle /\ m > 1
      <4>1. i = m - 1 /\ f[m] = Idle
        BY <1>2, <1>6, <2>2, NewestIsLast DEF IInv
      <4>2. QED
        BY <2>2, <4>1
    <3>2. n[f[m - 1]] = task
      BY <1>4, <1>7, <2>2, <3>1
    <3>3. \A j \in 1 .. m : j < m - 1 => n[f[j]] = f[j + 1]
      <4> SUFFICES ASSUME NEW j \in 1 .. m, j < m - 1 PROVE n[f[j]] = f[j + 1]
        OBVIOUS
      <4>1. f[j] # tasks.tail /\ j < m
        BY <1>6, <2>2, <3>1
      <4>2. QED
        BY <1>4, <1>6, <1>7, <4>1
    <3>4. p[f[1]] = Null
      BY <1>4, <1>6, <1>7, <3>1
    <3>5. /\ h \in [1 .. m -> Nodes] /\ Chain(queued, m, h)
          /\ queued.next \in LinkFunctions /\ queued.prev \in LinkFunctions
      <4>1. runQueue.head = f[1] /\ runQueue.tail = f[m]
        BY <1>6, <3>1
      <4>2. /\ n \in LinkFunctions /\ p \in LinkFunctions /\ task \in Nodes /\ m > 1
            /\ \A j \in 1 .. m : f[j] # task
        BY <1>1, <1>4, <1>6, <1>7, <3>1
      <4>3. h \in [1 .. m -> Nodes] /\ h[m] = task /\ \A j \in 1 .. m : j < m => h[j] = f[j]
        BY <1>1
      <4>4. \A j \in 1 .. m : j < m => n[f[j]] = IF j = m - 1 THEN task ELSE f[j + 1]
        BY <3>2, <3>3
      <4>5. \A j, k \in 1 .. m : f[j] = f[k] => j = k
        BY <1>6
      <4> HIDE DEF h, queued
      <4>6. /\ Chain(Add(List(runQueue, n, p), task), m, h)
            /\ Add(List(runQueue, n, p), task).next \in LinkFunctions
            /\ Add(List(runQueue, n, p), task).prev \in LinkFunctions
        <5>1. GivesWay(List(runQueue, n, p), task, m, f)
          BY <3>4, <4>1, <4>2, <4>4, <4>5, ListField DEF GivesWay
        <5>2. QED
          BY <4>2, <4>3, <5>1, AppendedOver
      <4>7. QED
        BY <4>3, <4>6 DEF queued
    <3>6. Waits(m, h)'
      <4> DEFINE k == m - 1
                 g == [j \in 1 .. k + 1 |-> IF j <= k THEN f[j] ELSE task]
      <4>1. k \in 0 .. m /\ k + 1 = m
        BY <3>1
      <4>2. Waits(k + 1, g)'
        <5> HIDE DEF k
        <5>1. k = m - 1
          BY DEF k
        <5>2. QED
          BY <1>1, <1>2, <3>1, <4>1, <5>1, CreateWaits
      <4>3. QED
        BY <4>1, <4>2
    <3> HIDE DEF h, queued
    <3>7. QED
      BY <3>5, <3>6
  <2>3. QED
    BY <2>1, <2>2
<1> HIDE DEF queued
<1>9. PICK k \in Nat : \E h \in [1 .. k -> Nodes] :
        Chain(queued, k, h) /\ Waits(k, h)' /\ queued.next \in LinkFunctions /\ queued.prev \in LinkFunctions
  BY <1>8
<1>10. PICK h \in [1 .. k -> Nodes] :
         Chain(queued, k, h) /\ Waits(k, h)' /\ queued.next \in LinkFunctions /\ queued.prev \in LinkFunctions
  BY <1>9
<1>11. RunQueueIsChain'
  <2>1. Chain(List(runQueue, next, prev), k, h)'
    BY <1>3, <1>10, SameChain
  <2>2. QED
    BY <1>10, <2>1 DEF RunQueueIsChain
<1>12. TypeOK'
  <2>1. runQueue' \in [head : Nodes \cup {Null}, tail : Nodes \cup {Null}]
    BY <1>3, <1>10, EndsType DEF Chain
  <2>2. pid' \in [Nodes -> 0 .. MaxTasks] /\ taskIdCounter' \in 1 .. MaxTasks + 1
    BY <1>1, ConstantsAssumption DEF IInv, TypeOK
  <2>3. next' \in LinkFunctions /\ prev' \in LinkFunctions
    BY <1>3, <1>10
  <2>4. QED
    BY <1>1, <1>5, <2>1, <2>2, <2>3 DEF IInv, TypeOK, LinkFunctions
<1>13. TailIsNewest'
  <2>1. /\ pid'[task] = taskIdCounter /\ taskIdCounter \in Nat
        /\ \A a \in allocated : pid'[a] = pid[a] /\ pid[a] \in Nat /\ pid[a] < taskIdCounter
    BY <1>1, LinkTypes DEF IInv, TypeOK, TailIsNewest
  <2>2. QED
    BY <1>1, <1>5, <2>1 DEF TailIsNewest
<1>14. RunningHasNotEnded' /\ Turn
  BY <1>1 DEF IInv, RunningHasNotEnded, Turn
<1>15. QED
  BY <1>11, <1>12, <1>13, <1>14 DEF IInv

-----------------------------------------------------------------------------

LEMMA InitEstablishes == Init => IInv
<1> SUFFICES ASSUME Init PROVE IInv
  OBVIOUS
<1>1. TypeOK
  BY NullIsNoNode, ConstantsAssumption DEF Init, TypeOK
<1>2. RunQueueIsChain
  <2> DEFINE f == [i \in 1 .. 0 |-> Idle]
  <2>1. f \in [1 .. 0 -> Nodes]
    OBVIOUS
  <2> HIDE DEF f
  <2>2. Chain(List(runQueue, next, prev), 0, f) /\ Waits(0, f)
    BY DEF Init, Chain, Links, List, Waits
  <2>3. QED
    BY <2>1, <2>2 DEF RunQueueIsChain
<1>3. TailIsNewest /\ RunningHasNotEnded
  BY DEF Init, TailIsNewest, RunningHasNotEnded
<1>4. QED
  BY <1>1, <1>2, <1>3 DEF IInv

LEMMA StepKeeps ==
  ASSUME IInv, [Next]_vars
  PROVE  IInv' /\ (Turn \/ UNCHANGED vars)
<1>1. CASE UNCHANGED vars
  <2>1. UNCHANGED <<next, prev, pid, taskIdCounter, tasks, runQueue, current, allocated>>
    BY <1>1 DEF vars
  <2>2. RunQueueIsChain'
    BY <2>1 DEF IInv, RunQueueIsChain, Waits
  <2>3. TypeOK' /\ TailIsNewest' /\ RunningHasNotEnded'
    BY <2>1 DEF IInv, TypeOK, TailIsNewest, RunningHasNotEnded
  <2>4. QED
    BY <1>1, <2>2, <2>3 DEF IInv
<1>2. CASE \E task \in Blocks : Create(task)
  BY <1>2, CreateKeeps
<1>3. CASE Preempt
  BY <1>3, PreemptKeeps
<1>4. CASE Cleanup
  BY <1>4, CleanupKeeps
<1>5. QED
  BY <1>1, <1>2, <1>3, <1>4 DEF Next

(***************************************************************************)
(* For any number of tasks: the run queue is a chain of exactly the tasks  *)
(* that wait, although every Create changes the links of the task that was *)
(* created last, and that one may wait in the middle of the queue.         *)
(***************************************************************************)
THEOREM Invariance == Spec => []IInv
<1>1. Init => IInv
  BY InitEstablishes
<1>2. IInv /\ [Next]_vars => IInv'
  BY StepKeeps
<1>3. QED
  BY <1>1, <1>2, PTL DEF Spec

(***************************************************************************)
(* The run queue of Task.cpp has an end, holds nobody who has ended or     *)
(* runs, and loses no task that was created, whatever blocks are freed and *)
(* used again.                                                             *)
(***************************************************************************)
THEOREM ListsStaySound == Spec => []ListsAreSound
<1>1. IInv => ListsAreSound
  BY ChainIsSound DEF IInv, ListsAreSound
<1>2. QED
  BY <1>1, Invariance, PTL

(***************************************************************************)
(* Preempt and Cleanup give the processor to the task created first of     *)
(* those that wait.                                                        *)
(***************************************************************************)
THEOREM CreationOrder == Spec => TasksTakeTurns
<1>1. IInv /\ [Next]_vars =>
        [current' # current /\ current' \in Blocks =>
           \A task \in allocated \ {current} : pid[current'] <= pid[task]]_vars
  BY StepKeeps DEF Turn
<1>2. QED
  BY <1>1, Invariance, PTL DEF Spec, TasksTakeTurns
=============================================================================
