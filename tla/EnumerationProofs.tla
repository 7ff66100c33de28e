-------------------------- MODULE EnumerationProofs --------------------------
(***************************************************************************)
(* Proofs about Enumeration, for any tree of hubs: no two devices answer   *)
(* to one address, split transactions go through the nearest high-speed    *)
(* hub, and no device is left half configured.                             *)
(***************************************************************************)
EXTENDS Enumeration, FiniteSetTheorems, WellFoundedInduction, TLAPS

Early        == {"descriptor", "address"}
Initializing == Early \cup {"configuration", "initialized"}
Starting     == Initializing \cup {"setConfiguration", "function", "hubDescriptor", "power"}
Scanning     == {"status", "reset", "resetStatus"}
Waiting      == {"status", "configure", "hubStatus"}

Busy(d) == at[d] \notin {"absent", "initialized", "configured"}
Live(d) == at[d] # "absent" /\ link[d] = "enabled"

(***************************************************************************)
(* The thread works on one device; the hubs above it wait for it.          *)
(***************************************************************************)
Chain ==
  /\ \A d \in Devices : Busy(d) => current # None /\ (d = current \/ d \in Above[current])
  /\ current # None => \A h \in Above[current] : at[h] \in Waiting
  /\ current = None => at[Root] # "initialized"

(***************************************************************************)
(* V are the devices whose objects were ever created, A those that have    *)
(* used an address: state that the program does not keep.  A hub resets    *)
(* its ports and creates the objects behind them one by one, each once.    *)
(***************************************************************************)
Ahead(h, d) == at[h] \in Starting \/ (at[h] \in Scanning /\ PortOf[d] >= port[h])

History(V, A) ==
  /\ A \subseteq V /\ nextAddress = Cardinality(A) + 1
  /\ \A d \in Devices : (at[d] # "absent" => d \in V) /\ (at[d] \in Early => d \notin A)
  /\ \A d \in V \ {Root} :
       Parent[d] \in V /\ busAddress[Parent[d]] # 0 /\ ~Ahead(Parent[d], d)
  /\ \A d \in Devices \ {Root} :
       LET h == Parent[d] IN
       (h \notin V \/ Ahead(h, d)) /\ link[d] = "enabled" =>
         at[h] = "resetStatus" /\ PortOf[d] = port[h] /\ busAddress[d] = 0

ObjectsOnce == \E V, A \in SUBSET Devices : History(V, A)

Addressed ==
  \A d \in Devices :
    /\ busAddress[d] < nextAddress
    /\ Live(d) => IF at[d] \in Early THEN busAddress[d] = 0
                  ELSE busAddress[d] = address[d] /\ address[d] # 0

AddressesDiffer ==
  \A d, e \in Devices : d # e /\ Live(d) /\ Live(e) => busAddress[d] # busAddress[e]

\* Only a hub that will be given up has taken the power from a device behind it.
Linked ==
  \A d \in Devices : at[d] # "absent" /\ (\A h \in Above[d] : at[h] # "absent") =>
    link[d] = "enabled" \/ \E h \in Above[d] : at[h] = "portStatus" /\ ~result[h]

\* An object stands for a device that is there.
Present == \A d \in Devices : at[d] # "absent" => kind[d] # "empty"

\* All devices behind a hub are initialized before the first one is configured.
InOrder ==
  \A d \in Devices \ {Root} :
    LET h == Parent[d] IN
    at[d] # "absent" /\ at[h] # "absent" =>
      (at[d] \in Initializing <=>
         at[h] \in Scanning \/ (at[h] = "configure" /\ port[h] <= PortOf[d]))

IInv ==
  /\ TypeOK
  /\ kind \in [Devices -> Kinds] /\ speed \in [Devices -> Speeds] /\ WellConnected
  /\ Chain
  /\ Present
  /\ ObjectsOnce
  /\ Addressed
  /\ AddressesDiffer
  /\ Linked
  /\ InOrder
  /\ TranslatorIsNearest

-----------------------------------------------------------------------------
(* The tree.                                                                 *)

LEMMA Tree ==
  /\ Devices \subseteq Nat /\ Root \in Devices /\ None \notin Devices
  /\ \A d \in Devices \ {Root} :
       /\ Parent[d] \in Devices /\ Parent[d] < d /\ Parent[d] # d
       /\ PortOf[d] \in 1 .. NPorts
  /\ \A d, e \in Devices \ {Root} : Parent[d] = Parent[e] /\ PortOf[d] = PortOf[e] => d = e
BY ConstantsAssumption DEF Devices, Root, None

\* The least number principle, for a set and not for a predicate.
LEMMA LeastNatural ==
  ASSUME NEW T, T \subseteq Nat, T # {}
  PROVE  \E x \in T : \A y \in T : x <= y
<1> DEFINE R == OpToRel(<, Nat)
<1>1. IsWellFoundedOn(R, Nat)
  BY NatLessThanWellFounded
<1>2. \A x, y \in Nat : <<y, x>> \in R <=> y < x
  BY DEF OpToRel
<1> HIDE DEF R
<1>3. PICK x \in T : \A y \in T : ~(<<y, x>> \in R)
  BY <1>1, WFMin
<1>4. ASSUME NEW y \in T PROVE x <= y
  <2>1. x \in Nat /\ y \in Nat /\ ~(y < x)
    BY <1>2, <1>3
  <2>2. QED
    BY <2>1
<1>5. QED
  BY <1>4

\* The recursion of Above has a solution: the least set that is closed under Parent.
Closed(S) == \A e \in S : e # Root => Parent[e] \in S

HubsOf(d) ==
  {h \in Devices : \A S \in SUBSET Devices : (d # Root => Parent[d] \in S) /\ Closed(S) => h \in S}

LEMMA HubsOfHub ==
  ASSUME NEW d \in Devices
  PROVE  HubsOf(d) = IF d = Root THEN {} ELSE {Parent[d]} \cup HubsOf(Parent[d])
<1>1. CASE d = Root
  <2>1. Closed({}) /\ {} \in SUBSET Devices
    BY DEF Closed
  <2>2. QED
    BY <1>1, <2>1 DEF HubsOf
<1>2. CASE d # Root
  <2> DEFINE p == Parent[d]
             up == {p} \cup HubsOf(p)
  <2>1. p \in Devices
    BY <1>2, Tree
  <2>2. \A e \in HubsOf(p) : e \in Devices /\ (e # Root => Parent[e] \in HubsOf(p))
    <3>1. ASSUME NEW e \in HubsOf(p), e # Root PROVE Parent[e] \in HubsOf(p)
      <4>1. e \in Devices /\ Parent[e] \in Devices
        BY <3>1, Tree DEF HubsOf
      <4>2. ASSUME NEW S \in SUBSET Devices, p # Root => Parent[p] \in S, Closed(S)
            PROVE  Parent[e] \in S
        <5>1. e \in S
          BY <4>2 DEF HubsOf
        <5>2. QED
          BY <3>1, <4>2, <5>1 DEF Closed
      <4>3. QED
        BY <4>1, <4>2 DEF HubsOf
    <3>2. QED
      BY <3>1 DEF HubsOf
  <2>3. p # Root => Parent[p] \in HubsOf(p)
    BY <2>1, Tree DEF HubsOf
  <2>4. up \in SUBSET Devices /\ Closed(up) /\ p \in up
    BY <2>1, <2>2, <2>3 DEF Closed
  <2>5. HubsOf(d) \subseteq up
    BY <1>2, <2>4 DEF HubsOf
  <2>6. p \in HubsOf(d)
    BY <1>2, <2>1 DEF HubsOf
  <2>7. HubsOf(p) \subseteq HubsOf(d)
    <3> SUFFICES ASSUME NEW h \in HubsOf(p), NEW S \in SUBSET Devices, p \in S, Closed(S)
                 PROVE  h \in S
      BY <1>2 DEF HubsOf
    <3>1. p # Root => Parent[p] \in S
      BY DEF Closed
    <3>2. QED
      BY <3>1 DEF HubsOf
  <2>8. QED
    BY <1>2, <2>5, <2>6, <2>7
<1>3. QED
  BY <1>1, <1>2

LEMMA AboveHub ==
  /\ Above[Root] = {}
  /\ \A d \in Devices \ {Root} : Above[d] = {Parent[d]} \cup Above[Parent[d]]
<1> DEFINE Solves(f) == f = [d \in Devices |-> IF d = Root THEN {} ELSE {Parent[d]} \cup f[Parent[d]]]
           hubs == [d \in Devices |-> HubsOf(d)]
<1>1. Solves(hubs)
  <2>1. \A d \in Devices : hubs[d] = IF d = Root THEN {} ELSE {Parent[d]} \cup hubs[Parent[d]]
    BY HubsOfHub, Tree
  <2>2. QED
    BY <2>1
<1>2. \E f : Solves(f)
  BY <1>1
<1>3. Above = CHOOSE f : Solves(f)
  BY DEF Above
<1> HIDE DEF Solves
<1>4. Solves(Above)
  BY <1>2, <1>3
<1>5. QED
  BY <1>4, Tree DEF Solves

\* The hubs above a device are in every set that holds the first of them and is closed.
LEMMA AboveWithin ==
  ASSUME NEW S, \A e \in S : e \in Devices /\ (e # Root => Parent[e] \in S),
         NEW d \in Devices, d # Root => Parent[d] \in S
  PROVE  Above[d] \subseteq S
<1> DEFINE T == {e \in Devices : (e # Root => Parent[e] \in S) /\ ~(Above[e] \subseteq S)}
<1> SUFFICES ASSUME T # {} PROVE FALSE
  OBVIOUS
<1>1. PICK x \in T : \A y \in T : x <= y
  <2>1. T \subseteq Nat
    BY Tree
  <2>2. QED
    BY <2>1, LeastNatural
<1>2. x \in Devices \ {Root} /\ Parent[x] \in S
  BY <1>1, AboveHub
<1>3. Parent[x] \in Devices /\ Parent[x] < x /\ x \in Nat /\ Parent[x] \in Nat
  BY <1>2, Tree
<1>4. Parent[x] \notin T
  BY <1>1, <1>3
<1>5. Above[Parent[x]] \subseteq S
  BY <1>2, <1>3, <1>4
<1>6. QED
  BY <1>1, <1>2, <1>5, AboveHub

LEMMA AboveLess ==
  ASSUME NEW d \in Devices, NEW h \in Above[d]
  PROVE  h \in Devices /\ h < d /\ h # d
<1> DEFINE S == {e \in Devices : e < d}
<1>1. \A e \in S : e \in Devices /\ (e # Root => Parent[e] \in S)
  <2> SUFFICES ASSUME NEW e \in S, e # Root PROVE Parent[e] \in S
    OBVIOUS
  <2>1. Parent[e] \in Devices /\ Parent[e] < e /\ e \in Nat /\ Parent[e] \in Nat /\ d \in Nat
    BY Tree
  <2>2. QED
    BY <2>1
<1>2. d # Root => Parent[d] \in S
  BY Tree
<1> HIDE DEF S
<1>3. h \in S
  BY <1>1, <1>2, AboveWithin
<1>4. QED
  BY <1>3, Tree DEF S

LEMMA RootAbove ==
  ASSUME NEW d \in Devices \ {Root}
  PROVE  Root \in Above[d]
<1> DEFINE T == {e \in Devices \ {Root} : Root \notin Above[e]}
<1> SUFFICES ASSUME T # {} PROVE FALSE
  OBVIOUS
<1>1. PICK x \in T : \A y \in T : x <= y
  <2>1. T \subseteq Nat
    BY Tree
  <2>2. QED
    BY <2>1, LeastNatural
<1>2. Parent[x] \in Devices /\ Parent[x] < x /\ x \in Nat /\ Parent[x] \in Nat
  BY Tree
<1>3. Parent[x] \notin T
  BY <1>1, <1>2
<1>4. QED
  BY <1>1, <1>2, <1>3, AboveHub

LEMMA AboveClosed ==
  ASSUME NEW d \in Devices, NEW e \in Above[d]
  PROVE  (e # Root => Parent[e] \in Above[d]) /\ Above[e] \subseteq Above[d]
<1> DEFINE T == {x \in Devices : \E y \in Above[x] : y # Root /\ Parent[y] \notin Above[x]}
<1>1. T = {}
  <2> SUFFICES ASSUME T # {} PROVE FALSE
    OBVIOUS
  <2>1. PICK x \in T : \A y \in T : x <= y
    <3>1. T \subseteq Nat
      BY Tree
    <3>2. QED
      BY <3>1, LeastNatural
  <2>2. x \in Devices \ {Root}
    BY <2>1, AboveHub
  <2>3. PICK y \in Above[x] : y # Root /\ Parent[y] \notin Above[x]
    BY <2>1
  <2>4. Parent[x] \in Devices /\ Parent[x] < x /\ x \in Nat /\ Parent[x] \in Nat
    BY <2>2, Tree
  <2>5. Parent[x] \notin T
    BY <2>1, <2>4
  <2>6. Above[x] = {Parent[x]} \cup Above[Parent[x]]
    BY <2>2, AboveHub
  <2>7. CASE y = Parent[x]
    BY <2>3, <2>4, <2>6, <2>7, AboveHub
  <2>8. CASE y \in Above[Parent[x]]
    BY <2>3, <2>4, <2>5, <2>6, <2>8
  <2>9. QED
    BY <2>3, <2>6, <2>7, <2>8
<1>2. \A y \in Above[d] : y \in Devices /\ (y # Root => Parent[y] \in Above[d])
  BY <1>1, AboveLess
<1>3. Above[e] \subseteq Above[d]
  BY <1>2, AboveWithin
<1>4. QED
  BY <1>2, <1>3

\* A hub above a device is the hub of the device, or of another one above it.
LEMMA AboveHasChild ==
  ASSUME NEW d \in Devices, NEW h \in Above[d]
  PROVE  \E e \in Above[d] \cup {d} : e # Root /\ Parent[e] = h
<1> DEFINE S == {g \in Above[d] : \E e \in Above[d] \cup {d} : e # Root /\ Parent[e] = g}
<1>1. \A e \in S : e \in Devices /\ (e # Root => Parent[e] \in S)
  BY AboveLess, AboveClosed
<1>2. d # Root => Parent[d] \in S
  BY AboveHub
<1> HIDE DEF S
<1>3. h \in S
  BY <1>1, <1>2, AboveWithin
<1>4. QED
  BY <1>3 DEF S

\* A set that holds the hub of each of its devices holds all hubs above them.
LEMMA AboveIn ==
  ASSUME NEW V \in SUBSET Devices, \A e \in V \ {Root} : Parent[e] \in V, NEW d \in V
  PROVE  Above[d] \subseteq V
BY AboveWithin

-----------------------------------------------------------------------------
(* Steps that keep addresses and translators.                                *)

LEMMA KeepsAddresses ==
  ASSUME IInv, UNCHANGED <<object, nextAddress, kind, speed>>,
         \A e \in Devices : busAddress'[e] \in {0, busAddress[e]},
         \A e \in Devices : Live(e)' =>
           /\ Live(e) /\ (at'[e] \in Early <=> at[e] \in Early)
           /\ \A h \in Above[e] \cup {e} : busAddress'[h] = busAddress[h]
  PROVE  WellConnected' /\ Addressed' /\ AddressesDiffer' /\ TranslatorIsNearest'
<1>1. WellConnected'
  BY DEF IInv, WellConnected
<1>2. Addressed'
  <2> SUFFICES ASSUME NEW e \in Devices
               PROVE  /\ busAddress'[e] < nextAddress
                      /\ Live(e)' => IF at'[e] \in Early THEN busAddress'[e] = 0
                                     ELSE busAddress'[e] = address[e] /\ address[e] # 0
    BY DEF Addressed, object
  <2>1. busAddress'[e] < nextAddress
    <3>1. busAddress[e] < nextAddress /\ busAddress[e] \in Nat /\ nextAddress \in Nat
      BY ConstantsAssumption DEF IInv, Addressed, TypeOK, AddressSize
    <3>2. QED
      BY <3>1
  <2>2. QED
    BY <2>1 DEF IInv, Addressed
<1>3. AddressesDiffer'
  <2> SUFFICES ASSUME NEW d \in Devices, NEW e \in Devices, d # e, Live(d)', Live(e)'
               PROVE  busAddress'[d] # busAddress'[e]
    BY DEF AddressesDiffer
  <2>1. QED
    BY DEF IInv, AddressesDiffer
<1>4. TranslatorIsNearest'
  <2> SUFFICES ASSUME NEW d \in Devices, Live(d)'
               PROVE  LET fast == {h \in Above[d] : speed[h] = "high"} IN
                      IF speed[d] = "high" \/ fast = {} THEN ~split[d]
                      ELSE \E h \in fast, k \in Above[d] \cup {d} :
                             /\ \A g \in fast : g = h \/ g \in Above[h]
                             /\ k # Root /\ Parent[k] = h
                             /\ split[d] /\ hubAddress[d] = busAddress'[h] /\ hubPort[d] = PortOf[k]
    BY DEF TranslatorIsNearest, Live, object
  <2> DEFINE fast == {h \in Above[d] : speed[h] = "high"}
  <2>1. IF speed[d] = "high" \/ fast = {} THEN ~split[d]
        ELSE \E h \in fast, k \in Above[d] \cup {d} :
               /\ \A g \in fast : g = h \/ g \in Above[h]
               /\ k # Root /\ Parent[k] = h
               /\ split[d] /\ hubAddress[d] = busAddress[h] /\ hubPort[d] = PortOf[k]
    BY DEF IInv, TranslatorIsNearest, Live
  <2>2. \A h \in fast : busAddress'[h] = busAddress[h]
    OBVIOUS
  <2> HIDE DEF fast
  <2>3. IF speed[d] = "high" \/ fast = {} THEN ~split[d]
        ELSE \E h \in fast, k \in Above[d] \cup {d} :
               /\ \A g \in fast : g = h \/ g \in Above[h]
               /\ k # Root /\ Parent[k] = h
               /\ split[d] /\ hubAddress[d] = busAddress'[h] /\ hubPort[d] = PortOf[k]
    BY <2>1, <2>2
  <2>4. QED
    BY <2>3 DEF fast
<1>5. QED
  BY <1>1, <1>2, <1>3, <1>4

-----------------------------------------------------------------------------
(* The thread stays with a device, goes back to its hub, or on behind it.    *)

Idle == {"absent", "initialized", "configured"}

LEMMA ChainStays ==
  ASSUME TypeOK, Chain, NEW d \in Devices, NEW w, current = d,
         at' = [at EXCEPT ![d] = w], current' = d
  PROVE  Chain'
<1>1. \A e \in Devices \ {d} : at'[e] = at[e]
  BY DEF TypeOK
<1>2. \A h \in Above[d] : h \in Devices \ {d}
  BY AboveLess
<1>3. current # None
  BY Tree
<1>4. QED
  BY <1>1, <1>2, <1>3 DEF Chain, Busy

LEMMA ChainReturns ==
  ASSUME TypeOK, Chain, NEW d \in Devices, NEW w \in Idle, current = d,
         at' = [at EXCEPT ![d] = w], current' = Caller(d)
  PROVE  Chain'
<1>1. at'[d] = w /\ \A e \in Devices \ {d} : at'[e] = at[e]
  BY DEF TypeOK
<1>2. current # None /\ \A h \in Above[d] : h \in Devices \ {d} /\ at[h] \in Waiting
  BY Tree, AboveLess DEF Chain
<1>3. current' \in Devices /\ current' # None
  BY Tree DEF Caller
<1>4. \A e \in Above[d] : e = current' \/ e \in Above[current']
  BY AboveHub DEF Caller
<1>5. Above[current'] \subseteq Above[d]
  BY AboveHub DEF Caller
<1>6. \A e \in Devices : Busy(e)' => e \in Above[d]
  BY <1>1 DEF Chain, Busy, Idle
<1>7. \A h \in Above[current'] : at'[h] \in Waiting
  BY <1>1, <1>2, <1>5
<1>8. QED
  BY <1>3, <1>4, <1>6, <1>7 DEF Chain

LEMMA ChainDescends ==
  ASSUME TypeOK, Chain, NEW d \in Devices \ {Root}, NEW v, NEW w \in Waiting,
         current = Parent[d],
         at' = [at EXCEPT ![d] = v, ![Parent[d]] = w], current' = d
  PROVE  Chain'
<1>1. Parent[d] \in Devices \ {d} /\ current # None /\ current' # None
  BY Tree
<1>2. at'[Parent[d]] = w /\ \A e \in Devices \ {d, Parent[d]} : at'[e] = at[e]
  BY <1>1 DEF TypeOK
<1>3. Above[d] = {Parent[d]} \cup Above[Parent[d]]
  BY AboveHub
<1>4. \A h \in Above[Parent[d]] : h \in Devices \ {d, Parent[d]}
  BY <1>1, <1>3, AboveLess
<1>5. \A e \in Devices : Busy(e)' => e = d \/ e \in Above[d]
  BY <1>1, <1>2, <1>3 DEF Chain, Busy
<1>6. \A h \in Above[d] : at'[h] \in Waiting
  BY <1>1, <1>2, <1>3, <1>4 DEF Chain
<1>7. QED
  BY <1>1, <1>5, <1>6 DEF Chain

-----------------------------------------------------------------------------
(* A step that creates no object.                                            *)

\* The children of a hub that are initialized, and not yet configured.
Ready(h, d) == at[h] \in Scanning \/ (at[h] = "configure" /\ port[h] <= PortOf[d])

LEMMA MoveLinked ==
  ASSUME IInv, NEW d \in Devices, NEW w,
         at' = [at EXCEPT ![d] = w], at[d] # "absent",
         \A e \in Devices \ {d} : result'[e] = result[e],
         \A e \in Devices : at[e] # "absent" =>
           \/ link'[e] = link[e]
           \/ (d \in Above[e] \cup {e} /\ w = "absent")
           \/ d \in Above[e] /\ w = "portStatus" /\ ~result'[d],
         w # "absent" /\ at[d] = "portStatus" /\ ~result[d] => w = "portStatus" /\ ~result'[d]
  PROVE  Linked' /\ (UNCHANGED kind => Present')
<1>1. at'[d] = w /\ \A e \in Devices \ {d} : at'[e] = at[e]
  BY DEF IInv, TypeOK
<1>2. UNCHANGED kind => Present'
  BY <1>1 DEF IInv, Present
<1>3. Linked'
  <2> SUFFICES ASSUME NEW e \in Devices, at'[e] # "absent", \A h \in Above[e] : at'[h] # "absent"
               PROVE  \/ link'[e] = "enabled"
                      \/ \E h \in Above[e] : at'[h] = "portStatus" /\ ~result'[h]
    BY DEF Linked
  <2>1. \A h \in Above[e] : h \in Devices
    BY AboveLess
  <2>2. at[e] # "absent" /\ \A h \in Above[e] : at[h] # "absent"
    BY <1>1, <2>1
  <2>3. CASE link'[e] = link[e]
    <3>1. CASE link[e] = "enabled"
      BY <2>3, <3>1
    <3>2. CASE link[e] # "enabled"
      <4>1. PICK h \in Above[e] : at[h] = "portStatus" /\ ~result[h]
        BY <2>2, <3>2 DEF IInv, Linked
      <4>2. at'[h] = "portStatus" /\ ~result'[h]
        BY <1>1, <2>1, <4>1
      <4>3. QED
        BY <4>2
    <3>3. QED
      BY <3>1, <3>2
  <2>4. CASE d \in Above[e] /\ w = "portStatus" /\ ~result'[d]
    BY <1>1, <2>4
  <2>5. CASE d \in Above[e] \cup {e} /\ w = "absent"
    BY <1>1, <2>5
  <2>6. QED
    BY <2>2, <2>3, <2>4, <2>5
<1>4. QED
  BY <1>2, <1>3

LEMMA MoveInOrder ==
  ASSUME IInv, NEW d \in Devices, NEW w,
         at' = [at EXCEPT ![d] = w], at[d] # "absent",
         \A e \in Devices \ {d} : port'[e] = port[e],
         w = "absent" \/ d = Root \/ (w \in Initializing <=> at[d] \in Initializing),
         \A e \in Devices \ {Root} : Parent[e] = d /\ at[e] # "absent" /\ ~Ahead(d, e) /\ w # "absent" =>
           (Ready(d, e)' <=> Ready(d, e))
  PROVE  InOrder'
<1>1. at'[d] = w /\ \A e \in Devices \ {d} : at'[e] = at[e]
  BY DEF IInv, TypeOK
<1>2. InOrder'
  <2> SUFFICES ASSUME NEW e \in Devices \ {Root}, at'[e] # "absent", at'[Parent[e]] # "absent"
               PROVE  at'[e] \in Initializing <=> Ready(Parent[e], e)'
    BY DEF InOrder, Ready
  <2>1. Parent[e] \in Devices /\ at[e] # "absent" /\ at[Parent[e]] # "absent"
    BY <1>1, Tree
  <2>2. at[e] \in Initializing <=> Ready(Parent[e], e)
    BY <2>1 DEF IInv, InOrder, Ready
  <2>3. at'[e] \in Initializing <=> at[e] \in Initializing
    BY <1>1
  <2>4. ~Ahead(Parent[e], e)
    <3>1. PICK V \in SUBSET Devices, A \in SUBSET Devices : History(V, A)
      BY DEF IInv, ObjectsOnce
    <3>2. QED
      BY <2>1, <3>1 DEF History
  <2>5. Ready(Parent[e], e)' <=> Ready(Parent[e], e)
    BY <1>1, <2>1, <2>4 DEF Ready
  <2>6. QED
    BY <2>2, <2>3, <2>5
<1>3. QED
  BY <1>2

LEMMA MoveKeeps ==
  ASSUME IInv, TypeOK', NEW d \in Devices, NEW w,
         current = d, at' = [at EXCEPT ![d] = w], at[d] # "absent",
         UNCHANGED <<object, nextAddress, kind, speed>>,
         \A e \in Devices \ {d} : port'[e] = port[e] /\ result'[e] = result[e],
         current' = d \/ (w \in Idle /\ current' = Caller(d)),
         w = "absent" \/ ((w \in Early <=> at[d] \in Early)
                           /\ (d = Root \/ (w \in Initializing <=> at[d] \in Initializing))),
         \A e \in Devices :
           \/ busAddress'[e] = busAddress[e] /\ (link'[e] = "enabled" => link[e] = "enabled")
           \/ /\ e # Root /\ Parent[e] = d /\ Ahead(d, e) /\ busAddress'[e] = 0
              /\ Ahead(d, e)' => w = "resetStatus" /\ PortOf[e] = port'[d],
         \A e \in Devices \ {Root} : Parent[e] = d /\ Ahead(d, e)' =>
           Ahead(d, e) /\ ~(at[d] = "resetStatus" /\ PortOf[e] = port[d]),
         \A e \in Devices \ {Root} : Parent[e] = d /\ at[e] # "absent" /\ ~Ahead(d, e) /\ w # "absent" =>
           (Ready(d, e)' <=> Ready(d, e)),
         \A e \in Devices : at[e] # "absent" =>
           \/ link'[e] = link[e]
           \/ (d \in Above[e] \cup {e} /\ w = "absent")
           \/ d \in Above[e] /\ w = "portStatus" /\ ~result'[d],
         w # "absent" /\ at[d] = "portStatus" /\ ~result[d] => w = "portStatus" /\ ~result'[d]
  PROVE  IInv'
<1>1. at'[d] = w /\ \A e \in Devices \ {d} : at'[e] = at[e]
  BY DEF IInv, TypeOK
<1>2. Chain'
  BY ChainStays, ChainReturns DEF IInv
<1>3. PICK V \in SUBSET Devices, A \in SUBSET Devices : History(V, A)
  BY DEF IInv, ObjectsOnce
<1>4. \A e \in Devices : e # Root /\ Parent[e] = d /\ Ahead(d, e) => e \notin V
  BY <1>3 DEF History
<1>5. \A e \in V : busAddress'[e] = busAddress[e] /\ (link'[e] = "enabled" => link[e] = "enabled")
  BY <1>4
<1>6. WellConnected' /\ Addressed' /\ AddressesDiffer' /\ TranslatorIsNearest'
  <2>1. \A e \in Devices : busAddress'[e] \in {0, busAddress[e]}
    OBVIOUS
  <2>2. ASSUME NEW e \in Devices, Live(e)'
        PROVE  /\ Live(e) /\ (at'[e] \in Early <=> at[e] \in Early)
               /\ \A h \in Above[e] \cup {e} : busAddress'[h] = busAddress[h]
    <3>1. e \in V
      BY <1>1, <1>3, <2>2 DEF History, Live
    <3>2. Above[e] \subseteq V
      BY <1>3, <3>1, AboveIn DEF History
    <3>3. QED
      BY <1>1, <1>5, <2>2, <3>1, <3>2 DEF Live
  <2>3. QED
    BY <2>1, <2>2, KeepsAddresses
<1>7. ObjectsOnce'
  <2>2. \A e \in Devices \ {Root} : Ahead(Parent[e], e)' =>
          /\ Ahead(Parent[e], e)
          /\ at[Parent[e]] = "resetStatus" /\ PortOf[e] = port[Parent[e]] =>
               at'[Parent[e]] = "resetStatus" /\ PortOf[e] = port'[Parent[e]]
    <3> SUFFICES ASSUME NEW e \in Devices \ {Root}, Ahead(Parent[e], e)'
                 PROVE  /\ Ahead(Parent[e], e)
                        /\ at[Parent[e]] = "resetStatus" /\ PortOf[e] = port[Parent[e]] =>
                             at'[Parent[e]] = "resetStatus" /\ PortOf[e] = port'[Parent[e]]
      OBVIOUS
    <3>1. CASE Parent[e] = d
      BY <3>1
    <3>2. CASE Parent[e] # d
      BY <1>1, <3>2, Tree DEF Ahead
    <3>3. QED
      BY <3>1, <3>2
  <2>3. \A e \in Devices : (at'[e] # "absent" => e \in V) /\ (at'[e] \in Early => e \notin A)
    BY <1>1, <1>3 DEF History, Early
  <2>4. \A e \in V \ {Root} :
          Parent[e] \in V /\ busAddress'[Parent[e]] # 0 /\ ~Ahead(Parent[e], e)'
    BY <1>3, <1>5, <2>2 DEF History
  <2>5. \A e \in Devices \ {Root} :
          (Parent[e] \notin V \/ Ahead(Parent[e], e)') /\ link'[e] = "enabled" =>
            at'[Parent[e]] = "resetStatus" /\ PortOf[e] = port'[Parent[e]] /\ busAddress'[e] = 0
    <3> SUFFICES ASSUME NEW e \in Devices \ {Root},
                        Parent[e] \notin V \/ Ahead(Parent[e], e)', link'[e] = "enabled"
                 PROVE  /\ at'[Parent[e]] = "resetStatus" /\ PortOf[e] = port'[Parent[e]]
                        /\ busAddress'[e] = 0
      OBVIOUS
    <3>1. CASE busAddress'[e] = busAddress[e] /\ link[e] = "enabled"
      <4>1. at[Parent[e]] = "resetStatus" /\ PortOf[e] = port[Parent[e]] /\ busAddress[e] = 0
        BY <1>3, <2>2, <3>1 DEF History
      <4>2. Parent[e] \in V
        BY <1>3, <4>1, Tree DEF History
      <4>3. QED
        BY <2>2, <3>1, <4>1, <4>2
    <3>2. CASE /\ Parent[e] = d /\ busAddress'[e] = 0
               /\ Ahead(d, e)' => w = "resetStatus" /\ PortOf[e] = port'[d]
      BY <1>1, <1>3, <3>2 DEF History
    <3>3. QED
      BY <3>1, <3>2
  <2>6. History(V, A)'
    BY <1>3, <2>3, <2>4, <2>5 DEF History
  <2>7. QED
    BY <1>3, <2>6 DEF ObjectsOnce
<1>8. Linked' /\ Present'
  BY MoveLinked
<1>9. InOrder'
  BY MoveInOrder
<1>10. QED
  BY <1>2, <1>6, <1>7, <1>8, <1>9 DEF IInv

-----------------------------------------------------------------------------
(* Types.                                                                    *)

LEMMA CallerIsDevice ==
  \A d \in Devices : Caller(d) \in Devices /\ Caller(d) # None
BY Tree DEF Caller

WhereOK  == at \in [Devices -> Progress] /\ current \in Devices \cup {None}
BusOK    == link \in [Devices -> {"off", "powered", "enabled"}]
AnswerOK == busAddress \in [Devices -> 0 .. MaxAddress]
ObjectOK == /\ address \in [Devices -> 0 .. MaxAddress] /\ split \in [Devices -> BOOLEAN]
            /\ hubAddress \in [Devices -> 0 .. MaxAddress] /\ hubPort \in [Devices -> 1 .. NPorts]
LoopOK   == port \in [Devices -> 1 .. NPorts] /\ result \in [Devices -> BOOLEAN]
NextOK   == nextAddress \in 0 .. AddressSize - 1
SystemOK == /\ names \in Seq(Devices) /\ main \in {"usb", "register", "idle"}
            /\ keyboard \in Devices \cup {None}

LEMMA TypeParts ==
  /\ TypeOK <=> WhereOK /\ BusOK /\ AnswerOK /\ ObjectOK /\ LoopOK /\ NextOK /\ SystemOK
  /\ TypeOK' <=> WhereOK' /\ BusOK' /\ AnswerOK' /\ ObjectOK' /\ LoopOK' /\ NextOK' /\ SystemOK'
BY DEF TypeOK, WhereOK, BusOK, AnswerOK, ObjectOK, LoopOK, NextOK, SystemOK

LEMMA TypesThatStay ==
  ASSUME TypeOK
  PROVE  /\ UNCHANGED <<at, current>> => WhereOK'
         /\ UNCHANGED link => BusOK'
         /\ UNCHANGED busAddress => AnswerOK'
         /\ UNCHANGED bus => BusOK' /\ AnswerOK'
         /\ UNCHANGED object => ObjectOK'
         /\ UNCHANGED loop => LoopOK'
         /\ UNCHANGED <<port, result>> => LoopOK'
         /\ UNCHANGED nextAddress => NextOK'
         /\ UNCHANGED system => SystemOK'
BY TypeParts DEF WhereOK, BusOK, AnswerOK, ObjectOK, LoopOK, NextOK, SystemOK, bus, object, loop, system

LEMMA TypesOfMoves ==
  ASSUME TypeOK, NEW d \in Devices
  PROVE  /\ \A w \in Progress : GoOn(d, w) => WhereOK'
         /\ GiveUp(d) \/ Configured(d) => WhereOK'
         /\ NextPort(d) /\ UNCHANGED result => LoopOK'
         /\ \A w, v \in Progress : Continue(d, w, v) => WhereOK' /\ (UNCHANGED result => LoopOK')
<1> USE TypeParts DEF WhereOK
<1>1. \A w \in Progress : GoOn(d, w) => WhereOK'
  BY DEF GoOn
<1>2. GiveUp(d) \/ Configured(d) => WhereOK'
  BY CallerIsDevice DEF GiveUp, Configured, Progress
<1>3. NextPort(d) => port' \in [Devices -> 1 .. NPorts]
  BY ConstantsAssumption DEF NextPort, LastPort, LoopOK
<1>4. QED
  BY <1>1, <1>2, <1>3 DEF Continue, LoopOK

LEMMA TypeStays ==
  ASSUME TypeOK, [Next]_vars
  PROVE  TypeOK'
<1> USE TypeParts, TypesThatStay, TypesOfMoves
<1>1. ASSUME NEW d \in Devices, GetDeviceDescriptor(d) PROVE TypeOK'
  BY <1>1 DEF GetDeviceDescriptor, Progress
<1>2. ASSUME NEW d \in Devices, SetAddress(d) PROVE TypeOK'
  <2>1. NextOK'
    <3>1. AddressSize \in Nat /\ AddressSize > 0
      BY ConstantsAssumption DEF AddressSize
    <3>2. nextAddress' = (nextAddress + 1) % AddressSize /\ nextAddress \in Nat
      BY <1>2, <3>1 DEF SetAddress, NextOK
    <3>3. QED
      BY <3>1, <3>2 DEF NextOK
  <2>2. AnswerOK' /\ ObjectOK'
    <3>1. CASE nextAddress <= MaxAddress
      <4>1. nextAddress \in 0 .. MaxAddress
        BY <3>1, ConstantsAssumption DEF NextOK, AddressSize
      <4>2. AnswerOK'
        BY <1>2, <4>1 DEF SetAddress, AnswerOK, TakeAddress
      <4>3. address' \in [Devices -> 0 .. MaxAddress]
        BY <1>2, <4>1 DEF SetAddress, ObjectOK
      <4>4. QED
        BY <1>2, <4>2, <4>3 DEF SetAddress, ObjectOK
    <3>2. CASE ~(nextAddress <= MaxAddress)
      BY <1>2, <3>2 DEF SetAddress, ObjectOK, AnswerOK
    <3>3. QED
      BY <3>1, <3>2
  <2>3. WhereOK' /\ UNCHANGED <<link, loop, system>>
    BY <1>2 DEF SetAddress, Progress
  <2>4. QED
    BY <2>1, <2>2, <2>3
<1>3. ASSUME NEW d \in Devices, GetConfiguration(d) PROVE TypeOK'
  <2>1. WhereOK'
    BY <1>3, CallerIsDevice DEF GetConfiguration, WhereOK, Progress
  <2>2. QED
    BY <1>3, <2>1 DEF GetConfiguration
<1>4. ASSUME NEW d \in Devices, SetConfiguration(d) PROVE TypeOK'
  BY <1>4 DEF SetConfiguration, Progress
<1>5. ASSUME NEW d \in Devices, ConfigureFunction(d) PROVE TypeOK'
  <2>1. SystemOK'
    BY <1>5 DEF ConfigureFunction, AddDevice, SystemOK
  <2>2. QED
    BY <1>5, <2>1 DEF ConfigureFunction
<1>6. ASSUME NEW d \in Devices, GetHubDescriptor(d) PROVE TypeOK'
  <2>1. LoopOK'
    <3>1. 1 \in 1 .. NPorts
      BY ConstantsAssumption
    <3>2. port' = [port EXCEPT ![d] = 1] /\ result' = [result EXCEPT ![d] = TRUE] => LoopOK'
      BY <3>1 DEF LoopOK
    <3>3. QED
      BY <1>6, <3>2 DEF GetHubDescriptor
  <2>2. WhereOK'
    BY <1>6 DEF GetHubDescriptor, Progress
  <2>3. QED
    BY <1>6, <2>1, <2>2 DEF GetHubDescriptor
<1>7. ASSUME NEW d \in Devices, PowerPort(d) PROVE TypeOK'
  <2>1. BusOK'
    BY <1>7 DEF PowerPort, BusOK
  <2>2. WhereOK' /\ LoopOK'
    BY <1>7 DEF PowerPort, Progress
  <2>3. QED
    BY <1>7, <2>1, <2>2 DEF PowerPort
<1>8. ASSUME NEW d \in Devices, GetPortStatus(d) PROVE TypeOK'
  BY <1>8 DEF GetPortStatus, Progress
<1>9. ASSUME NEW d \in Devices, ResetPort(d) PROVE TypeOK'
  <2>1. BusOK' /\ AnswerOK'
    BY <1>9, ConstantsAssumption DEF ResetPort, BusOK, AnswerOK
  <2>2. WhereOK' /\ LoopOK'
    BY <1>9 DEF ResetPort, Progress
  <2>3. QED
    BY <1>9, <2>1, <2>2 DEF ResetPort
<1>10. ASSUME NEW d \in Devices, GetResetStatus(d) PROVE TypeOK'
  <2>1. PowerOff(At(d, port[d])) => BusOK'
    BY DEF PowerOff, BusOK
  <2>2. /\ GiveUp(d) /\ UNCHANGED <<bus, object, port>> => WhereOK' /\ BusOK' /\ ObjectOK' /\ AnswerOK'
        /\ GiveUp(d) /\ UNCHANGED port /\ UNCHANGED result => LoopOK'
        /\ GiveUp(d) /\ UNCHANGED <<busAddress, object, port>> => WhereOK' /\ ObjectOK' /\ AnswerOK'
    BY DEF LoopOK
  <2>3. Continue(d, "status", "configure") /\ UNCHANGED result => WhereOK' /\ LoopOK'
    BY DEF Progress
  <2>4. ASSUME NEW e \in At(d, port[d]), NewDevice(d, e), NextPort(d), current' = e, UNCHANGED result,
               at' = [at EXCEPT ![e] = "descriptor", ![d] = IF LastPort(d) THEN "configure" ELSE "status"]
        PROVE  ObjectOK' /\ LoopOK' /\ WhereOK'
    <3>1. e \in Devices
      BY DEF At
    <3>2. WhereOK'
      BY <2>4, <3>1 DEF WhereOK, Progress
    <3>3. address' \in [Devices -> 0 .. MaxAddress] /\ split' \in [Devices -> BOOLEAN]
      BY <2>4, <3>1, ConstantsAssumption DEF NewDevice, NeedsTranslator, ObjectOK
    <3>4. hubAddress' \in [Devices -> 0 .. MaxAddress] /\ hubPort' \in [Devices -> 1 .. NPorts]
      BY <2>4, <3>1 DEF NewDevice, NeedsTranslator, ObjectOK, LoopOK
    <3>5. QED
      BY <2>4, <3>2, <3>3, <3>4 DEF ObjectOK
  <2>5. UNCHANGED <<result, nextAddress, system>>
    BY <1>10 DEF GetResetStatus
  <2>6. CASE GiveUp(d) /\ UNCHANGED <<bus, object, port>>
    BY <2>2, <2>5, <2>6
  <2>7. CASE Continue(d, "status", "configure") /\ UNCHANGED <<bus, object>>
    BY <2>3, <2>5, <2>7
  <2>8. CASE /\ PowerOff(At(d, port[d])) \/ UNCHANGED link
             /\ GiveUp(d) /\ UNCHANGED <<busAddress, object, port>>
    BY <2>1, <2>2, <2>5, <2>8
  <2>9. ASSUME NEW e \in At(d, port[d]), NewDevice(d, e), NextPort(d), current' = e, UNCHANGED bus,
               at' = [at EXCEPT ![e] = "descriptor", ![d] = IF LastPort(d) THEN "configure" ELSE "status"]
        PROVE  TypeOK'
    BY <2>4, <2>5, <2>9
  <2>10. QED
    BY <1>10, <2>6, <2>7, <2>8, <2>9 DEF GetResetStatus
<1>11. ASSUME NEW d \in Devices, ConfigureDevice(d) PROVE TypeOK'
  <2>1. WhereOK' /\ LoopOK'
    BY <1>11 DEF ConfigureDevice, At, WhereOK, Progress
  <2>2. QED
    BY <1>11, <2>1 DEF ConfigureDevice
<1>12. ASSUME NEW d \in Devices, GetHubStatus(d) PROVE TypeOK'
  <2>1. BusOK'
    BY <1>12 DEF GetHubStatus, PowerOff, BusOK
  <2>2. QED
    BY <1>12, <2>1 DEF GetHubStatus, Progress
<1>13. ASSUME NEW d \in Devices, CheckPort(d) PROVE TypeOK'
  <2>1. BusOK'
    BY <1>13 DEF CheckPort, PowerOff, BusOK
  <2>2. WhereOK'
    <3>1. "portStatus" \in Progress
      BY DEF Progress
    <3>2. GoOn(d, "portStatus") \/ Configured(d) \/ GiveUp(d)
      BY <1>13 DEF CheckPort, EndOfPorts
    <3>3. QED
      BY <3>1, <3>2
  <2>3. port' \in [Devices -> 1 .. NPorts] /\ result' \in [Devices -> BOOLEAN]
    <3>1. result' \in [Devices -> BOOLEAN]
      BY <1>13 DEF CheckPort, LoopOK
    <3>2. port' \in [Devices -> 1 .. NPorts]
      BY <1>13, ConstantsAssumption DEF CheckPort, NextPort, LastPort, LoopOK
    <3>3. QED
      BY <3>1, <3>2
  <2>4. QED
    BY <1>13, <2>1, <2>2, <2>3 DEF CheckPort, LoopOK
<1>14. CASE RootPortConfigure
  BY <1>14, Tree DEF RootPortConfigure, Progress
<1>15. CASE RootPortReturns
  <2>1. BusOK'
    BY <1>15 DEF RootPortReturns, BusOK
  <2>2. WhereOK'
    <3>1. at' = at \/ at' = [at EXCEPT ![Root] = "absent"]
      BY <1>15 DEF RootPortReturns
    <3>2. at' \in [Devices -> Progress]
      BY <3>1 DEF WhereOK, Progress
    <3>3. QED
      BY <1>15, <3>2 DEF RootPortReturns, WhereOK
  <2>3. QED
    BY <1>15, <2>1, <2>2 DEF RootPortReturns
<1>16. CASE LibraryInitialized
  <2>1. SystemOK'
    BY <1>16 DEF LibraryInitialized, GetFirstDevice, SystemOK
  <2>2. QED
    BY <1>16, <2>1 DEF LibraryInitialized
<1>17. CASE RegisterHandler
  BY <1>17 DEF RegisterHandler, SystemOK
<1>18. CASE UNCHANGED vars
  BY <1>18 DEF vars, bus, loop, object, system
<1>19. QED
  BY <1>1, <1>2, <1>3, <1>4, <1>5, <1>6, <1>7, <1>8, <1>9, <1>10, <1>11, <1>12, <1>13,
     <1>14, <1>15, <1>16, <1>17, <1>18 DEF Next, Enumerate, Boot

-----------------------------------------------------------------------------
(* The actions that move one device.                                         *)

\* Until a hub has power on its ports, all it does is to become ready for them.
LEMMA StartKeeps ==
  ASSUME IInv, TypeOK', NEW d \in Devices, NEW w,
         current = d, at[d] \in Starting, at' = [at EXCEPT ![d] = w],
         current' = d \/ (w \in Idle /\ current' = Caller(d)),
         w \in Starting \cup {"absent", "configured"},
         UNCHANGED <<link, busAddress, object, nextAddress, kind, speed>>,
         \A e \in Devices \ {d} : port'[e] = port[e] /\ result'[e] = result[e],
         w = "absent" \/ ((w \in Early <=> at[d] \in Early)
                           /\ (d = Root \/ (w \in Initializing <=> at[d] \in Initializing)))
  PROVE  IInv'
<1>1. \A e : Ahead(d, e)
  BY DEF Ahead
<1>2. at[d] \notin {"absent", "portStatus", "resetStatus"}
  BY DEF Starting, Initializing, Early
<1>3. QED
  BY <1>1, <1>2, MoveKeeps

LEMMA StartActions ==
  ASSUME IInv, TypeOK', NEW d \in Devices,
         \/ GetDeviceDescriptor(d) \/ GetConfiguration(d) \/ SetConfiguration(d)
         \/ ConfigureFunction(d) \/ GetHubDescriptor(d)
  PROVE  IInv'
<1> USE DEF Starting, Initializing, Early, Idle, bus, loop, system, Working, GoOn, GiveUp, Configured
<1>1. CASE GetDeviceDescriptor(d)
  <2>1. PICK w \in {"address", "absent"} :
          at' = [at EXCEPT ![d] = w] /\ (w = "address" => UNCHANGED current) /\ (w = "absent" => current' = Caller(d))
    BY <1>1 DEF GetDeviceDescriptor
  <2>2. QED
    BY <1>1, <2>1, StartKeeps DEF GetDeviceDescriptor
<1>2. CASE GetConfiguration(d)
  <2>1. PICK w \in {"initialized", "absent"} : at' = [at EXCEPT ![d] = w] /\ current' = Caller(d)
    BY <1>2 DEF GetConfiguration
  <2>2. QED
    BY <1>2, <2>1, StartKeeps DEF GetConfiguration
<1>3. CASE SetConfiguration(d)
  <2>1. PICK w \in {"hubDescriptor", "function", "absent"} :
          at' = [at EXCEPT ![d] = w] /\ (w # "absent" => UNCHANGED current) /\ (w = "absent" => current' = Caller(d))
    BY <1>3 DEF SetConfiguration
  <2>2. QED
    BY <1>3, <2>1, StartKeeps DEF SetConfiguration
<1>4. CASE ConfigureFunction(d)
  <2>1. PICK w \in {"configured", "absent"} : at' = [at EXCEPT ![d] = w] /\ current' = Caller(d)
    BY <1>4 DEF ConfigureFunction
  <2>2. QED
    BY <1>4, <2>1, StartKeeps DEF ConfigureFunction
<1>5. CASE GetHubDescriptor(d)
  <2>1. PICK w \in {"power", "absent"} :
          at' = [at EXCEPT ![d] = w] /\ (w # "absent" => UNCHANGED current) /\ (w = "absent" => current' = Caller(d))
    BY <1>5 DEF GetHubDescriptor
  <2>2. \A e \in Devices \ {d} : port'[e] = port[e] /\ result'[e] = result[e]
    BY <1>5, ZenonT(40) DEF GetHubDescriptor, IInv, TypeOK
  <2>3. QED
    BY <1>5, <2>1, <2>2, StartKeeps DEF GetHubDescriptor
<1>6. QED
  BY <1>1, <1>2, <1>3, <1>4, <1>5

\* Over-current takes the power from what is behind a port of the hub.
LEMMA PowerOffBehind ==
  ASSUME IInv, NEW h \in Devices, NEW devices, \A x \in devices : x \in Devices \ {Root} /\ Parent[x] = h,
         PowerOff(devices), NEW e \in Devices
  PROVE  /\ link'[e] = "enabled" => link[e] = "enabled"
         /\ link'[e] = link[e] \/ h \in Above[e]
<1>1. ASSUME NEW x \in devices, e \in SubTree(x) PROVE h \in Above[e]
  <2>1. x \in Devices \ {Root} /\ Parent[x] = h
    OBVIOUS
  <2>2. h \in Above[x]
    BY <2>1, AboveHub
  <2>3. e = x \/ x \in Above[e]
    BY <1>1 DEF SubTree
  <2>4. QED
    BY <2>2, <2>3, AboveClosed
<1>2. QED
  BY <1>1 DEF PowerOff, IInv, TypeOK

LEMMA PowerPortKeeps ==
  ASSUME IInv, TypeOK', NEW h \in Devices, PowerPort(h)
  PROVE  IInv'
<1>1. PICK V \in SUBSET Devices, A \in SUBSET Devices : History(V, A)
  BY DEF IInv, ObjectsOnce
<1>2. at[h] = "power" /\ current = h
  BY DEF PowerPort, Working
<1>3. \A e : Ahead(h, e)
  BY <1>2 DEF Ahead, Starting
<1>4. \A e \in Devices \ {Root} : Parent[e] = h => at[e] = "absent"
  BY <1>1, <1>3 DEF History
<1>5. PICK w \in {"power", "status", "absent"} :
        /\ at' = [at EXCEPT ![h] = w]
        /\ (w # "absent" => UNCHANGED current) /\ (w = "absent" => current' = Caller(h))
  BY DEF PowerPort, Continue, GoOn, GiveUp
<1>6. \A e \in Devices :
        /\ link'[e] = "enabled" => link[e] = "enabled"
        /\ at[e] # "absent" => link'[e] = link[e]
  <2>1. CASE UNCHANGED link
    BY <2>1
  <2>2. CASE link' = [d \in Devices |-> IF d \in At(h, port[h]) THEN "powered" ELSE link[d]]
    BY <1>4, <2>2 DEF At
  <2>3. QED
    BY <2>1, <2>2 DEF PowerPort
<1>7. \A e \in Devices \ {h} : port'[e] = port[e]
  BY DEF PowerPort, Continue, NextPort, IInv, TypeOK
<1>8. UNCHANGED <<busAddress, object, result, nextAddress, kind, speed>>
  BY DEF PowerPort, system
<1>9. QED
  BY <1>2, <1>3, <1>5, <1>6, <1>7, <1>8, MoveKeeps DEF Idle, Early, Initializing

\* The step to the next port of a loop.
LEMMA NextPortOf ==
  ASSUME IInv, NEW h \in Devices
  PROVE  /\ port[h] \in 1 .. NPorts
         /\ \A e \in Devices \ {Root} : PortOf[e] \in 1 .. NPorts
         /\ NextPort(h) => /\ \A e \in Devices \ {h} : port'[e] = port[e]
                          /\ port'[h] = IF port[h] = NPorts THEN 1 ELSE port[h] + 1
BY Tree DEF IInv, TypeOK, NextPort, LastPort

LEMMA GetPortStatusKeeps ==
  ASSUME IInv, TypeOK', NEW h \in Devices, GetPortStatus(h)
  PROVE  IInv'
<1>1. at[h] = "status" /\ current = h /\ UNCHANGED <<link, busAddress, object, result, nextAddress, kind, speed>>
  BY DEF GetPortStatus, Working, bus, system
<1>2. CASE GoOn(h, "reset") /\ UNCHANGED port
  <2>1. at' = [at EXCEPT ![h] = "reset"] /\ UNCHANGED current /\ at'[h] = "reset"
    BY <1>2 DEF GoOn, IInv, TypeOK
  <2>2. \A e \in Devices \ {Root} : (Ahead(h, e)' => Ahead(h, e)) /\ Ready(h, e)' /\ Ready(h, e)
    BY <1>1, <1>2, <2>1 DEF Ahead, Ready, Starting, Scanning, Initializing, Early
  <2>3. QED
    BY <1>1, <1>2, <2>1, <2>2, MoveKeeps DEF Early, Initializing
<1>3. CASE Continue(h, "status", "configure")
  <2>1. PICK w \in {"status", "configure"} :
          /\ at' = [at EXCEPT ![h] = w] /\ UNCHANGED current
          /\ w = "status" => port'[h] = port[h] + 1
          /\ w = "configure" => port'[h] = 1
    BY <1>3, NextPortOf DEF Continue, GoOn, LastPort
  <2>2. at'[h] = w /\ \A e \in Devices \ {h} : port'[e] = port[e]
    BY <1>3, <2>1, NextPortOf DEF Continue, IInv, TypeOK
  <2>3. \A e \in Devices \ {Root} : Ahead(h, e)' => Ahead(h, e)
    BY <1>1, <2>1, <2>2, NextPortOf DEF Ahead, Starting, Scanning, Initializing, Early
  <2>4. \A e \in Devices \ {Root} : Ready(h, e)' /\ Ready(h, e)
    BY <1>1, <2>1, <2>2, NextPortOf DEF Ready, Scanning
  <2>5. QED
    BY <1>1, <2>1, <2>2, <2>3, <2>4, MoveKeeps DEF Early, Initializing
<1>4. QED
  BY <1>2, <1>3 DEF GetPortStatus

LEMMA ResetPortKeeps ==
  ASSUME IInv, TypeOK', NEW h \in Devices, ResetPort(h)
  PROVE  IInv'
<1>1. at[h] = "reset" /\ current = h /\ UNCHANGED <<object, result, nextAddress, kind, speed>>
  BY DEF ResetPort, Working, system
<1>2. PICK w \in {"resetStatus", "status", "configure"} :
        /\ at' = [at EXCEPT ![h] = w] /\ UNCHANGED current
        /\ w = "resetStatus" => UNCHANGED port
        /\ w = "status" => port'[h] = port[h] + 1
        /\ w = "configure" => port'[h] = 1
  BY NextPortOf DEF ResetPort, Continue, GoOn, LastPort
<1>3. at'[h] = w /\ \A e \in Devices \ {h} : port'[e] = port[e]
  BY <1>2, NextPortOf DEF ResetPort, Continue, IInv, TypeOK
<1>4. \A e \in Devices \ {Root} :
        /\ Ahead(h, e)' => Ahead(h, e)
        /\ PortOf[e] = port[h] => Ahead(h, e) /\ (Ahead(h, e)' => w = "resetStatus" /\ PortOf[e] = port'[h])
        /\ Ready(h, e)' /\ Ready(h, e)
  BY <1>1, <1>2, <1>3, NextPortOf DEF Ahead, Ready, Starting, Scanning, Initializing, Early
<1>5. PICK V \in SUBSET Devices, A \in SUBSET Devices : History(V, A)
  BY DEF IInv, ObjectsOnce
<1>6. \A e \in Devices :
        \/ busAddress'[e] = busAddress[e] /\ link'[e] = link[e]
        \/ e # Root /\ Parent[e] = h /\ PortOf[e] = port[h] /\ busAddress'[e] = 0
  <2>1. CASE UNCHANGED bus
    BY <2>1 DEF bus
  <2>2. ASSUME NEW d \in At(h, port[h]), link' = [link EXCEPT ![d] = "enabled"],
               busAddress' = [busAddress EXCEPT ![d] = 0]
        PROVE  \A e \in Devices :
                 \/ busAddress'[e] = busAddress[e] /\ link'[e] = link[e]
                 \/ e # Root /\ Parent[e] = h /\ PortOf[e] = port[h] /\ busAddress'[e] = 0
    BY <2>2 DEF At, IInv, TypeOK
  <2>3. QED
    BY <2>1, <2>2 DEF ResetPort
<1>7. \A e \in Devices : at[e] # "absent" => link'[e] = link[e]
  BY <1>4, <1>5, <1>6 DEF History
<1>8. \A e \in Devices :
        \/ busAddress'[e] = busAddress[e] /\ (link'[e] = "enabled" => link[e] = "enabled")
        \/ /\ e # Root /\ Parent[e] = h /\ Ahead(h, e) /\ busAddress'[e] = 0
           /\ Ahead(h, e)' => w = "resetStatus" /\ PortOf[e] = port'[h]
  BY <1>4, <1>6
<1>9. \A e \in Devices \ {Root} : Parent[e] = h /\ Ahead(h, e)' =>
        Ahead(h, e) /\ ~(at[h] = "resetStatus" /\ PortOf[e] = port[h])
  BY <1>1, <1>4
<1>10. w \notin Early \cup Initializing /\ at[h] \notin Early \cup Initializing /\ w # "absent"
  BY <1>1, <1>2 DEF Early, Initializing
<1>11. \A e \in Devices \ {Root} : Ready(h, e)' <=> Ready(h, e)
  BY <1>4
<1>12. QED
  BY <1>1, <1>2, <1>3, <1>7, <1>8, <1>9, <1>10, <1>11, MoveKeeps, ZenonT(40)

\* The branches that create no object.
LEMMA ResetStatusKeeps ==
  ASSUME IInv, TypeOK', NEW h \in Devices, Working(h, "resetStatus"),
         UNCHANGED <<object, busAddress, result, nextAddress, system>>,
         \/ GiveUp(h) /\ UNCHANGED port /\ (PowerOff(At(h, port[h])) \/ UNCHANGED link)
         \/ Continue(h, "status", "configure") /\ UNCHANGED link
  PROVE  IInv'
<1>1. at[h] = "resetStatus" /\ current = h /\ UNCHANGED <<kind, speed>>
  BY DEF Working, system
<1>2. CASE GiveUp(h) /\ UNCHANGED port /\ (PowerOff(At(h, port[h])) \/ UNCHANGED link)
  <2>1. at' = [at EXCEPT ![h] = "absent"] /\ current' = Caller(h) /\ at'[h] = "absent"
    BY <1>2 DEF GiveUp, IInv, TypeOK
  <2>2. \A e \in Devices : link'[e] = link[e] \/ (h \in Above[e] /\ (link'[e] = "enabled" => link[e] = "enabled"))
    <3>1. \A x \in At(h, port[h]) : x \in Devices \ {Root} /\ Parent[x] = h
      BY DEF At
    <3>2. QED
      BY <1>2, <3>1, PowerOffBehind
  <2>3. \A e : ~Ahead(h, e)'
    BY <2>1 DEF Ahead, Starting, Scanning, Initializing, Early
  <2>4. QED
    BY <1>1, <1>2, <2>1, <2>2, <2>3, MoveKeeps DEF Idle
<1>3. CASE Continue(h, "status", "configure") /\ UNCHANGED link
  <2>1. PICK w \in {"status", "configure"} :
          /\ at' = [at EXCEPT ![h] = w] /\ UNCHANGED current
          /\ w = "status" => port'[h] = port[h] + 1
          /\ w = "configure" => port'[h] = 1
    BY <1>3, NextPortOf DEF Continue, GoOn, LastPort
  <2>2. at'[h] = w /\ \A e \in Devices \ {h} : port'[e] = port[e]
    BY <1>3, <2>1, NextPortOf DEF Continue, IInv, TypeOK
  <2>3. \A e \in Devices \ {Root} : Ahead(h, e)' => Ahead(h, e) /\ PortOf[e] # port[h]
    BY <1>1, <2>1, <2>2, NextPortOf DEF Ahead, Starting, Scanning, Initializing, Early
  <2>4. \A e \in Devices \ {Root} : Ready(h, e)' /\ Ready(h, e)
    BY <1>1, <2>1, <2>2, NextPortOf DEF Ready, Scanning
  <2>5. QED
    BY <1>1, <1>3, <2>1, <2>2, <2>3, <2>4, MoveKeeps DEF Early, Initializing
<1>4. QED
  BY <1>2, <1>3

\* The branch that finds nobody to configure at the port.
LEMMA ConfigureNobodyKeeps ==
  ASSUME IInv, TypeOK', NEW h \in Devices, Working(h, "configure"),
         \A d \in At(h, port[h]) : at[d] = "absent",
         Continue(h, "configure", "hubStatus"), UNCHANGED <<bus, object, result, nextAddress, system>>
  PROVE  IInv'
<1>1. at[h] = "configure" /\ current = h /\ UNCHANGED <<link, busAddress, kind, speed>>
  BY DEF Working, bus, system
<1>2. PICK w \in {"configure", "hubStatus"} :
        /\ at' = [at EXCEPT ![h] = w] /\ UNCHANGED current
        /\ w = "configure" => port[h] # NPorts /\ port'[h] = port[h] + 1
        /\ w = "hubStatus" => port[h] = NPorts
  BY NextPortOf DEF Continue, GoOn, LastPort
<1>3. at'[h] = w /\ \A e \in Devices \ {h} : port'[e] = port[e]
  BY <1>2, NextPortOf DEF Continue, IInv, TypeOK
<1>4. \A e : ~Ahead(h, e)'
  BY <1>2, <1>3 DEF Ahead, Starting, Scanning, Initializing, Early
<1>5. ASSUME NEW e \in Devices \ {Root}, Parent[e] = h, at[e] # "absent"
      PROVE  Ready(h, e)' <=> Ready(h, e)
  <2>1. PortOf[e] # port[h]
    BY <1>5 DEF At, IInv, Present
  <2>2. QED
    BY <1>1, <1>2, <1>3, <2>1, NextPortOf DEF Ready, Scanning
<1>6. w \notin Early \cup Initializing /\ at[h] \notin Early \cup Initializing /\ w # "absent"
  BY <1>1, <1>2 DEF Early, Initializing
<1>7. QED
  BY <1>1, <1>2, <1>3, <1>4, <1>5, <1>6, MoveKeeps

LEMMA GetHubStatusKeeps ==
  ASSUME IInv, TypeOK', NEW h \in Devices, GetHubStatus(h)
  PROVE  IInv'
<1>1. at[h] = "hubStatus" /\ current = h /\ UNCHANGED <<busAddress, object, port, result, nextAddress, kind, speed>>
  BY DEF GetHubStatus, Working, loop, system
<1>2. PICK w \in {"portStatus", "absent"} :
        /\ at' = [at EXCEPT ![h] = w]
        /\ w = "portStatus" => UNCHANGED <<link, current>>
        /\ w = "absent" => /\ current' = Caller(h)
                           /\ \E ports \in SUBSET (1 .. NPorts) :
                                PowerOff(UNION {At(h, p) : p \in ports})
  BY DEF GetHubStatus, GoOn, GiveUp
<1>3. at'[h] = w
  BY <1>2 DEF IInv, TypeOK
<1>4. \A e : ~Ahead(h, e)'
  BY <1>2, <1>3 DEF Ahead, Starting, Scanning, Initializing, Early
<1>5. \A e : w # "absent" => ~Ready(h, e)' /\ ~Ready(h, e)
  BY <1>1, <1>2, <1>3 DEF Ready, Scanning
<1>6. \A e \in Devices :
        \/ link'[e] = link[e]
        \/ w = "absent" /\ h \in Above[e] /\ (link'[e] = "enabled" => link[e] = "enabled")
  <2>1. CASE w = "portStatus"
    BY <1>2, <2>1
  <2>2. CASE w = "absent"
    <3>1. PICK ports \in SUBSET (1 .. NPorts) : PowerOff(UNION {At(h, p) : p \in ports})
      BY <1>2, <2>2
    <3>2. \A x \in UNION {At(h, p) : p \in ports} : x \in Devices \ {Root} /\ Parent[x] = h
      BY DEF At
    <3>3. QED
      BY <2>2, <3>1, <3>2, PowerOffBehind
  <2>3. QED
    BY <2>1, <2>2
<1>7. w \notin Early \cup Initializing /\ at[h] \notin Early \cup Initializing
  BY <1>1, <1>2 DEF Early, Initializing
<1>8. QED
  BY <1>1, <1>2, <1>3, <1>4, <1>5, <1>6, <1>7, MoveKeeps DEF Idle

LEMMA CheckPortKeeps ==
  ASSUME IInv, TypeOK', NEW h \in Devices, CheckPort(h)
  PROVE  IInv'
<1>1. at[h] = "portStatus" /\ current = h /\ UNCHANGED <<busAddress, object, nextAddress, kind, speed>>
  BY DEF CheckPort, Working, system
<1>2. /\ \A e \in Devices \ {h} : port'[e] = port[e] /\ result'[e] = result[e]
      /\ UNCHANGED <<link, result>> \/ ~result'[h]
  BY NextPortOf DEF CheckPort, IInv, TypeOK
<1>3. PICK w \in {"portStatus", "configured", "absent"} :
        /\ at' = [at EXCEPT ![h] = w]
        /\ w = "portStatus" => UNCHANGED current
        /\ w # "portStatus" => current' = Caller(h)
        /\ w = "configured" => UNCHANGED <<link, result>> /\ result[h]
  BY DEF CheckPort, EndOfPorts, GoOn, GiveUp, Configured
<1>4. at'[h] = w
  BY <1>3 DEF IInv, TypeOK
<1>5. \A e : ~Ahead(h, e)' /\ (w # "absent" => ~Ready(h, e)' /\ ~Ready(h, e))
  BY <1>1, <1>3, <1>4 DEF Ahead, Ready, Starting, Scanning, Initializing, Early
<1>6. \A e \in Devices :
        \/ link'[e] = link[e]
        \/ ~result'[h] /\ h \in Above[e] /\ (link'[e] = "enabled" => link[e] = "enabled")
  <2>1. CASE UNCHANGED link
    BY <2>1
  <2>2. CASE PowerOff(At(h, port[h])) /\ ~result'[h]
    <3>1. \A x \in At(h, port[h]) : x \in Devices \ {Root} /\ Parent[x] = h
      BY DEF At
    <3>2. QED
      BY <2>2, <3>1, PowerOffBehind
  <2>3. QED
    BY <1>2, <2>1, <2>2 DEF CheckPort
<1>7. ~result[h] => ~result'[h]
  BY <1>2
<1>8. w \notin Early \cup Initializing /\ at[h] \notin Early \cup Initializing
  BY <1>1, <1>3 DEF Early, Initializing
<1>9. w = "configured" => link' = link /\ result[h]
  BY <1>3
<1>10. \A e \in Devices : at[e] # "absent" =>
         \/ link'[e] = link[e]
         \/ (h \in Above[e] \cup {e} /\ w = "absent")
         \/ h \in Above[e] /\ w = "portStatus" /\ ~result'[h]
  BY <1>3, <1>6, <1>9
<1>11. w # "absent" /\ ~result[h] => w = "portStatus" /\ ~result'[h]
  BY <1>3, <1>7, <1>9
<1>12. QED
  BY <1>1, <1>2, <1>3, <1>4, <1>5, <1>6, <1>8, <1>10, <1>11, MoveKeeps, ZenonT(40) DEF Idle

LEMMA RootPortConfigureKeeps ==
  ASSUME IInv, TypeOK', RootPortConfigure
  PROVE  IInv'
<1>1. /\ at[Root] = "initialized" /\ current = Root /\ UNCHANGED current
      /\ at' = [at EXCEPT ![Root] = "setConfiguration"]
      /\ UNCHANGED <<link, busAddress, object, port, result, nextAddress, kind, speed>>
  BY DEF RootPortConfigure, Working, GoOn, bus, loop, system
<1>2. QED
  BY <1>1, StartKeeps, Tree DEF Starting, Initializing, Early

-----------------------------------------------------------------------------
(* The actions of a hub and a device behind it.                              *)

LEMMA OnlyCurrentIsBusy ==
  ASSUME IInv, NEW d \in Devices, current # None,
         Busy(d)
  PROVE  d = current \/ at[d] \in Waiting
BY DEF IInv, Chain

\* The branch that configures the device at the port.
LEMMA ConfigureDeviceKeeps ==
  ASSUME IInv, TypeOK', NEW h \in Devices, Working(h, "configure"),
         NEW d \in At(h, port[h]), at[d] # "absent",
         at' = [at EXCEPT ![d] = "setConfiguration",
                          ![h] = IF LastPort(h) THEN "hubStatus" ELSE "configure"],
         NextPort(h), current' = d, UNCHANGED <<bus, object, result, nextAddress, system>>
  PROVE  IInv'
<1>1. /\ at[h] = "configure" /\ current = h
      /\ d \in Devices \ {Root} /\ Parent[d] = h /\ PortOf[d] = port[h] /\ d # h
      /\ UNCHANGED <<link, busAddress, object, result, nextAddress, kind, speed>>
  BY Tree DEF Working, At, bus, system
<1>2. PICK w \in {"configure", "hubStatus"} :
        /\ at' = [at EXCEPT ![d] = "setConfiguration", ![h] = w]
        /\ w = "configure" => port[h] # NPorts
        /\ w = "hubStatus" => port[h] = NPorts
  BY DEF LastPort
<1>3. /\ at'[d] = "setConfiguration" /\ at'[h] = w /\ \A e \in Devices \ {d, h} : at'[e] = at[e]
      /\ \A e \in Devices \ {h} : port'[e] = port[e]
      /\ w = "configure" => port'[h] = port[h] + 1
  BY <1>1, <1>2, NextPortOf DEF IInv, TypeOK
<1>4. at[d] = "initialized"
  <2>1. at[d] \in Initializing
    <3>1. port[h] <= PortOf[d]
      BY <1>1, NextPortOf
    <3>2. QED
      BY <1>1, <3>1 DEF IInv, InOrder
  <2>2. ~Busy(d)
    <3>1. d \notin Above[h]
      BY <1>1, Tree, AboveLess
    <3>2. QED
      BY <1>1, <3>1 DEF IInv, Chain
  <2>3. QED
    BY <2>1, <2>2 DEF Busy, Initializing, Early
<1>5. Chain'
  BY <1>1, <1>2, ChainDescends DEF IInv, Waiting
<1>6. \A e \in Devices :
        /\ at'[e] # "absent" <=> at[e] # "absent"
        /\ at'[e] \in Early <=> at[e] \in Early
  BY <1>1, <1>2, <1>3, <1>4 DEF Early
<1>7. WellConnected' /\ Addressed' /\ AddressesDiffer' /\ TranslatorIsNearest'
  <2>1. \A e \in Devices : busAddress'[e] \in {0, busAddress[e]}
    BY <1>1
  <2>2. \A e \in Devices : Live(e)' => Live(e)
    BY <1>1, <1>6 DEF Live
  <2>3. QED
    BY <1>1, <1>6, <2>1, <2>2, KeepsAddresses
<1>8. Present'
  BY <1>1, <1>6 DEF IInv, Present
<1>9. ObjectsOnce'
  <2>1. PICK V \in SUBSET Devices, A \in SUBSET Devices : History(V, A)
    BY DEF IInv, ObjectsOnce
  <2>2. \A x \in Devices : \A e : Ahead(x, e)' <=> Ahead(x, e)
    <3>1. \A e : Ahead(h, e)' <=> Ahead(h, e)
      BY <1>1, <1>2, <1>3 DEF Ahead, Starting, Scanning, Initializing, Early
    <3>2. \A e : Ahead(d, e)' <=> Ahead(d, e)
      BY <1>3, <1>4 DEF Ahead, Starting, Initializing
    <3>3. \A x \in Devices \ {d, h} : \A e : Ahead(x, e)' <=> Ahead(x, e)
      BY <1>3 DEF Ahead
    <3>4. QED
      BY <3>1, <3>2, <3>3
  <2>3. \A x \in Devices : at[x] = "resetStatus" => at'[x] = "resetStatus" /\ port'[x] = port[x]
    BY <1>1, <1>3, <1>4
  <2>4. \A e \in Devices \ {Root} : Parent[e] \in Devices
    BY Tree
  <2>5. \A e \in Devices : (at'[e] # "absent" => e \in V) /\ (at'[e] \in Early => e \notin A)
    BY <1>6, <2>1 DEF History
  <2>6. \A e \in V \ {Root} :
          Parent[e] \in V /\ busAddress'[Parent[e]] # 0 /\ ~Ahead(Parent[e], e)'
    BY <1>1, <2>1, <2>2, <2>4 DEF History
  <2>7. \A e \in Devices \ {Root} :
          (Parent[e] \notin V \/ Ahead(Parent[e], e)') /\ link'[e] = "enabled" =>
            at'[Parent[e]] = "resetStatus" /\ PortOf[e] = port'[Parent[e]] /\ busAddress'[e] = 0
    BY <1>1, <2>1, <2>2, <2>3, <2>4, ZenonT(40) DEF History
  <2>8. History(V, A)'
    BY <1>1, <2>1, <2>5, <2>6, <2>7 DEF History
  <2>9. QED
    BY <2>1, <2>8 DEF ObjectsOnce
<1>10. Linked'
  <2> SUFFICES ASSUME NEW e \in Devices, at'[e] # "absent", \A x \in Above[e] : at'[x] # "absent"
               PROVE  \/ link'[e] = "enabled"
                      \/ \E x \in Above[e] : at'[x] = "portStatus" /\ ~result'[x]
    BY DEF Linked
  <2>1. \A x \in Above[e] : x \in Devices
    BY AboveLess
  <2>2. link[e] = "enabled" \/ \E x \in Above[e] : at[x] = "portStatus" /\ ~result[x]
    BY <1>6, <2>1 DEF IInv, Linked
  <2>3. \A x \in Above[e] : at[x] = "portStatus" => at'[x] = "portStatus"
    BY <1>1, <1>3, <1>4, <2>1
  <2>4. QED
    BY <1>1, <2>2, <2>3
<1>11. InOrder'
  <2> SUFFICES ASSUME NEW e \in Devices \ {Root}, at'[e] # "absent", at'[Parent[e]] # "absent"
               PROVE  at'[e] \in Initializing <=> Ready(Parent[e], e)'
    BY DEF InOrder, Ready
  <2>1. /\ Parent[e] \in Devices /\ at[e] # "absent" /\ at[Parent[e]] # "absent"
        /\ at[e] \in Initializing <=> Ready(Parent[e], e)
    BY <1>6, Tree DEF IInv, InOrder, Ready
  <2>2. CASE e = d
    <3>1. at'[e] \notin Initializing
      BY <1>3, <2>2 DEF Initializing, Early
    <3>2. ~Ready(h, d)'
      BY <1>1, <1>2, <1>3, NextPortOf DEF Ready, Scanning
    <3>3. QED
      BY <1>1, <2>2, <3>1, <3>2
  <2>3. CASE e # d
    <3>1. at'[e] \in Initializing <=> at[e] \in Initializing
      BY <1>1, <1>2, <1>3, <2>3 DEF Initializing, Early
    <3>2. Ready(Parent[e], e)' <=> Ready(Parent[e], e)
      <4>1. CASE Parent[e] = h
        <5>1. PortOf[e] # port[h]
          BY <1>1, <2>3, <4>1, Tree
        <5>2. QED
          BY <1>1, <1>2, <1>3, <4>1, <5>1, NextPortOf DEF Ready, Scanning
      <4>2. CASE Parent[e] = d
        BY <1>3, <1>4, <4>2 DEF Ready, Scanning
      <4>3. CASE Parent[e] \notin {d, h}
        BY <1>3, <2>1, <4>3 DEF Ready
      <4>4. QED
        BY <4>1, <4>2, <4>3
    <3>3. QED
      BY <2>1, <3>1, <3>2
  <2>4. QED
    BY <2>2, <2>3
<1>12. QED
  BY <1>1, <1>5, <1>7, <1>8, <1>9, <1>10, <1>11 DEF IInv

LEMMA NothingMoves ==
  ASSUME IInv, TypeOK', Chain',
         UNCHANGED <<at, link, busAddress, object, port, result, nextAddress, kind, speed>>
  PROVE  IInv'
<1>1. WellConnected' /\ Addressed' /\ AddressesDiffer' /\ TranslatorIsNearest'
  BY KeepsAddresses DEF Live
<1>2. Present' /\ Linked' /\ InOrder'
  BY DEF IInv, Present, Linked, InOrder
<1>3. PICK V \in SUBSET Devices, A \in SUBSET Devices : History(V, A)
  BY DEF IInv, ObjectsOnce
<1>4. History(V, A)'
  BY <1>3 DEF History, Ahead
<1>5. QED
  BY <1>1, <1>2, <1>4 DEF IInv, ObjectsOnce

LEMMA RootPortReturnsKeeps ==
  ASSUME IInv, TypeOK', RootPortReturns
  PROVE  IInv'
<1>1. /\ current = Root /\ current' = None /\ at[Root] \in {"absent", "configured"}
      /\ UNCHANGED <<busAddress, object, port, result, nextAddress, kind, speed>>
  BY DEF RootPortReturns, loop, system
<1>2. \A d \in Devices : ~Busy(d)
  BY <1>1, AboveHub, Tree DEF IInv, Chain, Busy
<1>3. CASE UNCHANGED <<at, link>>
  <2>1. Chain'
    BY <1>1, <1>2, <1>3 DEF Chain, Busy
  <2>2. QED
    BY <1>1, <1>3, <2>1, NothingMoves
<1>4. CASE at' = [at EXCEPT ![Root] = "absent"] /\ link' = [d \in Devices |-> "off"]
  <2>1. at'[Root] = "absent" /\ \A e \in Devices \ {Root} : at'[e] = at[e]
    BY <1>4, Tree DEF IInv, TypeOK
  <2>2. \A e \in Devices : link'[e] # "enabled" /\ ~Live(e)'
    BY <1>4 DEF Live
  <2>3. Chain'
    BY <1>1, <1>2, <2>1 DEF Chain, Busy
  <2>4. Present' /\ WellConnected'
    BY <1>1, <2>1 DEF IInv, Present, WellConnected
  <2>5. Addressed' /\ AddressesDiffer' /\ TranslatorIsNearest'
    BY <1>1, <2>2 DEF IInv, Addressed, AddressesDiffer, TranslatorIsNearest
  <2>6. ObjectsOnce'
    <3>1. PICK V \in SUBSET Devices, A \in SUBSET Devices : History(V, A)
      BY DEF IInv, ObjectsOnce
    <3>2. \A x \in Devices : \A e : Ahead(x, e)' => Ahead(x, e)
      BY <1>1, <2>1 DEF Ahead, Starting, Scanning, Initializing, Early
    <3>3. History(V, A)'
      BY <1>1, <2>1, <2>2, <3>1, <3>2, Tree DEF History, Early
    <3>4. QED
      BY <3>1, <3>3 DEF ObjectsOnce
  <2>7. Linked'
    BY <2>1, RootAbove DEF Linked
  <2>8. InOrder'
    BY <1>1, <2>1, Tree DEF IInv, InOrder
  <2>9. QED
    BY <1>1, <2>3, <2>4, <2>5, <2>6, <2>7, <2>8 DEF IInv
<1>5. QED
  BY <1>3, <1>4 DEF RootPortReturns

-----------------------------------------------------------------------------
(* A new address.                                                            *)

LEMMA NextAddressIsNew ==
  ASSUME IInv, NEW V \in SUBSET Devices, NEW A \in SUBSET Devices, History(V, A),
         NEW d \in Devices, at[d] = "address", SetAddress(d)
  PROVE  /\ nextAddress \in Nat \ {0} /\ nextAddress' = nextAddress + 1
         /\ nextAddress' = Cardinality(A \cup {d}) + 1
<1>1. IsFiniteSet(Devices) /\ Cardinality(Devices) = NDevices
  BY ConstantsAssumption, FS_Interval DEF Devices
<1>2. IsFiniteSet(A) /\ Cardinality(A) \in Nat
  BY <1>1, FS_Subset, FS_CardinalityType
<1>3. d \notin A /\ nextAddress = Cardinality(A) + 1
  BY DEF History, Early
<1>4. IsFiniteSet(A \cup {d}) /\ Cardinality(A \cup {d}) = Cardinality(A) + 1
  BY <1>2, <1>3, FS_AddElement
<1>5. Cardinality(A \cup {d}) <= NDevices
  <2>1. A \cup {d} \subseteq Devices
    OBVIOUS
  <2>2. QED
    BY <1>1, <2>1, FS_Subset
<1>6. nextAddress + 1 < AddressSize /\ AddressSize \in Nat \ {0}
  BY <1>2, <1>3, <1>4, <1>5, ConstantsAssumption DEF AddressSize
<1>7. nextAddress' = (nextAddress + 1) % AddressSize
  BY DEF SetAddress
<1>8. nextAddress' = nextAddress + 1
  BY <1>2, <1>3, <1>6, <1>7
<1>9. QED
  BY <1>2, <1>3, <1>4, <1>8

LEMMA SetAddressKeeps ==
  ASSUME IInv, TypeOK', NEW d \in Devices, SetAddress(d)
  PROVE  IInv'
<1>1. /\ at[d] = "address" /\ current = d
      /\ UNCHANGED <<link, split, hubAddress, hubPort, port, result, kind, speed>>
  BY DEF SetAddress, Working, loop, system
<1>2. PICK V \in SUBSET Devices, A \in SUBSET Devices : History(V, A)
  BY DEF IInv, ObjectsOnce
<1>3. /\ nextAddress \in Nat \ {0} /\ nextAddress' = nextAddress + 1
      /\ nextAddress' = Cardinality(A \cup {d}) + 1
  BY <1>1, <1>2, NextAddressIsNew
<1>4. PICK w \in {"configuration", "absent"} :
        /\ at' = [at EXCEPT ![d] = w]
        /\ w = "configuration" =>
             /\ UNCHANGED current /\ busAddress'[d] = nextAddress
             /\ address' = [address EXCEPT ![d] = nextAddress]
        /\ w = "absent" => current' = Caller(d) /\ UNCHANGED address
  BY DEF SetAddress, TakeAddress, GoOn, GiveUp
<1>5. \A e \in Devices :
        \/ busAddress'[e] = busAddress[e]
        \/ busAddress'[e] = nextAddress /\ (e = d \/ e \in Strangers(d))
  BY DEF SetAddress, TakeAddress
<1>6. /\ at'[d] = w /\ \A e \in Devices \ {d} : at'[e] = at[e]
      /\ \A e \in Devices \ {d} : address'[e] = address[e]
      /\ w = "configuration" => address'[d] = nextAddress
  BY <1>4 DEF IInv, TypeOK
<1>7. \A e \in Devices : busAddress[e] \in Nat /\ busAddress[e] < nextAddress
  BY DEF IInv, TypeOK, Addressed
<1>8. \A e \in Devices \ {d} : at[e] \notin Early \cup {"resetStatus"}
  BY <1>1, OnlyCurrentIsBusy, Tree DEF Early, Busy, Waiting
\* Whoever hears the message has no object, and is not a hub that was used.
<1>9. \A e \in Devices \ {d} : Live(e) => busAddress'[e] = busAddress[e]
  BY <1>5, <1>7, <1>8 DEF IInv, Addressed, Strangers
<1>10. \A e \in Devices : busAddress'[e] # busAddress[e] => busAddress[e] = 0 \/ e = d
  BY <1>5 DEF Strangers
<1>11. \A e : Ahead(d, e)
  BY <1>1 DEF Ahead, Starting, Initializing, Early
<1>12. Chain'
  <2>1. CASE w = "configuration"
    BY <1>1, <1>4, <2>1, ChainStays DEF IInv
  <2>2. CASE w = "absent"
    BY <1>1, <1>4, <2>2, ChainReturns DEF IInv, Idle
  <2>3. QED
    BY <2>1, <2>2
<1>13. Linked' /\ Present'
  BY <1>1, <1>4, MoveLinked
<1>14. InOrder'
  BY <1>1, <1>4, <1>11, MoveInOrder DEF Initializing, Early
<1>15. WellConnected'
  BY <1>1 DEF IInv, WellConnected
<1>16. Addressed'
  <2> SUFFICES ASSUME NEW e \in Devices
               PROVE  /\ busAddress'[e] < nextAddress'
                      /\ Live(e)' => IF at'[e] \in Early THEN busAddress'[e] = 0
                                     ELSE busAddress'[e] = address'[e] /\ address'[e] # 0
    BY DEF Addressed
  <2>1. busAddress'[e] < nextAddress'
    BY <1>3, <1>5, <1>7
  <2>2. CASE e = d
    BY <1>3, <1>4, <1>6, <2>1, <2>2 DEF Live, Early
  <2>3. CASE e # d
    <3>1. Live(e)' => Live(e)
      BY <1>1, <1>6, <2>3 DEF Live
    <3>2. QED
      BY <1>6, <1>9, <2>1, <2>3, <3>1 DEF IInv, Addressed
  <2>4. QED
    BY <2>2, <2>3
<1>17. AddressesDiffer'
  <2>1. \A e \in Devices \ {d} : Live(e)' => Live(e) /\ busAddress'[e] = busAddress[e]
    BY <1>1, <1>6, <1>9 DEF Live
  <2>2. Live(d)' => busAddress'[d] = nextAddress
    BY <1>4, <1>6 DEF Live
  <2>3. QED
    BY <1>7, <2>1, <2>2 DEF IInv, AddressesDiffer
<1>18. TranslatorIsNearest'
  <2> SUFFICES ASSUME NEW e \in Devices, Live(e)'
               PROVE  LET fast == {h \in Above[e] : speed[h] = "high"} IN
                      IF speed[e] = "high" \/ fast = {} THEN ~split[e]
                      ELSE \E h \in fast, k \in Above[e] \cup {e} :
                             /\ \A g \in fast : g = h \/ g \in Above[h]
                             /\ k # Root /\ Parent[k] = h
                             /\ split[e] /\ hubAddress[e] = busAddress'[h] /\ hubPort[e] = PortOf[k]
    BY <1>1 DEF TranslatorIsNearest, Live
  <2> DEFINE fast == {h \in Above[e] : speed[h] = "high"}
  <2>1. Live(e) /\ e \in V
    BY <1>1, <1>2, <1>6 DEF Live, History
  <2>2. \A h \in Above[e] : busAddress'[h] = busAddress[h]
    <3> SUFFICES ASSUME NEW h \in Above[e] PROVE busAddress'[h] = busAddress[h]
      OBVIOUS
    <3>1. PICK x \in Above[e] \cup {e} : x # Root /\ Parent[x] = h
      BY AboveHasChild
    <3>2. x \in V
      BY <1>2, <2>1, <3>1, AboveIn DEF History
    <3>3. h \in Devices /\ busAddress[h] # 0 /\ h # d
      BY <1>2, <1>11, <3>1, <3>2, AboveLess DEF History
    <3>4. QED
      BY <1>10, <3>3
  <2>3. IF speed[e] = "high" \/ fast = {} THEN ~split[e]
        ELSE \E h \in fast, k \in Above[e] \cup {e} :
               /\ \A g \in fast : g = h \/ g \in Above[h]
               /\ k # Root /\ Parent[k] = h
               /\ split[e] /\ hubAddress[e] = busAddress[h] /\ hubPort[e] = PortOf[k]
    BY <2>1 DEF IInv, TranslatorIsNearest, Live
  <2>4. \A h \in fast : busAddress'[h] = busAddress[h]
    BY <2>2
  <2> HIDE DEF fast
  <2>5. IF speed[e] = "high" \/ fast = {} THEN ~split[e]
        ELSE \E h \in fast, k \in Above[e] \cup {e} :
               /\ \A g \in fast : g = h \/ g \in Above[h]
               /\ k # Root /\ Parent[k] = h
               /\ split[e] /\ hubAddress[e] = busAddress'[h] /\ hubPort[e] = PortOf[k]
    BY <2>3, <2>4
  <2>6. QED
    BY <2>5 DEF fast
<1>19. ObjectsOnce'
  <2>1. \A x \in Devices : \A e : Ahead(x, e)' => Ahead(x, e)
    BY <1>1, <1>6, <1>11 DEF Ahead
  <2>2. \A e \in Devices :
          (at'[e] # "absent" => e \in V) /\ (at'[e] \in Early => e \notin A \cup {d})
    BY <1>1, <1>2, <1>6 DEF History, Early
  <2>3. \A e \in V \ {Root} :
          Parent[e] \in V /\ busAddress'[Parent[e]] # 0 /\ ~Ahead(Parent[e], e)'
    BY <1>2, <1>3, <1>5, <2>1, Tree DEF History
  \* No port is being reset while an address is set, so no power is on ahead.
  <2>4. \A e \in Devices \ {Root} :
          ~((Parent[e] \notin V \/ Ahead(Parent[e], e)') /\ link'[e] = "enabled")
    BY <1>1, <1>2, <1>8, <2>1, Tree, ZenonT(40) DEF History
  <2>5. A \cup {d} \subseteq V
    BY <1>1, <1>2 DEF History
  <2>6. History(V, A \cup {d})'
    BY <1>3, <2>2, <2>3, <2>4, <2>5 DEF History
  <2>7. QED
    BY <2>6 DEF ObjectsOnce
<1>20. QED
  BY <1>1, <1>12, <1>13, <1>14, <1>15, <1>16, <1>17, <1>18, <1>19 DEF IInv

-----------------------------------------------------------------------------
(* A new object.                                                             *)

\* The branch of GetResetStatus that creates the object of the device at the port.
CreateObject(h, d) ==
  /\ Working(h, "resetStatus") /\ d \in At(h, port[h]) /\ link[d] = "enabled"
  /\ NewDevice(h, d)
  /\ at' = [at EXCEPT ![d] = "descriptor", ![h] = IF LastPort(h) THEN "configure" ELSE "status"]
  /\ NextPort(h)
  /\ current' = d /\ UNCHANGED <<bus, result, nextAddress, system>>

LEMMA CreateObjectMoves ==
  ASSUME IInv, NEW h \in Devices, NEW d \in Devices, CreateObject(h, d)
  PROVE  /\ at[h] = "resetStatus" /\ current = h
         /\ d \in Devices \ {Root} /\ Parent[d] = h /\ PortOf[d] = port[h] /\ d # h
         /\ kind[d] # "empty" /\ link[d] = "enabled"
         /\ UNCHANGED <<link, busAddress, result, nextAddress, kind, speed>>
         /\ at'[d] = "descriptor" /\ \A e \in Devices \ {d, h} : at'[e] = at[e]
         /\ \A e \in Devices \ {h} : port'[e] = port[e]
         /\ \/ at'[h] = "configure" /\ port'[h] = 1
            \/ at'[h] = "status" /\ port'[h] = port[h] + 1
<1>1. /\ at[h] = "resetStatus" /\ current = h
      /\ d \in Devices \ {Root} /\ Parent[d] = h /\ PortOf[d] = port[h] /\ d # h
      /\ kind[d] # "empty" /\ link[d] = "enabled"
      /\ UNCHANGED <<link, busAddress, result, nextAddress, kind, speed>>
  BY Tree DEF CreateObject, Working, At, bus, system
<1>2. /\ at'[d] = "descriptor" /\ \A e \in Devices \ {d, h} : at'[e] = at[e]
      /\ at'[h] = IF port[h] = NPorts THEN "configure" ELSE "status"
  BY <1>1 DEF CreateObject, LastPort, IInv, TypeOK
<1>3. /\ \A e \in Devices \ {h} : port'[e] = port[e]
      /\ port'[h] = IF port[h] = NPorts THEN 1 ELSE port[h] + 1
  BY NextPortOf DEF CreateObject
<1>4. QED
  BY <1>1, <1>2, <1>3

LEMMA NewDeviceIs ==
  ASSUME IInv, NEW h \in Devices, NEW d \in Devices, NewDevice(h, d)
  PROVE  LET first == ~split[h] /\ speed[h] = "high" /\ speed[d] # "high" IN
         /\ split'[d] = (split[h] \/ first)
         /\ hubAddress'[d] = IF first THEN address[h] ELSE hubAddress[h]
         /\ hubPort'[d] = IF first THEN port[h] ELSE hubPort[h]
         /\ \A e \in Devices \ {d} :
              /\ split'[e] = split[e] /\ hubAddress'[e] = hubAddress[e]
              /\ hubPort'[e] = hubPort[e] /\ address'[e] = address[e]
<1>1. split'[d] = (split[h] \/ NeedsTranslator(h, d))
  BY DEF NewDevice, IInv, TypeOK
<1>2. /\ hubAddress'[d] = IF NeedsTranslator(h, d) THEN address[h] ELSE hubAddress[h]
      /\ hubPort'[d] = IF NeedsTranslator(h, d) THEN port[h] ELSE hubPort[h]
  BY DEF NewDevice, IInv, TypeOK
<1>3. \A e \in Devices \ {d} :
        /\ split'[e] = split[e] /\ hubAddress'[e] = hubAddress[e]
        /\ hubPort'[e] = hubPort[e] /\ address'[e] = address[e]
  BY DEF NewDevice, IInv, TypeOK
<1>4. QED
  BY <1>1, <1>2, <1>3 DEF NeedsTranslator

\* The hub itself answers, to the address that its object has.
LEMMA HubAnswers ==
  ASSUME IInv, NEW h \in Devices, current = h, at[h] = "resetStatus"
  PROVE  Live(h) /\ busAddress[h] = address[h] /\ address[h] # 0
<1>1. \A x \in Above[h] : at[x] \in Waiting
  BY Tree DEF IInv, Chain
<1>2. link[h] = "enabled"
  BY <1>1 DEF IInv, Linked, Waiting
<1>3. QED
  BY <1>2 DEF IInv, Addressed, Live, Early

LEMMA CreateObjectKeeps ==
  ASSUME IInv, TypeOK', NEW h \in Devices, NEW d \in Devices, CreateObject(h, d)
  PROVE  IInv'
<1>1. /\ at[h] = "resetStatus" /\ current = h
      /\ d \in Devices \ {Root} /\ Parent[d] = h /\ PortOf[d] = port[h] /\ d # h
      /\ kind[d] # "empty" /\ link[d] = "enabled"
      /\ UNCHANGED <<link, busAddress, result, nextAddress, kind, speed>>
      /\ at'[d] = "descriptor" /\ \A e \in Devices \ {d, h} : at'[e] = at[e]
      /\ \A e \in Devices \ {h} : port'[e] = port[e]
  BY CreateObjectMoves
<1>2. \/ at'[h] = "configure" /\ port'[h] = 1
      \/ at'[h] = "status" /\ port'[h] = port[h] + 1
  BY CreateObjectMoves
<1>3. Live(h) /\ busAddress[h] = address[h] /\ address[h] # 0
  BY <1>1, HubAnswers
<1>4. PICK V \in SUBSET Devices, A \in SUBSET Devices : History(V, A)
  BY DEF IInv, ObjectsOnce
<1>5. /\ d \notin V /\ at[d] = "absent" /\ h \in V
      /\ busAddress[d] = 0
  <2>1. Ahead(h, d)
    BY <1>1, NextPortOf DEF Ahead, Scanning
  <2>2. QED
    BY <1>1, <1>4, <2>1 DEF History
<1>6. \A e \in V : d \notin Above[e] /\ (e # Root => Parent[e] # d)
  BY <1>4, <1>5, AboveIn DEF History
<1>7. \A e \in Devices \ {h, d} : at[e] \notin Early \cup {"resetStatus"}
  BY <1>1, OnlyCurrentIsBusy, Tree DEF Early, Busy, Waiting
<1>8. at'[h] \notin Initializing \cup {"absent"} /\ at[h] \notin Initializing \cup {"absent"}
  BY <1>1, <1>2 DEF Initializing, Early
<1>9. \A e \in Devices \ {d} :
        /\ at'[e] # "absent" <=> at[e] # "absent"
        /\ at'[e] \in Initializing <=> at[e] \in Initializing
        /\ at'[e] \in Early <=> at[e] \in Early
  BY <1>1, <1>8 DEF Initializing
<1>10. Chain'
  <2>1. PICK w \in Waiting : at' = [at EXCEPT ![d] = "descriptor", ![Parent[d]] = w]
    BY <1>1 DEF CreateObject, Waiting
  <2>2. TypeOK /\ Chain /\ current = Parent[d] /\ current' = d /\ d \in Devices \ {Root}
    BY <1>1 DEF IInv, CreateObject
  <2>3. QED
    BY <2>1, <2>2, ChainDescends
<1>11. WellConnected' /\ Present'
  BY <1>1, <1>9 DEF IInv, WellConnected, Present
<1>12. \A e \in Devices \ {d} :
         /\ split'[e] = split[e] /\ hubAddress'[e] = hubAddress[e]
         /\ hubPort'[e] = hubPort[e] /\ address'[e] = address[e]
  BY NewDeviceIs DEF CreateObject
<1>13. \A e \in Devices \ {d} : Live(e)' => Live(e) /\ at[e] \notin Early /\ busAddress[e] # 0
  BY <1>1, <1>7, <1>9 DEF Live, Early, IInv, Addressed
<1>14. Addressed'
  <2> SUFFICES ASSUME NEW e \in Devices
               PROVE  /\ busAddress'[e] < nextAddress'
                      /\ Live(e)' => IF at'[e] \in Early THEN busAddress'[e] = 0
                                     ELSE busAddress'[e] = address'[e] /\ address'[e] # 0
    BY DEF Addressed
  <2>1. busAddress'[e] < nextAddress'
    BY <1>1 DEF IInv, Addressed
  <2>2. CASE e = d
    BY <1>1, <1>5, <2>1, <2>2 DEF Early
  <2>3. CASE e # d
    BY <1>1, <1>9, <1>12, <1>13, <2>1, <2>3 DEF IInv, Addressed
  <2>4. QED
    BY <2>2, <2>3
<1>15. AddressesDiffer'
  BY <1>1, <1>5, <1>13 DEF IInv, AddressesDiffer
<1>16. Linked'
  <2> SUFFICES ASSUME NEW e \in Devices, at'[e] # "absent", \A x \in Above[e] : at'[x] # "absent"
               PROVE  \/ link'[e] = "enabled"
                      \/ \E x \in Above[e] : at'[x] = "portStatus" /\ ~result'[x]
    BY DEF Linked
  <2>1. CASE e = d
    BY <1>1, <2>1
  <2>2. CASE e # d
    <3>1. e \in V /\ at[e] # "absent"
      BY <1>4, <1>9, <2>2 DEF History
    <3>2. \A x \in Above[e] : x \in Devices \ {d}
      BY <1>6, <3>1, AboveLess
    <3>3. link[e] = "enabled" \/ \E x \in Above[e] : at[x] = "portStatus" /\ ~result[x]
      BY <1>9, <3>1, <3>2 DEF IInv, Linked
    <3>4. \A x \in Above[e] : at[x] = "portStatus" => at'[x] = "portStatus"
      BY <1>1, <3>2
    <3>5. QED
      BY <1>1, <3>3, <3>4
  <2>3. QED
    BY <2>1, <2>2
<1>17. InOrder'
  <2> SUFFICES ASSUME NEW e \in Devices \ {Root}, at'[e] # "absent", at'[Parent[e]] # "absent"
               PROVE  at'[e] \in Initializing <=> Ready(Parent[e], e)'
    BY DEF InOrder, Ready
  <2>1. Parent[e] \in Devices
    BY Tree
  <2>2. \A x \in Devices \ {Root} : Ready(h, x)'
    BY <1>2, NextPortOf DEF Ready, Scanning
  <2>3. CASE e = d
    BY <1>1, <2>2, <2>3 DEF Initializing, Early
  <2>4. CASE e # d
    <3>1. e \in V /\ at[e] # "absent" /\ Parent[e] # d
      BY <1>4, <1>6, <1>9, <2>4 DEF History
    <3>2. at[e] \in Initializing <=> Ready(Parent[e], e)
      BY <1>9, <2>1, <3>1 DEF IInv, InOrder, Ready
    <3>3. CASE Parent[e] = h
      <4>1. Ready(h, e)
        BY <1>1 DEF Ready, Scanning
      <4>2. QED
        BY <1>9, <2>2, <2>4, <3>2, <3>3, <4>1
    <3>4. CASE Parent[e] # h
      <4>1. Ready(Parent[e], e)' <=> Ready(Parent[e], e)
        BY <1>1, <2>1, <3>1, <3>4 DEF Ready
      <4>2. QED
        BY <1>9, <2>4, <3>2, <4>1
    <3>5. QED
      BY <3>3, <3>4
  <2>5. QED
    BY <2>3, <2>4
<1>18. ObjectsOnce'
  <2> DEFINE W == V \cup {d}
  <2>1. \A x \in Devices \ {d}, e \in Devices \ {Root} :
          Ahead(x, e)' => Ahead(x, e) /\ (x = h => PortOf[e] # port[h])
    <3>1. \A e \in Devices \ {Root} : Ahead(h, e)' => Ahead(h, e) /\ PortOf[e] # port[h]
      BY <1>1, <1>2, NextPortOf DEF Ahead, Scanning, Starting, Initializing, Early
    <3>2. \A x \in Devices \ {d, h}, e \in Devices \ {Root} : Ahead(x, e)' => Ahead(x, e)
      BY <1>1 DEF Ahead
    <3>3. QED
      BY <3>1, <3>2
  <2>2. \A e \in Devices : (at'[e] # "absent" => e \in W) /\ (at'[e] \in Early => e \notin A)
    BY <1>4, <1>5, <1>9 DEF History
  <2>3. ASSUME NEW e \in W \ {Root}
        PROVE  Parent[e] \in W /\ busAddress'[Parent[e]] # 0 /\ ~Ahead(Parent[e], e)'
    <3>1. CASE e = d
      BY <1>1, <1>3, <1>5, <2>1, <3>1
    <3>2. CASE e \in V
      BY <1>1, <1>4, <1>6, <2>1, <3>2, Tree DEF History
    <3>3. QED
      BY <3>1, <3>2
  <2>4. ASSUME NEW e \in Devices \ {Root}, Parent[e] \notin W \/ Ahead(Parent[e], e)',
               link'[e] = "enabled"
        PROVE  FALSE
    <3>1. Parent[e] \in Devices
      BY Tree
    <3>2. CASE Parent[e] = d
      BY <1>1, <1>4, <1>5, <2>4, <3>2 DEF History
    <3>3. CASE Parent[e] = h
      BY <1>1, <1>4, <1>5, <2>1, <2>4, <3>3 DEF History
    <3>4. CASE Parent[e] \notin {d, h}
      BY <1>1, <1>4, <1>7, <2>1, <2>4, <3>1, <3>4 DEF History
    <3>5. QED
      BY <3>2, <3>3, <3>4
  <2>5. A \subseteq W /\ nextAddress' = Cardinality(A) + 1 /\ W \in SUBSET Devices
    BY <1>1, <1>4 DEF History
  <2> HIDE DEF W
  <2>6. History(W, A)'
    BY <2>2, <2>3, <2>4, <2>5 DEF History
  <2>7. QED
    BY <2>5, <2>6 DEF ObjectsOnce
<1>19. TranslatorIsNearest'
  <2> DEFINE Nearest(e) ==
               LET fast == {x \in Above[e] : speed[x] = "high"} IN
               IF speed[e] = "high" \/ fast = {} THEN ~split'[e]
               ELSE \E x \in fast, k \in Above[e] \cup {e} :
                      /\ \A g \in fast : g = x \/ g \in Above[x]
                      /\ k # Root /\ Parent[k] = x
                      /\ split'[e] /\ hubAddress'[e] = busAddress[x] /\ hubPort'[e] = PortOf[k]
  <2>1. SUFFICES ASSUME NEW e \in Devices, Live(e)' PROVE Nearest(e)
    BY <1>1 DEF TranslatorIsNearest, Live
  <2>2. CASE e # d
    BY <1>12, <1>13, <2>1, <2>2 DEF IInv, TranslatorIsNearest, Live
  <2>3. CASE e = d
    <3> DEFINE first == ~split[h] /\ speed[h] = "high" /\ speed[d] # "high"
               fast == {x \in Above[d] : speed[x] = "high"}
               fasth == {x \in Above[h] : speed[x] = "high"}
    <3>1. /\ split'[d] = (split[h] \/ first)
          /\ hubAddress'[d] = IF first THEN address[h] ELSE hubAddress[h]
          /\ hubPort'[d] = IF first THEN port[h] ELSE hubPort[h]
      BY NewDeviceIs DEF CreateObject
    <3>2. IF speed[h] = "high" \/ fasth = {} THEN ~split[h]
          ELSE \E x \in fasth, k \in Above[h] \cup {h} :
                 /\ \A g \in fasth : g = x \/ g \in Above[x]
                 /\ k # Root /\ Parent[k] = x
                 /\ split[h] /\ hubAddress[h] = busAddress[x] /\ hubPort[h] = PortOf[k]
      BY <1>3 DEF IInv, TranslatorIsNearest, Live
    <3>3. Above[d] = {h} \cup Above[h]
      BY <1>1, AboveHub
    <3>4. speed[d] = "high" => speed[h] = "high"
      BY <1>1 DEF IInv, WellConnected
    <3>5. IF speed[d] = "high" \/ fast = {} THEN ~split'[d]
          ELSE \E x \in fast, k \in Above[d] \cup {d} :
                 /\ \A g \in fast : g = x \/ g \in Above[x]
                 /\ k # Root /\ Parent[k] = x
                 /\ split'[d] /\ hubAddress'[d] = busAddress[x] /\ hubPort'[d] = PortOf[k]
      <4>1. CASE speed[d] = "high"
        BY <3>1, <3>2, <3>4, <4>1
      <4>2. CASE speed[d] # "high" /\ speed[h] = "high"
        <5>1. ~split[h] /\ first
          BY <3>2, <4>2
        <5>2. split'[d] /\ hubAddress'[d] = busAddress[h] /\ hubPort'[d] = PortOf[d]
          BY <1>1, <1>3, <3>1, <5>1
        <5>3. h \in fast /\ \A g \in fast : g = h \/ g \in Above[h]
          BY <3>3, <4>2
        <5>4. QED
          BY <1>1, <4>2, <5>2, <5>3
      <4>3. CASE speed[d] # "high" /\ speed[h] # "high"
        <5>1. fast = fasth
          BY <3>3, <4>3
        <5>2. ~first
          BY <4>3
        <5>3. split'[d] = split[h] /\ hubAddress'[d] = hubAddress[h] /\ hubPort'[d] = hubPort[h]
          BY <3>1, <5>2 DEF IInv, TypeOK
        <5>4. CASE fasth = {}
          BY <3>2, <5>1, <5>3, <5>4
        <5>5. CASE fasth # {}
          <6>1. PICK x \in fasth, k \in Above[h] \cup {h} :
                  /\ \A g \in fasth : g = x \/ g \in Above[x]
                  /\ k # Root /\ Parent[k] = x
                  /\ split[h] /\ hubAddress[h] = busAddress[x] /\ hubPort[h] = PortOf[k]
            BY <3>2, <4>3, <5>5
          <6>2. x \in fast /\ k \in Above[d] \cup {d}
            BY <3>3, <5>1, <6>1
          <6>3. QED
            BY <4>3, <5>1, <5>3, <6>1, <6>2
        <5>6. QED
          BY <5>4, <5>5
      <4>4. QED
        BY <4>1, <4>2, <4>3
    <3>6. QED
      BY <2>3, <3>5
  <2>4. QED
    BY <2>2, <2>3
<1>20. QED
  BY <1>1, <1>10, <1>11, <1>14, <1>15, <1>16, <1>17, <1>18, <1>19 DEF IInv

-----------------------------------------------------------------------------
(* The theorems.                                                             *)

LEMMA InitIsSound ==
  ASSUME Init
  PROVE  IInv
<1> USE DEF Init
<1>1. TypeOK
  <2>1. /\ 0 \in 0 .. MaxAddress /\ 1 \in 1 .. NPorts /\ 1 \in 0 .. AddressSize - 1
        /\ Root \in Devices
    BY ConstantsAssumption, Tree DEF AddressSize
  <2>2. WhereOK /\ BusOK /\ SystemOK
    BY <2>1 DEF WhereOK, BusOK, SystemOK, Progress
  <2>3. AnswerOK /\ ObjectOK /\ LoopOK /\ NextOK
    BY <2>1 DEF AnswerOK, ObjectOK, LoopOK, NextOK
  <2>4. QED
    BY <2>2, <2>3, TypeParts
<1>2. /\ \A d \in Devices : at[d] # "absent" => d = Root /\ at[d] = "descriptor" /\ kind[d] # "empty"
      /\ \A d \in Devices : link[d] = "enabled" => d = Root
      /\ \A d \in Devices : at[d] # "absent" => link[d] = "enabled"
      /\ \A d \in Devices : busAddress[d] = 0 /\ split[d] = FALSE
  OBVIOUS
<1>3. Chain
  <2>1. at[Root] # "absent" => current = Root
    BY <1>2, Tree
  <2>2. current = None => at[Root] # "initialized"
    BY <1>2, Tree
  <2>3. current # None => Above[current] = {}
    BY AboveHub
  <2>4. QED
    BY <1>2, <2>1, <2>2, <2>3, Tree DEF Chain, Busy
<1>4. Present
  BY <1>2 DEF Present
<1>5. ObjectsOnce
  <2> DEFINE V == {d \in Devices : at[d] # "absent"}
  <2>1. V \subseteq {Root} /\ V \in SUBSET Devices
    BY <1>2
  <2>2. Cardinality({}) = 0
    BY FS_EmptySet
  <2>3. History(V, {})
    BY <1>2, <2>1, <2>2 DEF History
  <2>4. {} \in SUBSET Devices
    OBVIOUS
  <2> HIDE DEF V
  <2>5. QED
    BY <2>1, <2>3, <2>4 DEF ObjectsOnce
<1>6. Addressed
  BY <1>2 DEF Addressed, Live, Early
<1>7. AddressesDiffer
  BY <1>2 DEF AddressesDiffer, Live
<1>8. Linked
  BY <1>2 DEF Linked
<1>9. InOrder
  BY <1>2, Tree DEF InOrder
<1>10. TranslatorIsNearest
  <2>1. Above[Root] = {}
    BY AboveHub
  <2>2. QED
    BY <1>2, <2>1 DEF TranslatorIsNearest
<1>11. QED
  BY <1>1, <1>3, <1>4, <1>5, <1>6, <1>7, <1>8, <1>9, <1>10 DEF IInv

LEMMA NextKeeps ==
  ASSUME IInv, [Next]_vars
  PROVE  IInv'
<1>1. TypeOK'
  BY TypeStays DEF IInv
<1>2. ASSUME NEW d \in Devices,
             \/ GetDeviceDescriptor(d) \/ GetConfiguration(d) \/ SetConfiguration(d)
             \/ ConfigureFunction(d) \/ GetHubDescriptor(d)
      PROVE  IInv'
  BY <1>1, <1>2, StartActions
<1>3. ASSUME NEW d \in Devices, SetAddress(d) PROVE IInv'
  BY <1>1, <1>3, SetAddressKeeps
<1>4. ASSUME NEW h \in Devices, PowerPort(h) PROVE IInv'
  BY <1>1, <1>4, PowerPortKeeps
<1>5. ASSUME NEW h \in Devices, GetPortStatus(h) PROVE IInv'
  BY <1>1, <1>5, GetPortStatusKeeps
<1>6. ASSUME NEW h \in Devices, ResetPort(h) PROVE IInv'
  BY <1>1, <1>6, ResetPortKeeps
<1>7. ASSUME NEW h \in Devices, GetResetStatus(h) PROVE IInv'
  <2>1. ASSUME NEW d \in At(h, port[h]), CreateObject(h, d) PROVE IInv'
    BY <1>1, <2>1, CreateObjectKeeps DEF At
  <2>2. CASE \E d \in At(h, port[h]) : CreateObject(h, d)
    BY <2>1, <2>2
  <2>3. CASE ~ \E d \in At(h, port[h]) : CreateObject(h, d)
    <3>1. \/ GiveUp(h) /\ UNCHANGED port /\ (PowerOff(At(h, port[h])) \/ UNCHANGED link)
          \/ Continue(h, "status", "configure") /\ UNCHANGED link
      BY <1>7, <2>3 DEF GetResetStatus, CreateObject, bus
    <3>2. Working(h, "resetStatus") /\ UNCHANGED <<object, busAddress, result, nextAddress, system>>
      BY <1>7, <2>3 DEF GetResetStatus, CreateObject, bus
    <3>3. QED
      BY <1>1, <3>1, <3>2, ResetStatusKeeps
  <2>4. QED
    BY <2>2, <2>3
<1>8. ASSUME NEW h \in Devices, ConfigureDevice(h) PROVE IInv'
  <2>1. Working(h, "configure") /\ UNCHANGED <<bus, object, result, nextAddress, system>>
    BY <1>8 DEF ConfigureDevice
  <2>2. CASE (\A d \in At(h, port[h]) : at[d] = "absent") /\ Continue(h, "configure", "hubStatus")
    BY <1>1, <2>1, <2>2, ConfigureNobodyKeeps
  <2>3. ASSUME NEW d \in At(h, port[h]), at[d] # "absent", NextPort(h), current' = d,
               at' = [at EXCEPT ![d] = "setConfiguration",
                                ![h] = IF LastPort(h) THEN "hubStatus" ELSE "configure"]
        PROVE  IInv'
    BY <1>1, <2>1, <2>3, ConfigureDeviceKeeps
  <2>4. QED
    BY <1>8, <2>2, <2>3 DEF ConfigureDevice
<1>9. ASSUME NEW h \in Devices, GetHubStatus(h) PROVE IInv'
  BY <1>1, <1>9, GetHubStatusKeeps
<1>10. ASSUME NEW h \in Devices, CheckPort(h) PROVE IInv'
  BY <1>1, <1>10, CheckPortKeeps
<1>11. CASE RootPortConfigure
  BY <1>1, <1>11, RootPortConfigureKeeps
<1>12. CASE RootPortReturns
  BY <1>1, <1>12, RootPortReturnsKeeps
<1>13. CASE LibraryInitialized \/ RegisterHandler \/ UNCHANGED vars
  <2>1. UNCHANGED <<at, link, busAddress, object, port, result, current, nextAddress, kind, speed>>
    BY <1>13 DEF LibraryInitialized, RegisterHandler, vars, bus, loop, object
  <2>2. Chain'
    BY <2>1 DEF IInv, Chain, Busy
  <2>3. QED
    BY <1>1, <2>1, <2>2, NothingMoves
<1>14. QED
  BY <1>2, <1>3, <1>4, <1>5, <1>6, <1>7, <1>8, <1>9, <1>10, <1>11, <1>12, <1>13
  DEF Next, Enumerate, Boot

(***************************************************************************)
(* The walk through the tree of hubs keeps its objects, ports and          *)
(* addresses consistent, whichever message fails (usbstandardhub.cpp,      *)
(* usbdevice.cpp).                                                         *)
(***************************************************************************)
THEOREM Invariance == Spec => []IInv
<1>1. Init => IInv
  BY InitIsSound
<1>2. IInv /\ [Next]_vars => IInv'
  BY NextKeeps
<1>3. QED
  BY <1>1, <1>2, PTL DEF Spec

(***************************************************************************)
(* No two devices that the library has an object for ever answer to the    *)
(* same address (USBDeviceInitialize, s_ucNextAddress).                    *)
(***************************************************************************)
THEOREM OneAnswers == Spec => []OneDeviceAnswers
<1>1. IInv => OneDeviceAnswers
  BY DEF IInv, AddressesDiffer, Live, OneDeviceAnswers
<1>2. QED
  BY <1>1, Invariance, PTL

(***************************************************************************)
(* Every device behind a slower hub is reached through the nearest         *)
(* high-speed hub, by its address and port on the bus (USBDevice).         *)
(***************************************************************************)
THEOREM TranslatorsAreNearest == Spec => []TranslatorIsNearest
<1>1. IInv => TranslatorIsNearest
  BY DEF IInv
<1>2. QED
  BY <1>1, Invariance, PTL

(***************************************************************************)
(* At the end of the enumeration no device is left between: it is          *)
(* configured and can be talked to, or it has no object, or a hub above it *)
(* was given up (USBStandardHubEnumeratePorts, USBStandardHubConfigure).   *)
(***************************************************************************)
THEOREM AllUsable == Spec => []UsableWhenDone
<1>1. ASSUME IInv, current = None, NEW d \in Devices, at[d] # "absent",
             \A h \in Above[d] : at[h] = "configured"
      PROVE  at[d] = "configured" /\ link[d] = "enabled" /\ address[d] = busAddress[d]
  <2>1. ~Busy(d)
    BY <1>1 DEF IInv, Chain
  <2>2. at[d] # "initialized"
    <3>1. CASE d = Root
      BY <1>1, <3>1 DEF IInv, Chain
    <3>2. CASE d # Root
      <4>1. Parent[d] \in Above[d]
        BY <3>2, AboveHub
      <4>2. at[Parent[d]] = "configured"
        BY <1>1, <4>1
      <4>3. QED
        BY <1>1, <3>2, <4>2 DEF IInv, InOrder, Initializing, Scanning
    <3>3. QED
      BY <3>1, <3>2
  <2>3. at[d] = "configured"
    BY <1>1, <2>1, <2>2 DEF Busy
  <2>4. link[d] = "enabled"
    BY <1>1 DEF IInv, Linked
  <2>5. QED
    BY <1>1, <2>3, <2>4 DEF IInv, Addressed, Live, Early
<1>2. IInv => UsableWhenDone
  BY <1>1 DEF UsableWhenDone
<1>3. QED
  BY <1>2, Invariance, PTL
=============================================================================
