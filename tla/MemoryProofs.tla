---------------------------- MODULE MemoryProofs ----------------------------
(***************************************************************************)
(* Proofs about Memory, for any sizes of the memory, of the buckets and of *)
(* the requests and any number of callers: the heap stays sound, and what  *)
(* it allocates overlaps nothing else that is allocated.                   *)
(***************************************************************************)
EXTENDS Memory, FiniteSetTheorems, WellFoundedInduction, TLAPS

\* The blocks or pages of a bucket, and what is with a user or on its way to one.
AllOf(b) == IF b = PageBucket THEN pages ELSE {a \in Blocks : nSize[a] = b}
Held     == Owned \cup InTransit

(***************************************************************************)
(* The elements of a free list, in their order, and the Null behind them.  *)
(***************************************************************************)
Chained(b, m, f) ==
  /\ f[0] = freeList[b] /\ f[m] = Null
  /\ \A i \in 0 .. m - 1 : f[i] \in FreeOf(b) /\ f[i + 1] = pNext[f[i]]
  /\ \A i, j \in 0 .. m : f[i] = f[j] => i = j
  /\ \A a \in FreeOf(b) : \E i \in 0 .. m - 1 : f[i] = a

Lists ==
  \A b \in Buckets :
    \E m \in Nat : \E f \in [0 .. m -> Addresses \cup {Null}] : Chained(b, m, f)

Single ==
  /\ \A a \in Addresses : users[a] \in {0, 1}
  /\ \A p \in Callers : taken[p] # Null => users[taken[p]] = 0
  /\ \A p, q \in Callers : taken[p] = taken[q] /\ taken[p] # Null => p = q

\* The pointers are behind all that was carved.
Carved ==
  /\ \A a \in Blocks : a + HeaderSize + nSize[a] <= nextBlock
  /\ \A a \in pages : a + PageSize <= nextPage

IInv == TypeOK /\ AllDisjoint /\ Carved /\ Single /\ Lists /\ CountsAreExact

-----------------------------------------------------------------------------
(* The layout.                                                               *)

LEMMA Division ==
  \A x \in Nat, d \in Nat \ {0} : x \div d \in Nat /\ (x \div d) * d <= x /\ x < (x \div d) * d + d
OBVIOUS

LEMMA Layout ==
  /\ Base \in Nat /\ Limit \in Nat /\ BlockLimit \in Nat /\ PageBase \in Nat
  /\ Base <= BlockLimit /\ BlockLimit <= Limit /\ BlockLimit <= PageBase /\ PageBase <= Limit
  /\ Addresses \subseteq Nat /\ IsFiniteSet(Addresses) /\ Null \notin Addresses
<1>1. Base \in Nat /\ Limit \in Nat /\ Base <= Limit /\ PageBase <= Limit
  BY ConstantsAssumption DEF Base, Limit
<1>2. BlockLimit \in Nat /\ Base <= BlockLimit /\ BlockLimit <= Limit
  BY <1>1 DEF BlockLimit
<1>3. PageBase \in Nat /\ BlockLimit <= PageBase
  <2> DEFINE q == (BlockLimit + PageSize) \div PageSize
  <2>1. BlockLimit + PageSize \in Nat /\ PageSize \in Nat \ {0}
    BY <1>2, ConstantsAssumption
  <2>2. q \in Nat /\ BlockLimit + PageSize < q * PageSize + PageSize
    BY <2>1, Division
  <2>3. PageBase = q * PageSize
    BY DEF PageBase
  <2> HIDE DEF q
  <2>4. q * PageSize \in Nat
    BY <2>1, <2>2
  <2>5. QED
    BY <1>2, <2>1, <2>2, <2>3, <2>4
<1>4. IsFiniteSet(Addresses)
  BY <1>1, FS_Interval DEF Addresses
<1>5. QED
  BY <1>1, <1>2, <1>3, <1>4, ConstantsAssumption DEF Addresses

LEMMA Sets ==
  /\ \A b : FreeOf(b) = AllOf(b) \ Held /\ InUse(b) = AllOf(b) \cap Held
  /\ \A b : FreeOf(b)' = AllOf(b)' \ Held' /\ InUse(b)' = AllOf(b)' \cap Held'
BY DEF FreeOf, InUse, AllOf, Held

\* A block or page has one bucket at most.
LEMMA OneBucket ==
  ASSUME TypeOK, AllDisjoint
  PROVE  /\ Blocks \cap pages = {}
         /\ \A b \in Buckets : AllOf(b) \subseteq Addresses
         /\ \A b, c \in Buckets : \A a : a \in AllOf(b) /\ a \in AllOf(c) => b = c
         /\ \A a \in Blocks, b \in Buckets : a \in AllOf(b) <=> b \in BucketSizes /\ b = nSize[a]
         /\ \A a \in pages, b \in Buckets : a \in AllOf(b) <=> b = PageBucket
<1>1. ASSUME NEW a \in Blocks, a \in pages PROVE FALSE
  <2>1. /\ a + HeaderSize + nSize[a] <= BlockLimit /\ PageBase <= a
        /\ a \in Nat /\ nSize[a] \in Nat
    BY <1>1, Layout DEF AllDisjoint, TypeOK
  <2>2. QED
    BY <2>1, Layout DEF HeaderSize
<1>2. QED
  BY <1>1, ConstantsAssumption DEF AllOf, Buckets, TypeOK

-----------------------------------------------------------------------------
(* Free lists.                                                               *)

\* A list whose elements and links are not touched.
LEMMA ListStays ==
  ASSUME NEW b, NEW m \in Nat, NEW f, Chained(b, m, f), FreeOf(b)' = FreeOf(b),
         freeList'[b] = freeList[b], \A a \in FreeOf(b) : pNext'[a] = pNext[a]
  PROVE  Chained(b, m, f)'
BY DEF Chained

LEMMA ListPopped ==
  ASSUME TypeOK, NEW b \in Buckets, NEW m \in Nat, NEW f \in [0 .. m -> Addresses \cup {Null}],
         Chained(b, m, f), freeList[b] # Null,
         FreeOf(b)' = FreeOf(b) \ {freeList[b]},
         freeList'[b] = pNext[freeList[b]], UNCHANGED pNext
  PROVE  /\ freeList[b] \in FreeOf(b)
         /\ \E n \in Nat : \E g \in [0 .. n -> Addresses \cup {Null}] : Chained(b, n, g)'
<1>1. m # 0
  BY DEF Chained
<1>2. freeList[b] = f[0] /\ f[0] \in FreeOf(b) /\ f[1] = pNext[f[0]]
  BY <1>1 DEF Chained
<1> DEFINE n == m - 1
           g == [i \in 0 .. n |-> f[i + 1]]
<1>3. n \in Nat /\ g \in [0 .. n -> Addresses \cup {Null}] /\ \A i \in 0 .. n : g[i] = f[i + 1]
  BY <1>1
<1>4. Chained(b, n, g)'
  <2>1. g[0] = freeList'[b] /\ g[n] = Null
    BY <1>1, <1>2, <1>3 DEF Chained
  <2>2. \A i \in 0 .. n - 1 : g[i] \in FreeOf(b)' /\ g[i + 1] = pNext'[g[i]]
    <3> SUFFICES ASSUME NEW i \in 0 .. n - 1 PROVE g[i] \in FreeOf(b)' /\ g[i + 1] = pNext'[g[i]]
      OBVIOUS
    <3>1. i + 1 \in 0 .. m - 1 /\ i + 1 # 0 /\ 0 \in 0 .. m /\ i + 1 \in 0 .. m /\ i \in 0 .. n /\ i + 1 \in 0 .. n
      BY <1>1
    <3>2. f[i + 1] # f[0] /\ f[i + 1] \in FreeOf(b) /\ f[i + 1 + 1] = pNext[f[i + 1]]
      BY <3>1 DEF Chained
    <3>3. QED
      BY <1>2, <1>3, <3>1, <3>2
  <2>3. \A i, j \in 0 .. n : g[i] = g[j] => i = j
    <3> SUFFICES ASSUME NEW i \in 0 .. n, NEW j \in 0 .. n, g[i] = g[j] PROVE i = j
      OBVIOUS
    <3>1. f[i + 1] = f[j + 1] /\ i + 1 \in 0 .. m /\ j + 1 \in 0 .. m
      BY <1>1, <1>3
    <3>2. i + 1 = j + 1
      BY <3>1 DEF Chained
    <3>3. QED
      BY <3>2
  <2>4. \A a \in FreeOf(b)' : \E i \in 0 .. n - 1 : g[i] = a
    <3> SUFFICES ASSUME NEW a \in FreeOf(b)' PROVE \E i \in 0 .. n - 1 : g[i] = a
      OBVIOUS
    <3>1. PICK i \in 0 .. m - 1 : f[i] = a
      BY DEF Chained
    <3>2. i # 0
      BY <1>2, <3>1
    <3>3. i - 1 \in 0 .. n - 1 /\ i - 1 \in 0 .. n /\ (i - 1) + 1 = i
      BY <1>1, <3>2
    <3>4. g[i - 1] = a
      BY <1>3, <3>1, <3>3
    <3>5. QED
      BY <3>3, <3>4
  <2> HIDE DEF n, g
  <2>5. QED
    BY <2>1, <2>2, <2>3, <2>4 DEF Chained
<1>5. QED
  BY <1>2, <1>3, <1>4

LEMMA ListPushed ==
  ASSUME TypeOK, NEW b \in Buckets, NEW m \in Nat, NEW f \in [0 .. m -> Addresses \cup {Null}],
         Chained(b, m, f), NEW a \in Addresses, a \notin FreeOf(b), FreeOf(b)' = FreeOf(b) \cup {a},
         freeList'[b] = a, pNext'[a] = freeList[b], \A c \in FreeOf(b) : pNext'[c] = pNext[c]
  PROVE  \E n \in Nat : \E g \in [0 .. n -> Addresses \cup {Null}] : Chained(b, n, g)'
<1> DEFINE n == m + 1
           g == [i \in 0 .. n |-> IF i = 0 THEN a ELSE f[i - 1]]
<1>1. n \in Nat /\ g \in [0 .. n -> Addresses \cup {Null}]
  OBVIOUS
<1>2. g[0] = a /\ \A i \in 1 .. n : g[i] = f[i - 1] /\ i - 1 \in 0 .. m
  OBVIOUS
<1>3. \A i \in 0 .. m : f[i] # a
  <2> SUFFICES ASSUME NEW i \in 0 .. m PROVE f[i] # a
    OBVIOUS
  <2>1. CASE i = m
    BY <2>1, Layout DEF Chained
  <2>2. CASE i # m
    <3>1. i \in 0 .. m - 1
      BY <2>2
    <3>2. QED
      BY <3>1 DEF Chained
  <2>3. QED
    BY <2>1, <2>2
<1>4. Chained(b, n, g)'
  <2>1. g[0] = freeList'[b] /\ g[n] = Null
    BY <1>2 DEF Chained
  <2>2. \A i \in 0 .. n - 1 : g[i] \in FreeOf(b)' /\ g[i + 1] = pNext'[g[i]]
    <3> SUFFICES ASSUME NEW i \in 0 .. n - 1 PROVE g[i] \in FreeOf(b)' /\ g[i + 1] = pNext'[g[i]]
      OBVIOUS
    <3>1. CASE i = 0
      <4>1. g[1] = f[0]
        BY <1>2
      <4>2. QED
        BY <1>2, <3>1, <4>1 DEF Chained
    <3>2. CASE i # 0
      <4>1. i \in 1 .. n /\ i + 1 \in 1 .. n /\ i - 1 \in 0 .. m - 1 /\ (i + 1) - 1 = i /\ (i - 1) + 1 = i
        BY <3>2
      <4>2. g[i] = f[i - 1] /\ g[i + 1] = f[i]
        BY <1>2, <4>1
      <4>3. f[i - 1] \in FreeOf(b) /\ f[i] = pNext[f[i - 1]]
        BY <4>1 DEF Chained
      <4>4. QED
        BY <4>2, <4>3
    <3>3. QED
      BY <3>1, <3>2
  <2>3. \A i, j \in 0 .. n : g[i] = g[j] => i = j
    <3> SUFFICES ASSUME NEW i \in 0 .. n, NEW j \in 0 .. n, g[i] = g[j] PROVE i = j
      OBVIOUS
    <3>1. CASE i = 0 \/ j = 0
      BY <1>2, <1>3, <3>1
    <3>2. CASE i # 0 /\ j # 0
      <4>1. f[i - 1] = f[j - 1] /\ i - 1 \in 0 .. m /\ j - 1 \in 0 .. m
        BY <1>2, <3>2
      <4>2. i - 1 = j - 1
        BY <4>1 DEF Chained
      <4>3. QED
        BY <4>2
    <3>3. QED
      BY <3>1, <3>2
  <2>4. \A c \in FreeOf(b)' : \E i \in 0 .. n - 1 : g[i] = c
    <3> SUFFICES ASSUME NEW c \in FreeOf(b)' PROVE \E i \in 0 .. n - 1 : g[i] = c
      OBVIOUS
    <3>1. CASE c = a
      BY <1>2, <3>1
    <3>2. CASE c # a
      <4>1. PICK i \in 0 .. m - 1 : f[i] = c
        BY <3>2 DEF Chained
      <4>2. i + 1 \in 1 .. n /\ i + 1 \in 0 .. n - 1 /\ (i + 1) - 1 = i
        OBVIOUS
      <4>3. g[i + 1] = c
        BY <1>2, <4>1, <4>2
      <4>4. QED
        BY <4>2, <4>3
    <3>3. QED
      BY <3>1, <3>2
  <2> HIDE DEF n, g
  <2>5. QED
    BY <2>1, <2>2, <2>3, <2>4 DEF Chained
<1>5. QED
  BY <1>1, <1>4

-----------------------------------------------------------------------------
(* What Element, a recursive function, finds in a list.                      *)

\* The least number principle, for a set and not for a predicate.
LEMMA LeastNatural ==
  ASSUME NEW T, T \subseteq Nat, T # {}
  PROVE  \E x \in T : \A y \in T : x <= y
<1> DEFINE R == OpToRel(<, Nat)
<1>1. IsWellFoundedOn(R, Nat)
  BY NatLessThanWellFounded
<1>2. \A x, y \in Nat : <<y, x>> \in R <=> y < x
  BY DEF OpToRel
<1> HIDE DEF R
<1>3. PICK x \in T : \A y \in T : ~(<<y, x>> \in R)
  BY <1>1, WFMin
<1>4. \A y \in T : x \in Nat /\ y \in Nat /\ ~(y < x)
  BY <1>2, <1>3
<1>5. QED
  BY <1>4

LEMMA ElementIs ==
  ASSUME NEW b, NEW m \in Nat, NEW f, Chained(b, m, f), Null \notin FreeOf(b), NEW n \in 0 .. m
  PROVE  Element(b, n) = f[n]
<1> DEFINE Step(g, i) == IF i = 0 THEN freeList[b] ELSE IF g[i - 1] = Null THEN Null ELSE pNext[g[i - 1]]
           Solves(g) == g = [i \in 0 .. n |-> Step(g, i)]
           front == [i \in 0 .. n |-> f[i]]
           walk == CHOOSE g : Solves(g)
<1>1. Solves(front)
  <2>1. \A i \in 0 .. n : front[i] = Step(front, i)
    <3> SUFFICES ASSUME NEW i \in 0 .. n PROVE front[i] = Step(front, i)
      OBVIOUS
    <3>1. CASE i = 0
      BY <3>1 DEF Chained
    <3>2. CASE i # 0
      <4>1. i - 1 \in 0 .. m - 1 /\ i - 1 \in 0 .. n /\ (i - 1) + 1 = i
        BY <3>2
      <4>2. f[i - 1] # Null /\ f[i] = pNext[f[i - 1]]
        BY <4>1 DEF Chained
      <4>3. QED
        BY <3>2, <4>1, <4>2
    <3>3. QED
      BY <3>1, <3>2
  <2>2. QED
    BY <2>1
<1>2. Element(b, n) = walk[n]
  BY DEF Element
<1> HIDE DEF front, Solves
<1>3. Solves(walk)
  BY <1>1
<1>4. \A i \in 0 .. n : walk[i] = f[i]
  <2> DEFINE T == {i \in 0 .. n : walk[i] # f[i]}
  <2> SUFFICES ASSUME T # {} PROVE FALSE
    OBVIOUS
  <2>1. PICK x \in T : \A y \in T : x <= y
    <3>1. T \subseteq Nat
      OBVIOUS
    <3>2. QED
      BY <3>1, LeastNatural
  <2>2. walk[x] = Step(walk, x)
    BY <1>3, <2>1 DEF Solves
  <2>3. x # 0
    BY <2>1, <2>2 DEF Chained
  <2>4. x - 1 \in 0 .. m - 1 /\ x - 1 \in 0 .. n /\ (x - 1) + 1 = x /\ ~(x <= x - 1)
    BY <2>1, <2>3
  <2>5. walk[x - 1] = f[x - 1]
    BY <2>1, <2>4
  <2>6. f[x - 1] # Null /\ f[x] = pNext[f[x - 1]]
    BY <2>4 DEF Chained
  <2>7. QED
    BY <2>1, <2>2, <2>3, <2>5, <2>6
<1>5. QED
  BY <1>2, <1>4

LEMMA ListsAreExact ==
  ASSUME TypeOK, AllDisjoint, Lists
  PROVE  FreeListsAreExact
<1> SUFFICES ASSUME NEW b \in Buckets
             PROVE  /\ {Element(b, n) : n \in 0 .. Cardinality(FreeOf(b))} = FreeOf(b) \cup {Null}
                    /\ Element(b, Cardinality(FreeOf(b))) = Null
  BY DEF FreeListsAreExact
<1>a. PICK m \in Nat : \E f \in [0 .. m -> Addresses \cup {Null}] : Chained(b, m, f)
  BY DEF Lists
<1>1. PICK f \in [0 .. m -> Addresses \cup {Null}] : Chained(b, m, f)
  BY <1>a
<1>2. FreeOf(b) \subseteq Addresses /\ Null \notin FreeOf(b)
  BY OneBucket, Layout, Sets
<1>3. Cardinality(FreeOf(b)) = m
  <2> DEFINE S == 0 .. m - 1
             front == [i \in S |-> f[i]]
  <2>0. front \in [S -> FreeOf(b)] /\ \A i \in S : front[i] = f[i]
    BY <1>1 DEF Chained
  <2>1. front \in Bijection(S, FreeOf(b))
    <3> HIDE DEF front
    <3>1. \A i, j \in S : front[i] = front[j] => i = j
      BY <1>1, <2>0 DEF Chained
    <3>2. \A a \in FreeOf(b) : \E i \in S : front[i] = a
      BY <1>1, <2>0 DEF Chained
    <3>3. QED
      BY <2>0, <3>1, <3>2 DEF Bijection, Injection, Surjection, IsInjective
  <2>2. IsFiniteSet(S) /\ Cardinality(S) = m
    BY FS_Interval, SMTT(30)
  <2>3. ExistsBijection(S, FreeOf(b))
    BY <2>1 DEF ExistsBijection
  <2>4. QED
    BY <2>2, <2>3, FS_Bijection
<1>4. \A n \in 0 .. m : Element(b, n) = f[n]
  BY <1>1, <1>2, ElementIs
<1>5. {f[n] : n \in 0 .. m} = FreeOf(b) \cup {Null}
  <2>1. \A n \in 0 .. m : f[n] \in FreeOf(b) \cup {Null}
    <3> SUFFICES ASSUME NEW n \in 0 .. m PROVE f[n] \in FreeOf(b) \cup {Null}
      OBVIOUS
    <3>1. n \in 0 .. m - 1 \/ n = m
      OBVIOUS
    <3>2. QED
      BY <1>1, <3>1 DEF Chained
  <2>2. \A a \in FreeOf(b) \cup {Null} : \E n \in 0 .. m : f[n] = a
    BY <1>1 DEF Chained
  <2>3. QED
    BY <2>1, <2>2
<1>6. Element(b, m) = Null
  BY <1>1, <1>4 DEF Chained
<1>7. QED
  BY <1>3, <1>4, <1>5, <1>6

-----------------------------------------------------------------------------
(* What a step does to what is held, to the lists and to the counts.         *)

LEMMA HeldByUsers ==
  ASSUME TypeOK, Single, NEW a \in Addresses
  PROVE  /\ HandOut(a) /\ users[a] = 0 =>
              Owned' = Owned \cup {a} /\ \A c \in Addresses : users'[c] = IF c = a THEN 1 ELSE users[c]
         /\ TakeBack(a) /\ a \in Owned =>
              Owned' = Owned \ {a} /\ \A c \in Addresses : users'[c] = IF c = a THEN 0 ELSE users[c]
<1>1. ASSUME HandOut(a), users[a] = 0
      PROVE  Owned' = Owned \cup {a} /\ \A c \in Addresses : users'[c] = IF c = a THEN 1 ELSE users[c]
  <2>1. \A c \in Addresses : users'[c] = IF c = a THEN 1 ELSE users[c]
    BY <1>1 DEF TypeOK, HandOut
  <2>2. QED
    BY <2>1 DEF Owned
<1>2. ASSUME TakeBack(a), a \in Owned
      PROVE  Owned' = Owned \ {a} /\ \A c \in Addresses : users'[c] = IF c = a THEN 0 ELSE users[c]
  <2>1. users[a] = 1
    BY <1>2 DEF Single, Owned
  <2>2. \A c \in Addresses : users'[c] = IF c = a THEN 0 ELSE users[c]
    BY <1>2, <2>1 DEF TypeOK, TakeBack
  <2>3. QED
    BY <2>2 DEF Owned
<1>3. QED
  BY <1>1, <1>2

LEMMA HeldInTransit ==
  ASSUME TypeOK, Single, NEW p \in Callers, NEW a \in Addresses \cup {Null}, taken' = [taken EXCEPT ![p] = a]
  PROVE  /\ \A q \in Callers : taken'[q] = IF q = p THEN a ELSE taken[q]
         /\ Ready(p) => InTransit' = (InTransit \cup {a}) \ {Null}
         /\ a = Null => InTransit' = InTransit \ {taken[p]}
<1>1. \A q \in Callers : taken'[q] = IF q = p THEN a ELSE taken[q]
  BY DEF TypeOK
<1>2. Ready(p) => InTransit' = (InTransit \cup {a}) \ {Null}
  BY <1>1 DEF InTransit, Ready
<1>3. a = Null => InTransit' = InTransit \ {taken[p]}
  BY <1>1 DEF InTransit, Single
<1>4. QED
  BY <1>1, <1>2, <1>3

LEMMA HeldIsKnown ==
  ASSUME TypeOK
  PROVE  /\ Owned \subseteq Addresses /\ InTransit \subseteq Blocks /\ Blocks \subseteq Addresses
         /\ Held \subseteq Addresses /\ Held \subseteq Blocks \cup pages
BY DEF TypeOK, Owned, InTransit, Held

\* No request has failed so far.
NoneFailed == nextBlock <= BlockLimit /\ nextPage <= Limit

LEMMA InUseIsFinite ==
  ASSUME TypeOK, AllDisjoint, NEW b \in Buckets
  PROVE  IsFiniteSet(InUse(b)) /\ Cardinality(InUse(b)) \in Nat
<1>1. InUse(b) \in SUBSET Addresses
  BY OneBucket, Sets
<1>2. QED
  BY <1>1, Layout, FS_Subset, FS_CardinalityType

LEMMA CountsUp ==
  ASSUME TypeOK, AllDisjoint, CountsAreExact, NoneFailed' => NoneFailed,
         NEW b \in Buckets, CountUp(b), NEW a, a \notin InUse(b), InUse(b)' = InUse(b) \cup {a},
         \A c \in Buckets \ {b} : InUse(c)' = InUse(c)
  PROVE  CountsAreExact'
<1> SUFFICES ASSUME NoneFailed', NEW c \in Buckets PROVE nCount'[c] = Cardinality(InUse(c)')
  BY DEF CountsAreExact, NoneFailed
<1>1. nCount[c] = Cardinality(InUse(c)) /\ nCount[c] \in Int
  BY DEF CountsAreExact, NoneFailed, TypeOK
<1>2. nCount'[c] = IF c = b THEN nCount[c] + 1 ELSE nCount[c]
  BY DEF CountUp, TypeOK
<1>3. Cardinality(InUse(b) \cup {a}) = Cardinality(InUse(b)) + 1
  BY InUseIsFinite, FS_AddElement
<1>4. QED
  BY <1>1, <1>2, <1>3

LEMMA CountsDown ==
  ASSUME TypeOK, AllDisjoint, CountsAreExact, NoneFailed' => NoneFailed,
         NEW b \in Buckets, nCount' = [nCount EXCEPT ![b] = @ - 1],
         NEW a \in InUse(b), InUse(b)' = InUse(b) \ {a},
         \A c \in Buckets \ {b} : InUse(c)' = InUse(c)
  PROVE  CountsAreExact'
<1> SUFFICES ASSUME NoneFailed', NEW c \in Buckets PROVE nCount'[c] = Cardinality(InUse(c)')
  BY DEF CountsAreExact, NoneFailed
<1>1. nCount[c] = Cardinality(InUse(c)) /\ nCount[c] \in Int
  BY DEF CountsAreExact, NoneFailed, TypeOK
<1>2. nCount'[c] = IF c = b THEN nCount[c] - 1 ELSE nCount[c]
  BY DEF TypeOK
<1>3. Cardinality(InUse(b) \ {a}) = Cardinality(InUse(b)) - 1
  BY InUseIsFinite, FS_RemoveElement
<1>4. QED
  BY <1>1, <1>2, <1>3

LEMMA CountsStay ==
  ASSUME CountsAreExact, NoneFailed' => NoneFailed /\ UNCHANGED nCount /\ \A c \in Buckets : InUse(c)' = InUse(c)
  PROVE  CountsAreExact'
BY DEF CountsAreExact, NoneFailed

\* Steps that touch no list: the links of what is free stay.
LEMMA ListsStay ==
  ASSUME Lists, UNCHANGED freeList, \A b \in Buckets : FreeOf(b)' = FreeOf(b),
         \A b \in Buckets : \A a \in FreeOf(b) : pNext'[a] = pNext[a]
  PROVE  Lists'
<1> SUFFICES ASSUME NEW b \in Buckets
             PROVE  \E m \in Nat : \E f \in [0 .. m -> Addresses \cup {Null}] : Chained(b, m, f)'
  BY DEF Lists
<1>1. PICK m \in Nat : \E f \in [0 .. m -> Addresses \cup {Null}] : Chained(b, m, f)
  BY DEF Lists
<1>2. PICK f \in [0 .. m -> Addresses \cup {Null}] : Chained(b, m, f)
  BY <1>1
<1>3. Chained(b, m, f)'
  BY <1>2, ListStays
<1>4. QED
  BY <1>3

LEMMA HeadIsFree ==
  ASSUME Lists, NEW b \in Buckets, freeList[b] # Null
  PROVE  freeList[b] \in FreeOf(b)
<1>1. PICK m \in Nat : \E f \in [0 .. m -> Addresses \cup {Null}] : Chained(b, m, f)
  BY DEF Lists
<1>2. PICK f \in [0 .. m -> Addresses \cup {Null}] : Chained(b, m, f)
  BY <1>1
<1>3. m # 0 /\ 0 \in 0 .. m - 1
  BY <1>2 DEF Chained
<1>4. QED
  BY <1>2, <1>3 DEF Chained

\* The first element of a list gets a user.
LEMMA FromList ==
  ASSUME IInv, NEW b \in Buckets, freeList[b] # Null, Pop(b), CountUp(b),
         \A c : AllOf(c)' = AllOf(c), Held' = Held \cup {freeList[b]}, UNCHANGED <<nextBlock, nextPage>>
  PROVE  Lists' /\ CountsAreExact'
<1> DEFINE a == freeList[b]
<1>1. a \in FreeOf(b) /\ a \in AllOf(b) /\ a \notin Held
  BY HeadIsFree, Sets DEF IInv
<1>2. \A c \in Buckets \ {b} : a \notin AllOf(c)
  BY <1>1, OneBucket DEF IInv
<1>3. FreeOf(b)' = FreeOf(b) \ {a} /\ InUse(b)' = InUse(b) \cup {a}
  BY <1>1, Sets
<1>4. \A c \in Buckets \ {b} : FreeOf(c)' = FreeOf(c) /\ InUse(c)' = InUse(c)
  BY <1>2, Sets
<1>5. freeList'[b] = pNext[a] /\ \A c \in Buckets \ {b} : freeList'[c] = freeList[c]
  BY DEF Pop, IInv, TypeOK
<1>6. Lists'
  <2> SUFFICES ASSUME NEW c \in Buckets
               PROVE  \E m \in Nat : \E f \in [0 .. m -> Addresses \cup {Null}] : Chained(c, m, f)'
    BY DEF Lists
  <2>1. PICK m \in Nat : \E f \in [0 .. m -> Addresses \cup {Null}] : Chained(c, m, f)
    BY DEF IInv, Lists
  <2>2. PICK f \in [0 .. m -> Addresses \cup {Null}] : Chained(c, m, f)
    BY <2>1
  <2>3. CASE c = b
    BY <1>3, <1>5, <2>2, <2>3, ListPopped DEF IInv, Pop
  <2>4. CASE c # b
    <3>1. Chained(c, m, f)'
      BY <1>4, <1>5, <2>2, <2>4, ListStays DEF Pop
    <3>2. QED
      BY <3>1
  <2>5. QED
    BY <2>3, <2>4
<1>7. a \notin InUse(b)
  BY <1>1, Sets
<1> HIDE DEF a
<1>8. CountsAreExact'
  BY <1>3, <1>4, <1>7, CountsUp DEF IInv, NoneFailed
<1>9. QED
  BY <1>6, <1>8

\* What a user gives back becomes the first element of its list.
LEMMA IntoList ==
  ASSUME IInv, NEW b \in Buckets, NEW a \in AllOf(b), a \in Held, Push(b, a),
         nCount' = [nCount EXCEPT ![b] = @ - 1],
         \A c : AllOf(c)' = AllOf(c), Held' = Held \ {a}, UNCHANGED <<nextBlock, nextPage>>
  PROVE  Lists' /\ CountsAreExact'
<1>1. \A c \in Buckets \ {b} : a \notin AllOf(c)
  BY OneBucket DEF IInv
<1>2. /\ a \in Addresses /\ a \notin FreeOf(b) /\ a \in InUse(b)
      /\ FreeOf(b)' = FreeOf(b) \cup {a} /\ InUse(b)' = InUse(b) \ {a}
  BY Sets, OneBucket DEF IInv
<1>3. \A c \in Buckets \ {b} : FreeOf(c)' = FreeOf(c) /\ InUse(c)' = InUse(c) /\ a \notin FreeOf(c)
  BY <1>1, Sets
<1>4. /\ freeList'[b] = a /\ \A c \in Buckets \ {b} : freeList'[c] = freeList[c]
      /\ pNext'[a] = freeList[b] /\ \A e \in Addresses \ {a} : pNext'[e] = pNext[e]
  BY <1>2 DEF Push, IInv, TypeOK
<1>5. \A c \in Buckets : FreeOf(c) \subseteq Addresses
  BY OneBucket, Sets DEF IInv
<1>6. Lists'
  <2> SUFFICES ASSUME NEW c \in Buckets
               PROVE  \E m \in Nat : \E f \in [0 .. m -> Addresses \cup {Null}] : Chained(c, m, f)'
    BY DEF Lists
  <2>1. PICK m \in Nat : \E f \in [0 .. m -> Addresses \cup {Null}] : Chained(c, m, f)
    BY DEF IInv, Lists
  <2>2. PICK f \in [0 .. m -> Addresses \cup {Null}] : Chained(c, m, f)
    BY <2>1
  <2>3. CASE c = b
    <3>1. \A e \in FreeOf(b) : pNext'[e] = pNext[e]
      BY <1>2, <1>4, <1>5
    <3>2. QED
      BY <1>2, <1>4, <2>2, <2>3, <3>1, ListPushed DEF IInv
  <2>4. CASE c # b
    <3>1. \A e \in FreeOf(c) : pNext'[e] = pNext[e]
      BY <1>3, <1>4, <1>5, <2>4
    <3>2. Chained(c, m, f)'
      BY <1>3, <1>4, <2>2, <2>4, <3>1, ListStays
    <3>3. QED
      BY <3>2
  <2>5. QED
    BY <2>3, <2>4
<1>7. CountsAreExact'
  BY <1>2, <1>3, CountsDown DEF IInv, NoneFailed
<1>8. QED
  BY <1>6, <1>7

\* What is carved has a user at once, so that no list knows it.
LEMMA FromPointer ==
  ASSUME IInv, NEW a, a \notin Held, \A c \in Buckets : a \notin AllOf(c), Held' = Held \cup {a},
         NoneFailed' => NoneFailed, UNCHANGED <<freeList, pNext>>,
         \/ (\A c \in Buckets : AllOf(c)' = AllOf(c)) /\ UNCHANGED nCount
         \/ \E b \in Buckets :
              /\ CountUp(b) /\ AllOf(b)' = AllOf(b) \cup {a}
              /\ \A c \in Buckets \ {b} : AllOf(c)' = AllOf(c)
  PROVE  Lists' /\ CountsAreExact'
<1>1. \A c \in Buckets : FreeOf(c)' = FreeOf(c)
  BY Sets
<1>2. Lists'
  BY <1>1, ListsStay DEF IInv
<1>3. CASE (\A c \in Buckets : AllOf(c)' = AllOf(c)) /\ UNCHANGED nCount
  <2>1. \A c \in Buckets : InUse(c)' = InUse(c)
    BY <1>3, Sets
  <2>2. QED
    BY <1>2, <1>3, <2>1, CountsStay DEF IInv
<1>4. ASSUME NEW b \in Buckets, CountUp(b), AllOf(b)' = AllOf(b) \cup {a},
             \A c \in Buckets \ {b} : AllOf(c)' = AllOf(c)
      PROVE  CountsAreExact'
  <2>1. InUse(b)' = InUse(b) \cup {a} /\ a \notin InUse(b)
    BY <1>4, Sets
  <2>2. \A c \in Buckets \ {b} : InUse(c)' = InUse(c)
    BY <1>4, Sets
  <2>3. QED
    BY <1>4, <2>1, <2>2, CountsUp DEF IInv
<1>5. QED
  BY <1>2, <1>3, <1>4

-----------------------------------------------------------------------------
(* The steps of a caller.                                                    *)

LEMMA ReuseKeeps ==
  ASSUME IInv, NEW p \in Callers, Ready(p), NEW b \in BucketSizes, CountUp(b), ReuseBlock(p, b),
         UNCHANGED <<nextPage, pages, users>>
  PROVE  IInv' /\ freeList[b] \in Blocks /\ freeList[b] \notin Held
<1> DEFINE a == freeList[b]
<1>1. a \in FreeOf(b) /\ b \in Buckets
  BY HeadIsFree DEF ReuseBlock, Buckets, IInv
<1>2. a \in Blocks /\ a \notin Held /\ a \in Addresses /\ a # Null
  BY <1>1, Sets, Layout, ConstantsAssumption DEF AllOf, IInv, TypeOK
<1>3. /\ \A q \in Callers : taken'[q] = IF q = p THEN a ELSE taken[q]
      /\ InTransit' = InTransit \cup {a}
  <2>1. taken' = [taken EXCEPT ![p] = a]
    BY DEF ReuseBlock
  <2>2. /\ \A q \in Callers : taken'[q] = IF q = p THEN a ELSE taken[q]
        /\ InTransit' = (InTransit \cup {a}) \ {Null}
    BY <1>2, <2>1, HeldInTransit DEF IInv
  <2>3. QED
    BY <1>2, <2>2 DEF InTransit
<1>4. Held' = Held \cup {a} /\ \A c : AllOf(c)' = AllOf(c)
  BY <1>3 DEF Held, Owned, AllOf, ReuseBlock, Blocks
<1>5. Lists' /\ CountsAreExact'
  BY <1>1, <1>4, FromList DEF ReuseBlock
<1>6. users[a] = 0 /\ \A q \in Callers : taken[q] # a
  BY <1>2 DEF Held, Owned, InTransit, IInv, Single
<1>7. Single'
  BY <1>3, <1>6 DEF IInv, Single, Ready
<1>8. AllDisjoint' /\ Carved'
  BY DEF IInv, AllDisjoint, Carved, ReuseBlock, Blocks
<1>9. TypeOK'
  <2>1. taken' \in [Callers -> Blocks' \cup {Null}]
    BY <1>2 DEF ReuseBlock, IInv, TypeOK, Blocks
  <2>2. freeList' \in [Buckets -> Addresses \cup {Null}] /\ nCount' \in [Buckets -> Int]
    BY <1>1, <1>2 DEF ReuseBlock, Pop, CountUp, IInv, TypeOK
  <2>3. UNCHANGED <<nextBlock, nextPage, nSize, pages, pNext, users>>
    BY DEF ReuseBlock, Pop
  <2>4. QED
    BY <2>1, <2>2, <2>3 DEF IInv, TypeOK, Owned, Blocks
<1>10. QED
  BY <1>2, <1>5, <1>7, <1>8, <1>9 DEF IInv

LEMMA CarveBlockKeeps ==
  ASSUME IInv, NEW p \in Callers, Ready(p), NEW n \in Nat \ {0}, CarveBlock(p, n),
         UNCHANGED <<nextPage, pages, users>>,
         \/ n \notin BucketSizes /\ UNCHANGED nCount
         \/ n \in BucketSizes /\ CountUp(n)
  PROVE  /\ IInv'
         /\ \/ Held' = Held /\ UNCHANGED <<nSize, taken>>
            \/ /\ nextBlock \notin Held \cup Blocks \cup pages /\ nextBlock \in Addresses
               /\ Blocks' = Blocks \cup {nextBlock} /\ nSize'[nextBlock] = n
               /\ \A c \in Blocks : nSize'[c] = nSize[c]
               /\ taken' = [taken EXCEPT ![p] = nextBlock]
<1> DEFINE a == nextBlock
<1>1. /\ a \in Nat /\ Base <= a /\ nextPage \in Nat /\ a + 1 + n = BlockEnd(n) /\ Overshoot \in Nat
      /\ BlockEnd(n) <= BlockLimit + Overshoot /\ nextBlock' = BlockEnd(n)
  BY Layout, ConstantsAssumption DEF IInv, TypeOK, BlockEnd, HeaderSize, CarveBlock
<1>2. nextBlock' \in Base .. BlockLimit + Overshoot /\ (NoneFailed' => NoneFailed) /\ nextBlock < nextBlock'
  BY <1>1, Layout DEF NoneFailed
<1>3. UNCHANGED <<nextPage, pages, users, freeList, pNext>>
  BY DEF CarveBlock
<1>4. nCount' \in [Buckets -> Int]
  <2>1. nCount \in [Buckets -> Int]
    BY DEF IInv, TypeOK
  <2>2. QED
    BY <2>1 DEF CountUp
<1>5. \A c \in Blocks : c \in Nat /\ nSize[c] \in Nat /\ c + 1 + nSize[c] <= a
  BY Layout DEF IInv, TypeOK, Carved, HeaderSize
<1>6. CASE BlockEnd(n) > BlockLimit
  <2>1. UNCHANGED <<nSize, taken>>
    BY <1>1, <1>6, Layout DEF CarveBlock
  <2>2. Held' = Held /\ \A c : AllOf(c)' = AllOf(c)
    BY <1>3, <2>1 DEF Held, Owned, InTransit, AllOf, Blocks
  <2>3. ~NoneFailed'
    BY <1>1, <1>6, Layout DEF NoneFailed
  <2>4. CountsAreExact'
    BY <2>3, CountsStay DEF IInv
  <2>5. Lists'
    BY <1>3, <2>2, Sets, ListsStay DEF IInv
  <2>6. TypeOK'
    BY <1>2, <1>3, <1>4, <2>1 DEF IInv, TypeOK, Owned, Blocks
  <2>7. AllDisjoint' /\ Single'
    BY <1>3, <2>1 DEF IInv, AllDisjoint, Single, Blocks
  <2>8. \A c \in Blocks' : c + HeaderSize + nSize'[c] <= nextBlock'
    BY <1>1, <1>2, <1>5, <2>1 DEF HeaderSize, Blocks
  <2>9. Carved'
    BY <1>3, <2>8 DEF IInv, Carved
  <2>10. QED
    BY <2>1, <2>2, <2>4, <2>5, <2>6, <2>7, <2>9 DEF IInv
<1>7. CASE BlockEnd(n) <= BlockLimit
  <2>1. /\ nSize' = [c \in Blocks \cup {a} |-> IF c = a THEN n ELSE nSize[c]]
        /\ taken' = [taken EXCEPT ![p] = a]
    BY <1>7 DEF CarveBlock
  <2>2. a \notin Blocks /\ a \in Addresses /\ a < BlockLimit /\ a # Null
    BY <1>1, <1>5, <1>7, Layout DEF Addresses
  <2>3. a \notin pages
    <3>1. ASSUME a \in pages PROVE FALSE
      <4>1. PageBase <= a
        BY <3>1 DEF IInv, AllDisjoint
      <4>2. QED
        BY <1>1, <2>2, <4>1, Layout
    <3>2. QED
      BY <3>1
  <2>4. a \notin Held
    BY <2>2, <2>3, HeldIsKnown DEF IInv
  <2>5. /\ Blocks' = Blocks \cup {a} /\ nSize'[a] = n /\ \A c \in Blocks : nSize'[c] = nSize[c]
    BY <2>1, <2>2 DEF Blocks
  <2>6. /\ \A q \in Callers : taken'[q] = IF q = p THEN a ELSE taken[q]
        /\ InTransit' = InTransit \cup {a}
    <3>1. /\ \A q \in Callers : taken'[q] = IF q = p THEN a ELSE taken[q]
          /\ InTransit' = (InTransit \cup {a}) \ {Null}
      BY <2>1, <2>2, HeldInTransit DEF IInv
    <3>2. QED
      BY <2>2, <3>1 DEF InTransit
  <2>7. Held' = Held \cup {a}
    BY <1>3, <2>6 DEF Held, Owned
  <2>8. \A c \in Buckets : a \notin AllOf(c)
    BY <2>2, <2>3 DEF AllOf
  <2>9. \A c \in Buckets : AllOf(c)' = IF c = n /\ n \in BucketSizes THEN AllOf(c) \cup {a} ELSE AllOf(c)
    <3> SUFFICES ASSUME NEW c \in Buckets
                 PROVE  AllOf(c)' = IF c = n /\ n \in BucketSizes THEN AllOf(c) \cup {a} ELSE AllOf(c)
      OBVIOUS
    <3>1. CASE c = PageBucket
      <4>1. AllOf(c)' = AllOf(c)
        BY <1>3, <3>1 DEF AllOf
      <4>2. QED
        BY <3>1, <4>1, ConstantsAssumption
    <3>2. CASE c # PageBucket
      <4>1. AllOf(c)' = {e \in Blocks' : nSize'[e] = c} /\ AllOf(c) = {e \in Blocks : nSize[e] = c}
        BY <3>2 DEF AllOf
      <4>2. c \in BucketSizes
        BY <3>2 DEF Buckets
      <4> HIDE DEF a
      <4>3. QED
        BY <2>2, <2>5, <4>1, <4>2
    <3>3. QED
      BY <3>1, <3>2
  <2>10. Lists' /\ CountsAreExact'
    <3>1. CASE n \notin BucketSizes /\ UNCHANGED nCount
      <4>1. \A c \in Buckets : AllOf(c)' = AllOf(c)
        BY <2>9, <3>1
      <4>2. QED
        BY <1>2, <1>3, <2>4, <2>7, <2>8, <3>1, <4>1, FromPointer
    <3>2. CASE n \in BucketSizes /\ CountUp(n)
      <4>1. n \in Buckets
        BY <3>2 DEF Buckets
      <4>2. AllOf(n)' = AllOf(n) \cup {a} /\ \A c \in Buckets \ {n} : AllOf(c)' = AllOf(c)
        BY <2>9, <3>2, <4>1
      <4>3. QED
        BY <1>2, <1>3, <2>4, <2>7, <2>8, <3>2, <4>1, <4>2, FromPointer
    <3>3. QED
      BY <3>1, <3>2
  <2>11. TypeOK'
    <3>1. taken' \in [Callers -> Blocks' \cup {Null}]
      BY <2>1, <2>5 DEF IInv, TypeOK
    <3>2. nSize' \in [Blocks' -> Nat] /\ Blocks' \subseteq Addresses
      BY <2>1, <2>2, <2>5 DEF IInv, TypeOK
    <3>3. Owned' \subseteq Blocks' \cup pages'
      BY <1>3, <2>5 DEF IInv, TypeOK, Owned
    <3>4. QED
      BY <1>2, <1>3, <1>4, <3>1, <3>2, <3>3 DEF IInv, TypeOK
  <2>12. AllDisjoint'
    <3>1. \A c \in Blocks' : Base <= c /\ c + HeaderSize + nSize'[c] <= BlockLimit
      BY <1>1, <1>7, <2>5 DEF IInv, AllDisjoint, HeaderSize
    <3>2. \A c, e \in Blocks' : c < e => c + HeaderSize + nSize'[c] <= e
      <4> SUFFICES ASSUME NEW c \in Blocks', NEW e \in Blocks', c < e
                   PROVE  c + HeaderSize + nSize'[c] <= e
        OBVIOUS
      <4>1. CASE c \in Blocks /\ e \in Blocks
        BY <2>5, <4>1 DEF IInv, AllDisjoint
      <4>2. CASE c \in Blocks /\ e = a
        BY <1>5, <2>5, <4>2 DEF HeaderSize
      <4>3. CASE c = a
        BY <1>1, <1>5, <2>5, <4>3
      <4>4. QED
        BY <2>5, <4>1, <4>2, <4>3
    <3>3. QED
      BY <1>3, <3>1, <3>2 DEF IInv, AllDisjoint
  <2>13. Carved'
    <3>1. \A c \in Blocks' : c + HeaderSize + nSize'[c] <= nextBlock'
      BY <1>1, <1>2, <1>5, <2>5 DEF HeaderSize
    <3>2. QED
      BY <1>3, <3>1 DEF IInv, Carved
  <2>14. Single'
    <3>1. users[a] = 0 /\ \A q \in Callers : taken[q] # a
      BY <2>2, <2>4 DEF Held, Owned, InTransit, IInv, Single
    <3>2. QED
      BY <1>3, <2>6, <3>1 DEF IInv, Single, Ready
  <2>15. QED
    BY <2>1, <2>2, <2>3, <2>4, <2>5, <2>10, <2>11, <2>12, <2>13, <2>14 DEF IInv
<1>8. QED
  BY <1>1, <1>6, <1>7, Layout

\* What a step does to what is held: one address at most comes or goes, and nothing held moves.
Moves ==
  /\ \/ Held' = Held
     \/ \E a \in Held' : a \notin Held /\ Held' = Held \cup {a}
     \/ \E a \in Held : Held' = Held \ {a}
  /\ \A a \in Held : RangeOf(a)' = RangeOf(a)

LEMMA AllocateKeeps ==
  ASSUME IInv, NEW p \in Callers, NEW n \in RequestSizes, Allocate(p, n)
  PROVE  IInv' /\ Moves
<1>1. Ready(p) /\ UNCHANGED <<nextPage, pages, users>>
  BY DEF Allocate
<1>2. ASSUME NEW k \in Nat \ {0}, CarveBlock(p, k),
             \/ k \notin BucketSizes /\ UNCHANGED nCount
             \/ k \in BucketSizes /\ CountUp(k)
      PROVE  IInv' /\ Moves
  <2> DEFINE a == nextBlock
  <2>1. /\ IInv'
        /\ \/ Held' = Held /\ UNCHANGED <<nSize, taken>>
           \/ /\ a \notin Held \cup Blocks \cup pages /\ a \in Addresses
              /\ Blocks' = Blocks \cup {a} /\ nSize'[a] = k
              /\ \A c \in Blocks : nSize'[c] = nSize[c]
              /\ taken' = [taken EXCEPT ![p] = a]
    BY <1>1, <1>2, CarveBlockKeeps
  <2> HIDE DEF a
  <2>2. CASE Held' = Held /\ UNCHANGED <<nSize, taken>>
    BY <2>1, <2>2 DEF Moves, RangeOf, Blocks
  <2>3. CASE /\ a \notin Held \cup Blocks \cup pages /\ a \in Addresses
             /\ Blocks' = Blocks \cup {a} /\ \A c \in Blocks : nSize'[c] = nSize[c]
             /\ taken' = [taken EXCEPT ![p] = a]
    <3>1. InTransit' = (InTransit \cup {a}) \ {Null}
      BY <1>1, <2>3, HeldInTransit DEF IInv
    <3>2. Held' = Held \cup {a}
      BY <1>1, <2>3, <3>1, Layout DEF Held, Owned, InTransit
    <3>3. \A c \in Held : RangeOf(c)' = RangeOf(c)
      BY <2>3 DEF RangeOf
    <3>4. QED
      BY <2>1, <2>3, <3>2, <3>3 DEF Moves
  <2>4. QED
    BY <2>1, <2>2, <2>3
<1>3. CASE TooLarge(n) /\ CarveBlock(p, n) /\ UNCHANGED nCount
  <2>1. n \in Nat \ {0} /\ BucketSizes \subseteq Nat
    BY ConstantsAssumption
  <2>2. n \notin BucketSizes
    BY <1>3, <2>1 DEF TooLarge
  <2>3. QED
    BY <1>2, <1>3, <2>1, <2>2
<1>4. ASSUME NEW b \in BucketSizes, CountUp(b), ReuseBlock(p, b)
      PROVE  IInv' /\ Moves
  <2> DEFINE a == freeList[b]
  <2>1. IInv' /\ a \in Blocks /\ a \notin Held
    BY <1>1, <1>4, ReuseKeeps
  <2>2. taken' = [taken EXCEPT ![p] = a] /\ UNCHANGED nSize /\ a \in Addresses
    BY <1>4, <2>1 DEF ReuseBlock, IInv, TypeOK
  <2> HIDE DEF a
  <2>3. InTransit' = (InTransit \cup {a}) \ {Null}
    BY <1>1, <2>2, HeldInTransit DEF IInv
  <2>4. Held' = Held \cup {a}
    BY <1>1, <2>2, <2>3, Layout DEF Held, Owned, InTransit
  <2>5. \A c \in Held : RangeOf(c)' = RangeOf(c)
    BY <2>2 DEF RangeOf, Blocks
  <2>6. QED
    BY <2>1, <2>4, <2>5 DEF Moves
<1>5. ASSUME NEW b \in BucketSizes, CountUp(b), CarveBlock(p, b)
      PROVE  IInv' /\ Moves
  BY <1>2, <1>5, ConstantsAssumption
<1>6. QED
  BY <1>3, <1>4, <1>5 DEF Allocate

LEMMA ReturnKeeps ==
  ASSUME IInv, NEW p \in Callers, ReturnBlock(p)
  PROVE  IInv' /\ Moves
<1> DEFINE a == taken[p]
<1>1. /\ a \in Blocks /\ a # Null /\ a \in Addresses /\ users[a] = 0 /\ a \in InTransit
      /\ HandOut(a) /\ taken' = [taken EXCEPT ![p] = Null] /\ pNext' = [pNext EXCEPT ![a] = Null]
      /\ UNCHANGED <<nextBlock, nextPage, nSize, pages, freeList, nCount>>
  BY DEF ReturnBlock, Ready, IInv, TypeOK, Single, InTransit
<1> HIDE DEF a
<1>2. Owned' = Owned \cup {a} /\ \A c \in Addresses : users'[c] = IF c = a THEN 1 ELSE users[c]
  BY <1>1, HeldByUsers DEF IInv
<1>3. InTransit' = InTransit \ {a} /\ \A q \in Callers : taken'[q] = IF q = p THEN Null ELSE taken[q]
  BY <1>1, HeldInTransit DEF IInv, a
<1>4. Held' = Held /\ (\A c : AllOf(c)' = AllOf(c)) /\ UNCHANGED Blocks
  BY <1>1, <1>2, <1>3 DEF Held, AllOf, Blocks
<1>5. \A b \in Buckets : FreeOf(b)' = FreeOf(b) /\ InUse(b)' = InUse(b) /\ a \notin FreeOf(b)
  BY <1>1, <1>4, Sets DEF Held
<1>6. Lists'
  <2>1. \A b \in Buckets : \A c \in FreeOf(b) : pNext'[c] = pNext[c]
    BY <1>1, <1>5, OneBucket, Sets DEF IInv, TypeOK
  <2>2. QED
    BY <1>1, <1>5, <2>1, ListsStay DEF IInv
<1>7. CountsAreExact'
  BY <1>1, <1>5, CountsStay DEF IInv, NoneFailed
<1>8. Single'
  <2>1. \A c \in Addresses : users'[c] \in {0, 1}
    BY <1>2 DEF IInv, Single
  <2>2. \A q \in Callers : taken'[q] # Null => users'[taken'[q]] = 0
    <3> SUFFICES ASSUME NEW q \in Callers, taken'[q] # Null PROVE users'[taken'[q]] = 0
      OBVIOUS
    <3>1. q # p /\ taken'[q] = taken[q] /\ taken[q] # Null
      BY <1>3
    <3>2. taken[q] # a /\ users[taken[q]] = 0
      BY <1>1, <3>1 DEF IInv, Single, a
    <3>3. taken[q] \in Addresses
      BY <3>1 DEF IInv, TypeOK
    <3>4. QED
      BY <1>2, <3>1, <3>2, <3>3
  <2>3. \A q, r \in Callers : taken'[q] = taken'[r] /\ taken'[q] # Null => q = r
    BY <1>3 DEF IInv, Single
  <2>4. QED
    BY <2>1, <2>2, <2>3 DEF Single
<1>9. TypeOK'
  <2>1. taken' \in [Callers -> Blocks' \cup {Null}]
    BY <1>1, <1>4 DEF IInv, TypeOK
  <2>2. pNext' \in [Addresses -> Addresses \cup {Null}]
    BY <1>1 DEF IInv, TypeOK
  <2>3. users' \in [Addresses -> Nat]
    BY <1>1 DEF IInv, TypeOK, HandOut
  <2>4. Owned' \subseteq Blocks' \cup pages'
    BY <1>1, <1>2, <1>4 DEF IInv, TypeOK
  <2>5. QED
    BY <1>1, <1>4, <2>1, <2>2, <2>3, <2>4 DEF IInv, TypeOK
<1>10. AllDisjoint' /\ Carved'
  BY <1>1, <1>4 DEF IInv, AllDisjoint, Carved
<1>11. Moves
  BY <1>1, <1>4 DEF Moves, RangeOf
<1>12. QED
  BY <1>6, <1>7, <1>8, <1>9, <1>10, <1>11 DEF IInv

\* What both kinds of giving back have in common.
LEMMA TakeBackKeeps ==
  ASSUME IInv, NEW a \in Owned, TakeBack(a), UNCHANGED <<nextBlock, nextPage, nSize, pages, taken>>,
         freeList' \in [Buckets -> Addresses \cup {Null}], pNext' \in [Addresses -> Addresses \cup {Null}],
         nCount' \in [Buckets -> Int],
         Held' = Held \ {a} /\ (\A c : AllOf(c)' = AllOf(c)) => Lists' /\ CountsAreExact'
  PROVE  IInv' /\ Moves
<1>1. a \in Addresses /\ users[a] = 1 /\ a \notin InTransit /\ a \in Held
  BY DEF IInv, TypeOK, Single, Owned, InTransit, Held
<1>2. Owned' = Owned \ {a} /\ \A c \in Addresses : users'[c] = IF c = a THEN 0 ELSE users[c]
  BY <1>1, HeldByUsers DEF IInv
<1>3. UNCHANGED <<InTransit, Blocks>>
  BY DEF InTransit, Blocks
<1>4. Held' = Held \ {a} /\ \A c : AllOf(c)' = AllOf(c)
  BY <1>1, <1>2, <1>3 DEF Held, AllOf
<1>5. Single'
  <2>1. \A c \in Addresses : users'[c] \in {0, 1}
    BY <1>2 DEF IInv, Single
  <2>2. \A q \in Callers : taken'[q] # Null => users'[taken'[q]] = 0
    BY <1>2 DEF IInv, TypeOK, Single
  <2>3. QED
    BY <2>1, <2>2 DEF IInv, Single
<1>6. TypeOK'
  <2>1. users' \in [Addresses -> Nat]
    <3>1. users' = [c \in Addresses |-> users'[c]]
      BY DEF TakeBack, IInv, TypeOK
    <3>2. \A c \in Addresses : users'[c] \in Nat
      BY <1>2 DEF IInv, TypeOK
    <3>3. QED
      BY <3>1, <3>2
  <2>2. Owned' \subseteq Blocks' \cup pages'
    BY <1>2, <1>3 DEF IInv, TypeOK
  <2>3. QED
    BY <1>3, <2>1, <2>2 DEF IInv, TypeOK
<1>7. AllDisjoint' /\ Carved'
  BY <1>3 DEF IInv, AllDisjoint, Carved
<1>8. Moves
  BY <1>1, <1>3, <1>4 DEF Moves, RangeOf
<1>9. QED
  BY <1>4, <1>5, <1>6, <1>7, <1>8 DEF IInv

LEMMA PushType ==
  ASSUME TypeOK, NEW b \in Buckets, NEW a \in Addresses, Push(b, a), nCount' = [nCount EXCEPT ![b] = @ - 1]
  PROVE  /\ freeList' \in [Buckets -> Addresses \cup {Null}]
         /\ pNext' \in [Addresses -> Addresses \cup {Null}]
         /\ nCount' \in [Buckets -> Int]
BY DEF TypeOK, Push

LEMMA DeallocateKeeps ==
  ASSUME IInv, NEW p \in Callers, NEW a \in Owned, Deallocate(p, a)
  PROVE  IInv' /\ Moves
<1>1. /\ a \in Blocks /\ a \in Addresses /\ a \in Held /\ TakeBack(a)
      /\ UNCHANGED <<nextBlock, nextPage, nSize, pages, taken>>
  BY DEF Deallocate, Owned, Held
<1>2. ASSUME NEW b \in BucketSizes, BelongsTo(b, a), Push(b, a), nCount' = [nCount EXCEPT ![b] = @ - 1]
      PROVE  IInv' /\ Moves
  <2>1. b \in Buckets
    BY DEF Buckets
  <2>2. a \in AllOf(b)
    BY <1>1, <1>2, <2>1, OneBucket DEF IInv, BelongsTo
  <2>3. Held' = Held \ {a} /\ (\A c : AllOf(c)' = AllOf(c)) => Lists' /\ CountsAreExact'
    BY <1>1, <1>2, <2>1, <2>2, IntoList
  <2>4. QED
    BY <1>1, <1>2, <2>1, <2>3, PushType, TakeBackKeeps DEF IInv
<1>3. CASE (\A b \in BucketSizes : ~BelongsTo(b, a)) /\ UNCHANGED <<freeList, pNext, nCount>>
  <2>1. \A c \in Buckets : a \notin AllOf(c)
    BY <1>1, <1>3, OneBucket DEF IInv, BelongsTo
  <2>2. ASSUME Held' = Held \ {a}, \A c : AllOf(c)' = AllOf(c)
        PROVE  Lists' /\ CountsAreExact'
    <3>1. \A c \in Buckets : FreeOf(c)' = FreeOf(c) /\ InUse(c)' = InUse(c)
      BY <2>1, <2>2, Sets
    <3>2. Lists'
      BY <1>3, <3>1, ListsStay DEF IInv
    <3>3. CountsAreExact'
      BY <1>1, <1>3, <3>1, CountsStay DEF IInv, NoneFailed
    <3>4. QED
      BY <3>2, <3>3
  <2>3. /\ freeList' \in [Buckets -> Addresses \cup {Null}]
        /\ pNext' \in [Addresses -> Addresses \cup {Null}] /\ nCount' \in [Buckets -> Int]
    BY <1>3 DEF IInv, TypeOK
  <2>4. QED
    BY <1>1, <2>2, <2>3, TakeBackKeeps
<1>4. QED
  BY <1>2, <1>3 DEF Deallocate

LEMMA DeallocatePageKeeps ==
  ASSUME IInv, NEW p \in Callers, NEW a \in Owned, DeallocatePage(p, a)
  PROVE  IInv' /\ Moves
<1>1. /\ a \in pages /\ a \in Addresses /\ a \in Held /\ TakeBack(a)
      /\ Push(PageBucket, a) /\ nCount' = [nCount EXCEPT ![PageBucket] = @ - 1]
      /\ UNCHANGED <<nextBlock, nextPage, nSize, pages, taken>>
  BY DEF DeallocatePage, Owned, Held
<1>2. PageBucket \in Buckets /\ a \in AllOf(PageBucket)
  BY <1>1 DEF AllOf, Buckets
<1>3. Held' = Held \ {a} /\ (\A c : AllOf(c)' = AllOf(c)) => Lists' /\ CountsAreExact'
  BY <1>1, <1>2, IntoList
<1>4. QED
  BY <1>1, <1>2, <1>3, PushType, TakeBackKeeps DEF IInv

\* A page gets a user.
LEMMA HandOutKeeps ==
  ASSUME IInv, NEW a \in Addresses, a \notin Held, HandOut(a), UNCHANGED <<nSize, taken>>
  PROVE  /\ Held' = Held \cup {a} /\ Owned' = Owned \cup {a} /\ Single' /\ UNCHANGED Blocks
         /\ users' \in [Addresses -> Nat]
<1>1. users[a] = 0 /\ \A q \in Callers : taken[q] # a
  BY Layout DEF Held, Owned, InTransit, IInv, Single
<1>2. Owned' = Owned \cup {a} /\ \A c \in Addresses : users'[c] = IF c = a THEN 1 ELSE users[c]
  BY <1>1, HeldByUsers DEF IInv
<1>3. Held' = Held \cup {a}
  BY <1>2 DEF Held, InTransit
<1>4. Single'
  <2>1. \A c \in Addresses : users'[c] \in {0, 1}
    BY <1>2 DEF IInv, Single
  <2>2. \A q \in Callers : taken'[q] # Null => users'[taken'[q]] = 0
    BY <1>1, <1>2 DEF IInv, TypeOK, Single
  <2>3. QED
    BY <2>1, <2>2 DEF IInv, Single
<1>5. users' \in [Addresses -> Nat] /\ UNCHANGED Blocks
  BY DEF IInv, TypeOK, HandOut, Blocks
<1>6. QED
  BY <1>2, <1>3, <1>4, <1>5

LEMMA ReusePageKeeps ==
  ASSUME IInv, freeList[PageBucket] # Null, HandOut(freeList[PageBucket]), Pop(PageBucket),
         CountUp(PageBucket), UNCHANGED <<nextPage, pages, nextBlock, nSize, taken>>
  PROVE  IInv' /\ Moves
<1> DEFINE a == freeList[PageBucket]
<1>1. PageBucket \in Buckets
  BY DEF Buckets
<1>2. a \in pages /\ a \notin Held /\ a \in Addresses
  <2>1. a \in FreeOf(PageBucket)
    BY <1>1, HeadIsFree DEF IInv
  <2>2. QED
    BY <2>1, Sets DEF AllOf, IInv, TypeOK
<1>3. /\ Held' = Held \cup {a} /\ Owned' = Owned \cup {a} /\ Single' /\ UNCHANGED Blocks
      /\ users' \in [Addresses -> Nat]
  BY <1>2, HandOutKeeps
<1>4. \A c : AllOf(c)' = AllOf(c)
  BY <1>3 DEF AllOf
<1>5. Lists' /\ CountsAreExact'
  BY <1>1, <1>3, <1>4, FromList
<1>6. TypeOK'
  <2>1. freeList' \in [Buckets -> Addresses \cup {Null}]
    BY <1>1, <1>2 DEF Pop, IInv, TypeOK
  <2>2. nCount' \in [Buckets -> Int] /\ UNCHANGED pNext
    BY <1>1 DEF Pop, CountUp, IInv, TypeOK
  <2>3. QED
    BY <1>2, <1>3, <2>1, <2>2 DEF IInv, TypeOK
<1>7. AllDisjoint' /\ Carved'
  BY <1>3 DEF IInv, AllDisjoint, Carved
<1>8. Moves
  BY <1>2, <1>3 DEF Moves, RangeOf
<1>9. QED
  BY <1>3, <1>5, <1>6, <1>7, <1>8 DEF IInv

LEMMA CarvePageKeeps ==
  ASSUME IInv, CountUp(PageBucket), nextPage + PageSize <= Limit + Overshoot,
         nextPage' = nextPage + PageSize, PageFits, pages' = pages \cup {nextPage}, HandOut(nextPage),
         UNCHANGED <<freeList, pNext, nextBlock, nSize, taken>>
  PROVE  IInv' /\ Moves
<1> DEFINE a == nextPage
<1>1. /\ a \in Nat /\ PageBase <= a /\ PageSize \in Nat \ {0} /\ a + PageSize <= Limit
      /\ nextPage' = a + PageSize /\ nextPage' \in PageBase .. Limit + Overshoot
      /\ Overshoot \in Nat
  BY Layout, ConstantsAssumption DEF IInv, TypeOK, PageFits
<1>2. a \in Addresses
  BY <1>1, Layout DEF Addresses
<1>3. \A c \in pages : c \in Nat /\ c + PageSize <= a /\ c # a
  BY <1>1, Layout DEF IInv, TypeOK, Carved
<1>4. a \notin Blocks
  <2>1. ASSUME a \in Blocks PROVE FALSE
    <3>1. a + HeaderSize + nSize[a] <= BlockLimit /\ nSize[a] \in Nat
      BY <2>1 DEF IInv, AllDisjoint, TypeOK
    <3>2. QED
      BY <1>1, <3>1, Layout DEF HeaderSize
  <2>2. QED
    BY <2>1
<1>5. a \notin Held /\ a \notin pages
  BY <1>3, <1>4, HeldIsKnown DEF IInv
<1>6. /\ Held' = Held \cup {a} /\ Owned' = Owned \cup {a} /\ Single' /\ UNCHANGED Blocks
      /\ users' \in [Addresses -> Nat]
  BY <1>2, <1>5, HandOutKeeps
<1> HIDE DEF a
<1>7. pages' = pages \cup {a}
  BY DEF a
<1>8. Lists' /\ CountsAreExact'
  <2>1. PageBucket \in Buckets /\ \A c \in Buckets : a \notin AllOf(c)
    BY <1>4, <1>5 DEF Buckets, AllOf
  <2>2. AllOf(PageBucket)' = AllOf(PageBucket) \cup {a}
    BY <1>7 DEF AllOf
  <2>3. \A c \in Buckets \ {PageBucket} : AllOf(c)' = AllOf(c)
    BY <1>6 DEF AllOf
  <2>4. NoneFailed' => NoneFailed
    BY <1>1, Layout DEF NoneFailed, a
  <2>5. QED
    BY <1>5, <1>6, <2>1, <2>2, <2>3, <2>4, FromPointer
<1>9. TypeOK'
  <2>1. nCount' \in [Buckets -> Int]
    <3>1. nCount \in [Buckets -> Int]
      BY DEF IInv, TypeOK
    <3>2. QED
      BY <3>1 DEF CountUp, Buckets
  <2>2. pages' \subseteq Addresses /\ Owned' \subseteq Blocks' \cup pages'
    BY <1>2, <1>6, <1>7 DEF IInv, TypeOK
  <2>3. QED
    BY <1>1, <1>6, <2>1, <2>2 DEF IInv, TypeOK
<1>10. AllDisjoint'
  <2>1. \A c \in pages' : PageBase <= c /\ c + PageSize <= Limit
    <3>1. \A c \in pages : PageBase <= c /\ c + PageSize <= Limit
      BY DEF IInv, AllDisjoint
    <3>2. PageBase <= a /\ a + PageSize <= Limit
      BY <1>1 DEF a
    <3>3. QED
      BY <1>7, <3>1, <3>2
  <2>2. \A c, e \in pages' : c < e => c + PageSize <= e
    <3> SUFFICES ASSUME NEW c \in pages', NEW e \in pages', c < e PROVE c + PageSize <= e
      OBVIOUS
    <3>1. CASE c \in pages /\ e \in pages
      BY <3>1 DEF IInv, AllDisjoint
    <3>2. CASE c \in pages /\ e = a
      BY <1>3, <3>2
    <3>3. CASE c = a
      BY <1>1, <1>3, <1>7, <3>3 DEF a
    <3>4. QED
      BY <1>7, <3>1, <3>2, <3>3
  <2>3. QED
    BY <1>6, <2>1, <2>2 DEF IInv, AllDisjoint
<1>11. Carved'
  <2>1. \A c \in pages' : c + PageSize <= nextPage'
    BY <1>1, <1>3, <1>7 DEF a
  <2>2. QED
    BY <1>6, <2>1 DEF IInv, Carved
<1>12. Moves
  BY <1>4, <1>5, <1>6 DEF Moves, RangeOf
<1>13. QED
  BY <1>6, <1>8, <1>9, <1>10, <1>11, <1>12 DEF IInv

LEMMA PageFailsKeeps ==
  ASSUME IInv, CountUp(PageBucket), nextPage + PageSize <= Limit + Overshoot,
         nextPage' = nextPage + PageSize, ~PageFits,
         UNCHANGED <<pages, users, freeList, pNext, nextBlock, nSize, taken>>
  PROVE  IInv' /\ Moves
<1>1. /\ nextPage \in Nat /\ PageSize \in Nat /\ Overshoot \in Nat
      /\ nextPage' \in PageBase .. Limit + Overshoot /\ nextPage' > Limit /\ nextPage <= nextPage'
  BY Layout, ConstantsAssumption DEF IInv, TypeOK, PageFits
<1>2. Held' = Held /\ (\A c : AllOf(c)' = AllOf(c)) /\ UNCHANGED <<Owned, Blocks>>
  BY DEF Held, Owned, InTransit, AllOf, Blocks
<1>3. Lists'
  BY <1>2, Sets, ListsStay DEF IInv
<1>4. CountsAreExact'
  <2>1. ~NoneFailed'
    BY <1>1, Layout DEF NoneFailed
  <2>2. QED
    BY <2>1, CountsStay DEF IInv
<1>5. TypeOK'
  <2>1. nCount' \in [Buckets -> Int]
    <3>1. nCount \in [Buckets -> Int]
      BY DEF IInv, TypeOK
    <3>2. QED
      BY <3>1 DEF CountUp, Buckets
  <2>2. QED
    BY <1>1, <1>2, <2>1 DEF IInv, TypeOK
<1>6. AllDisjoint' /\ Single'
  BY <1>2 DEF IInv, AllDisjoint, Single
<1>7. Carved'
  <2>1. \A c \in pages : c + PageSize <= nextPage'
    BY <1>1, Layout DEF IInv, TypeOK, Carved
  <2>2. QED
    BY <1>2, <2>1 DEF IInv, Carved
<1>8. Moves
  BY <1>2 DEF Moves, RangeOf
<1>9. QED
  BY <1>3, <1>4, <1>5, <1>6, <1>7, <1>8 DEF IInv

LEMMA AllocatePageKeeps ==
  ASSUME IInv, NEW p \in Callers, AllocatePage(p)
  PROVE  IInv' /\ Moves
<1>1. CountUp(PageBucket) /\ UNCHANGED <<nextBlock, nSize, taken>>
  BY DEF AllocatePage
<1>2. CASE /\ freeList[PageBucket] # Null
           /\ HandOut(freeList[PageBucket])
           /\ Pop(PageBucket)
           /\ UNCHANGED <<nextPage, pages>>
  BY <1>1, <1>2, ReusePageKeeps
<1>3. CASE /\ nextPage + PageSize <= Limit + Overshoot
           /\ nextPage' = nextPage + PageSize
           /\ PageFits /\ pages' = pages \cup {nextPage} /\ HandOut(nextPage)
           /\ UNCHANGED <<freeList, pNext>>
  BY <1>1, <1>3, CarvePageKeeps
<1>4. CASE /\ nextPage + PageSize <= Limit + Overshoot
           /\ nextPage' = nextPage + PageSize
           /\ ~PageFits /\ UNCHANGED <<pages, users>>
           /\ UNCHANGED <<freeList, pNext>>
  BY <1>1, <1>4, PageFailsKeeps
<1>5. QED
  BY <1>2, <1>3, <1>4 DEF AllocatePage

-----------------------------------------------------------------------------

LEMMA InitEstablishes == Init => IInv
<1> SUFFICES ASSUME Init PROVE IInv
  OBVIOUS
<1>1. /\ nextBlock = Base /\ nextPage = PageBase /\ nSize = <<>> /\ pages = {}
      /\ freeList = [b \in Buckets |-> Null] /\ pNext = [a \in Addresses |-> Null]
      /\ nCount = [b \in Buckets |-> 0] /\ taken = [p \in Callers |-> Null]
      /\ users = [a \in Addresses |-> 0]
  BY DEF Init
<1>2. Blocks = {} /\ nSize \in [Blocks -> Nat]
  BY <1>1 DEF Blocks
<1>3. Owned = {}
  BY <1>1 DEF Owned
<1>4. TypeOK
  <2>1. Overshoot \in Nat
    BY ConstantsAssumption
  <2>2. nextBlock \in Base .. BlockLimit + Overshoot /\ nextPage \in PageBase .. Limit + Overshoot
    BY <1>1, <2>1, Layout
  <2>3. /\ freeList \in [Buckets -> Addresses \cup {Null}] /\ pNext \in [Addresses -> Addresses \cup {Null}]
        /\ nCount \in [Buckets -> Int] /\ taken \in [Callers -> Blocks \cup {Null}]
        /\ users \in [Addresses -> Nat]
    BY <1>1
  <2>4. QED
    BY <1>1, <1>2, <1>3, <2>2, <2>3 DEF TypeOK
<1>5. AllDisjoint /\ Carved
  BY <1>1, <1>2, Layout DEF AllDisjoint, Carved
<1>6. Single
  BY <1>1 DEF Single
<1>7. \A b \in Buckets : FreeOf(b) = {} /\ InUse(b) = {}
  BY <1>1, <1>2, Sets DEF AllOf
<1>8. Lists
  <2> SUFFICES ASSUME NEW b \in Buckets
               PROVE  \E m \in Nat : \E f \in [0 .. m -> Addresses \cup {Null}] : Chained(b, m, f)
    BY DEF Lists
  <2> DEFINE f == [i \in 0 .. 0 |-> Null]
  <2>1. f \in [0 .. 0 -> Addresses \cup {Null}] /\ f[0] = Null
    OBVIOUS
  <2>2. freeList[b] = Null /\ FreeOf(b) = {}
    BY <1>1, <1>7
  <2> HIDE DEF f
  <2>3. Chained(b, 0, f)
    BY <2>1, <2>2 DEF Chained
  <2>4. QED
    BY <2>1, <2>3
<1>9. CountsAreExact
  BY <1>1, <1>7, FS_EmptySet DEF CountsAreExact
<1>10. QED
  BY <1>4, <1>5, <1>6, <1>8, <1>9 DEF IInv

LEMMA StepKeeps ==
  ASSUME IInv, [Next]_vars
  PROVE  IInv' /\ Moves
<1>1. CASE UNCHANGED vars
  <2>1. /\ UNCHANGED <<nextBlock, nextPage, nSize, pages, freeList, pNext, nCount, taken, users>>
        /\ UNCHANGED <<Blocks, Owned, InTransit>> /\ \A b : UNCHANGED <<AllOf(b), FreeOf(b), InUse(b)>>
    BY <1>1 DEF vars, Blocks, Owned, InTransit, AllOf, FreeOf, InUse
  <2>2. TypeOK' /\ AllDisjoint' /\ Carved' /\ Single'
    BY <2>1 DEF IInv, TypeOK, AllDisjoint, Carved, Single
  <2>3. Lists'
    BY <2>1, ListsStay DEF IInv
  <2>4. CountsAreExact'
    BY <2>1 DEF IInv, CountsAreExact
  <2>5. Moves
    BY <2>1 DEF Moves, Held, RangeOf
  <2>6. QED
    BY <2>2, <2>3, <2>4, <2>5 DEF IInv
<1>2. ASSUME NEW p \in Callers, CallerNext(p) PROVE IInv' /\ Moves
  <2>1. ASSUME NEW n \in RequestSizes, Allocate(p, n) PROVE IInv' /\ Moves
    BY <2>1, AllocateKeeps
  <2>2. CASE ReturnBlock(p)
    BY <2>2, ReturnKeeps
  <2>3. ASSUME NEW a \in Owned, Deallocate(p, a) PROVE IInv' /\ Moves
    BY <2>3, DeallocateKeeps
  <2>4. ASSUME NEW a \in Owned, DeallocatePage(p, a) PROVE IInv' /\ Moves
    BY <2>4, DeallocatePageKeeps
  <2>5. CASE AllocatePage(p)
    BY <2>5, AllocatePageKeeps
  <2>6. QED
    BY <1>2, <2>1, <2>2, <2>3, <2>4, <2>5 DEF CallerNext
<1>3. QED
  BY <1>1, <1>2 DEF Next

(***************************************************************************)
(* Whatever callers ask for and give back, in any order and also between   *)
(* the two sections of Allocate: the types, the disjoint ranges, the lists *)
(* as chains of exactly what is free, and the exact counters.              *)
(***************************************************************************)
THEOREM Invariance == Spec => []IInv
<1>1. Init => IInv
  BY InitEstablishes
<1>2. IInv /\ [Next]_vars => IInv'
  BY StepKeeps
<1>3. QED
  BY <1>1, <1>2, PTL DEF Spec

(***************************************************************************)
(* Memory.cpp never loses a block or page, never has it in two lists or in *)
(* a list and in use, never lets two overlap and never miscounts (a failed *)
(* request apart).                                                         *)
(***************************************************************************)
THEOREM HeapStaysSound == Spec => []HeapIsSound
<1>1. IInv => HeapIsSound
  BY ListsAreExact DEF IInv, HeapIsSound
<1>2. QED
  BY <1>1, Invariance, PTL

-----------------------------------------------------------------------------
(* The abstract heap.                                                        *)

Ones(S) == [r \in S |-> 1]

\* The bag that the refinement mapping gives to the abstract heap.
HeldRanges == [r \in Allocated |-> Uses(r.from)]

Apart ==
  /\ HeldRanges = Ones(Allocated)
  /\ \A a \in Held : RangeOf(a) \in Abstract!Ranges /\ RangeOf(a).from = a
  /\ \A a, c \in Held : a # c => ~Abstract!Overlap(RangeOf(a), RangeOf(c))

LEMMA UsedOnce ==
  ASSUME IInv, NEW a \in Held
  PROVE  Uses(a) = 1
<1> DEFINE T == {p \in Callers : taken[p] = a}
<1>1. a \in Addresses /\ a # Null /\ users[a] \in {0, 1}
  BY HeldIsKnown, Layout DEF IInv, Single
<1>2. CASE a \in Owned
  <2>1. users[a] = 1 /\ T = {}
    BY <1>1, <1>2 DEF Owned, IInv, Single
  <2>2. QED
    BY <2>1, FS_EmptySet DEF Uses
<1>3. CASE a \notin Owned
  <2>1. PICK p \in Callers : taken[p] = a
    BY <1>3 DEF Held, InTransit
  <2>2. users[a] = 0 /\ T = {p}
    BY <1>1, <2>1 DEF IInv, Single
  <2>3. Cardinality({p}) = 1
    BY FS_Singleton
  <2>4. QED
    BY <2>2, <2>3 DEF Uses
<1>4. QED
  BY <1>2, <1>3

LEMMA BlockBeforePage ==
  ASSUME IInv, NEW a \in Blocks, NEW c \in pages
  PROVE  a \in Nat /\ nSize[a] \in Nat /\ a + HeaderSize + nSize[a] <= c /\ c \in Nat
<1>1. a + HeaderSize + nSize[a] <= BlockLimit /\ PageBase <= c
  BY DEF IInv, AllDisjoint
<1>2. a \in Nat /\ nSize[a] \in Nat /\ c \in Nat
  BY Layout DEF IInv, TypeOK
<1>3. QED
  BY <1>1, <1>2, Layout DEF HeaderSize

LEMMA RangesAreApart ==
  ASSUME IInv
  PROVE  Apart
<1>1. \A a \in Held : /\ a \in Nat
                      /\ \/ a \in Blocks /\ RangeOf(a) = [from |-> a, to |-> a + nSize[a]] /\ nSize[a] \in Nat
                         \/ a \in pages /\ RangeOf(a) = [from |-> a, to |-> a + PageSize - 1]
  BY HeldIsKnown, Layout DEF RangeOf, IInv, TypeOK
<1>2. PageSize \in Nat \ {0}
  BY ConstantsAssumption
<1>3. ASSUME NEW a \in Held PROVE RangeOf(a) \in Abstract!Ranges /\ RangeOf(a).from = a
  <2>1. CASE a \in Blocks /\ RangeOf(a) = [from |-> a, to |-> a + nSize[a]] /\ nSize[a] \in Nat
    <3>1. Base <= a /\ a + HeaderSize + nSize[a] <= BlockLimit
      BY <2>1 DEF IInv, AllDisjoint
    <3>2. a \in Base .. Limit /\ a + nSize[a] \in Base .. Limit /\ a <= a + nSize[a]
      BY <1>1, <2>1, <3>1, Layout DEF HeaderSize
    <3>3. QED
      BY <2>1, <3>2 DEF Abstract!Ranges
  <2>2. CASE a \in pages /\ RangeOf(a) = [from |-> a, to |-> a + PageSize - 1]
    <3>1. PageBase <= a /\ a + PageSize <= Limit
      BY <2>2 DEF IInv, AllDisjoint
    <3>2. a \in Base .. Limit /\ a + PageSize - 1 \in Base .. Limit /\ a <= a + PageSize - 1
      BY <1>1, <1>2, <2>2, <3>1, Layout
    <3>3. QED
      BY <2>2, <3>2 DEF Abstract!Ranges
  <2>3. QED
    BY <1>1, <2>1, <2>2
<1>4. ASSUME NEW a \in Held, NEW c \in Held, a < c
      PROVE  RangeOf(a).to < RangeOf(c).from
  <2>1. RangeOf(c).from = c
    BY <1>3
  <2>2. CASE a \in Blocks /\ RangeOf(a) = [from |-> a, to |-> a + nSize[a]] /\ nSize[a] \in Nat
    <3>1. CASE c \in Blocks
      BY <1>1, <1>4, <2>1, <2>2, <3>1 DEF IInv, AllDisjoint, HeaderSize
    <3>2. CASE c \in pages
      BY <1>1, <2>1, <2>2, <3>2, BlockBeforePage DEF HeaderSize
    <3>3. QED
      BY <1>1, <3>1, <3>2
  <2>3. CASE a \in pages /\ RangeOf(a) = [from |-> a, to |-> a + PageSize - 1]
    <3>1. CASE c \in Blocks
      <4>1. c + HeaderSize + nSize[c] <= a /\ nSize[c] \in Nat
        BY <2>3, <3>1, BlockBeforePage
      <4>2. QED
        BY <1>1, <1>4, <4>1 DEF HeaderSize
    <3>2. CASE c \in pages
      <4>1. a + PageSize <= c
        BY <1>4, <2>3, <3>2 DEF IInv, AllDisjoint
      <4>2. QED
        BY <1>1, <1>2, <2>1, <2>3, <4>1
    <3>3. QED
      BY <1>1, <3>1, <3>2
  <2>4. QED
    BY <1>1, <2>2, <2>3
<1>5. ASSUME NEW a \in Held, NEW c \in Held, a # c
      PROVE  ~Abstract!Overlap(RangeOf(a), RangeOf(c))
  <2>1. /\ RangeOf(a).from \in Nat /\ RangeOf(a).to \in Nat
        /\ RangeOf(c).from \in Nat /\ RangeOf(c).to \in Nat
    BY <1>1, <1>2
  <2>2. a < c \/ c < a
    BY <1>1, <1>5
  <2>3. QED
    BY <1>4, <2>1, <2>2 DEF Abstract!Overlap
<1>6. HeldRanges = Ones(Allocated)
  <2>1. \A r \in Allocated : Uses(r.from) = 1
    BY <1>3, UsedOnce DEF Allocated, Held
  <2>2. QED
    BY <2>1 DEF HeldRanges, Ones
<1>7. QED
  BY <1>3, <1>5, <1>6 DEF Apart

LEMMA StepImplements ==
  ASSUME Apart, Apart', Moves
  PROVE  Abstract!Next \/ UNCHANGED HeldRanges
<1>1. Allocated = {RangeOf(a) : a \in Held} /\ Allocated' = {RangeOf(a)' : a \in Held'}
  BY DEF Allocated, Held
<1>2. HeldRanges = Ones(Allocated) /\ HeldRanges' = Ones(Allocated')
  BY DEF Apart, Ones
<1>3. CASE Held' = Held
  <2>1. Allocated' = Allocated
    BY <1>1, <1>3 DEF Moves
  <2>2. QED
    BY <1>2, <2>1
<1>4. ASSUME NEW a \in Held', a \notin Held, Held' = Held \cup {a}
      PROVE  Abstract!Next
  <2> DEFINE r == RangeOf(a)'
  <2>1. Allocated' = Allocated \cup {r}
    BY <1>1, <1>4 DEF Moves
  <2>2. r \in Abstract!Ranges /\ \A s \in Allocated : ~Abstract!Overlap(r, s)
    <3>1. r \in Abstract!Ranges
      BY <1>4 DEF Apart
    <3>2. ASSUME NEW c \in Held PROVE ~Abstract!Overlap(r, RangeOf(c))
      <4>1. c \in Held' /\ a # c /\ RangeOf(c)' = RangeOf(c)
        BY <1>4 DEF Moves
      <4>2. QED
        BY <1>4, <4>1 DEF Apart, Abstract!Overlap
    <3>3. QED
      BY <1>1, <3>1, <3>2
  <2>3. r \notin Allocated
    <3>1. r.from = a /\ \A c \in Held : RangeOf(c).from = c
      BY <1>4 DEF Apart
    <3>2. QED
      BY <1>1, <1>4, <3>1
  <2> HIDE DEF r
  <2>4. Ones(Allocated') = Abstract!(+)(Ones(Allocated), Abstract!SetToBag({r}))
    BY <2>1, <2>3 DEF Ones, Abstract!(+), Abstract!SetToBag
  <2>5. Abstract!Allocate(r)
    BY <1>2, <2>2, <2>4 DEF Abstract!Allocate, Abstract!BagToSet, Ones, HeldRanges
  <2>6. r \in Abstract!BagToSet(HeldRanges)'
    BY <1>2, <2>1 DEF Abstract!BagToSet, Ones
  <2>7. QED
    BY <2>5, <2>6 DEF Abstract!Next, HeldRanges
<1>5. ASSUME NEW a \in Held, Held' = Held \ {a}
      PROVE  Abstract!Next
  <2> DEFINE r == RangeOf(a)
  <2>1. Allocated' = Allocated \ {r}
    <3>1. \A c \in Held : RangeOf(c).from = c
      BY DEF Apart
    <3>2. QED
      BY <1>1, <1>5, <3>1 DEF Moves
  <2>2. r \in Allocated
    BY <1>1
  <2> HIDE DEF r
  <2>3. Ones(Allocated') = Abstract!(-)(Ones(Allocated), Abstract!SetToBag({r}))
    BY <2>1, <2>2 DEF Ones, Abstract!(-), Abstract!SetToBag
  <2>4. Abstract!Deallocate(r) /\ r \in Abstract!BagToSet(HeldRanges)
    BY <1>2, <2>2, <2>3 DEF Abstract!Deallocate, Abstract!BagIn, Abstract!BagToSet, Ones, HeldRanges
  <2>5. QED
    BY <2>4 DEF Abstract!Next, HeldRanges
<1>6. QED
  BY <1>3, <1>4, <1>5 DEF Moves

(***************************************************************************)
(* Every step of Memory.cpp is a step of the abstract heap or none: a      *)
(* range is handed out only while it overlaps nothing else that is         *)
(* allocated, and is gone when it is given back.                           *)
(***************************************************************************)
THEOREM HeapImplements == Spec => ImplementsHeap
<1>1. Init => Abstract!Init
  <2> SUFFICES ASSUME Init PROVE Abstract!Init
    OBVIOUS
  <2>1. Owned = {} /\ InTransit = {}
    BY DEF Init, Owned, InTransit
  <2>2. Allocated = {}
    BY <2>1 DEF Allocated
  <2>3. QED
    BY <2>2 DEF Abstract!Init, Abstract!EmptyBag, Abstract!SetToBag
<1>2. IInv => Apart
  BY RangesAreApart
<1>3. IInv /\ Apart /\ Apart' /\ [Next]_vars =>
        [Abstract!Next]_([r \in Allocated |-> Uses(r.from)])
  BY StepKeeps, StepImplements DEF HeldRanges
<1>4. QED
  BY <1>1, <1>2, <1>3, Invariance, PTL DEF Spec, ImplementsHeap, Abstract!Spec
=============================================================================
