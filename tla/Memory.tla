------------------------------- MODULE Memory -------------------------------
(***************************************************************************)
(* The kernel heap (Memory.cpp): a region of blocks and a region of pages, *)
(* both handed out from a pointer that only moves up, and free lists, one  *)
(* for every size of block and one for the pages, that keep what was given *)
(* back.  Addresses and sizes are in units of BLOCK_ALIGN; the header of a *)
(* block is one unit.                                                      *)
(***************************************************************************)
EXTENDS Integers, FiniteSets

CONSTANTS
  ArmBase, ArmSize, (* the memory the firmware reports                      *)
  HeapStart,        (* MEM_HEAP_START                                       *)
  PageSize,         (* PAGE_SIZE                                            *)
  BucketSizes,      (* the sizes of s_BlockBucket                           *)
  RequestSizes,     (* the sizes Allocate is called with                    *)
  Overshoot,        (* how far failed requests push a pointer past its limit*)
  Callers,          (* contexts that use the heap and preempt each other    *)
  Null, PageBucket

HeaderSize == 1

-----------------------------------------------------------------------------
(* The layout, from Initialize.                                              *)

Base       == IF ArmBase < HeapStart THEN HeapStart ELSE ArmBase
Limit      == ArmBase + ArmSize
BlockLimit == Base + (Limit - Base) \div 4
PageBase   == ((BlockLimit + PageSize) \div PageSize) * PageSize

Addresses == Base .. Limit
Buckets   == BucketSizes \cup {PageBucket}

ASSUME ConstantsAssumption ==
  /\ ArmBase \in Nat /\ ArmSize \in Nat /\ HeapStart \in Nat
  /\ PageSize \in Nat \ {0}
  /\ Base <= Limit /\ PageBase <= Limit  \* enough memory for the heap
  /\ BucketSizes \subseteq Nat \ {0} /\ RequestSizes \subseteq Nat \ {0}
  /\ Overshoot \in Nat
  /\ Null \notin Addresses /\ PageBucket \notin BucketSizes

VARIABLES
  nextBlock, nextPage, (* s_pNextBlock and s_pNextPage                      *)
  nSize,               (* the headers of the blocks carved so far           *)
  pages,               (* the pages carved so far                           *)
  freeList,            (* pFreeList of every bucket                         *)
  pNext,               (* the link in every block and page                  *)
  nCount,              (* nCount of every bucket                            *)
  taken,               (* the block a caller has taken and not returned yet *)
  users                (* how many users hold each block and page           *)

vars == <<nextBlock, nextPage, nSize, pages, freeList, pNext, nCount, taken, users>>

Blocks == DOMAIN nSize

Init ==
  /\ nextBlock = Base /\ nextPage = PageBase
  /\ nSize = <<>> /\ pages = {}
  /\ freeList = [b \in Buckets |-> Null]
  /\ pNext = [a \in Addresses |-> Null]
  /\ nCount = [b \in Buckets |-> 0]
  /\ taken = [p \in Callers |-> Null]
  /\ users = [a \in Addresses |-> 0]

-----------------------------------------------------------------------------
(* Allocate.  The bucket is the smallest one that is large enough.           *)

IsBucketFor(b, n) ==
  b \in BucketSizes /\ n <= b /\ \A other \in BucketSizes : n <= other => b <= other

TooLarge(n) == \A b \in BucketSizes : b < n

Ready(p) == taken[p] = Null

\* What a user was given and has not given back.
Owned == {a \in Addresses : users[a] > 0}

HandOut(a)  == users' = [users EXCEPT ![a] = @ + 1]
TakeBack(a) == users' = [users EXCEPT ![a] = @ - 1]

CountUp(b) == nCount' = [nCount EXCEPT ![b] = @ + 1]

\* Slip: the first element stays in the list.
PopNothing(b) == UNCHANGED <<freeList, pNext>>

Pop(b) == freeList' = [freeList EXCEPT ![b] = pNext[@]] /\ UNCHANGED pNext

ReuseBlock(p, b) ==
  /\ freeList[b] # Null
  /\ taken' = [taken EXCEPT ![p] = freeList[b]]
  /\ Pop(b)
  /\ UNCHANGED <<nextBlock, nSize>>

BlockEnd(n) == nextBlock + HeaderSize + n

(***************************************************************************)
(* A new block of n units.  The pointer has moved before the limit is      *)
(* looked at, and is not moved back.                                       *)
(***************************************************************************)
CarveBlock(p, n) ==
  /\ BlockEnd(n) <= BlockLimit + Overshoot
  /\ nextBlock' = BlockEnd(n)
  /\ IF BlockEnd(n) <= BlockLimit
     THEN /\ nSize' = [a \in Blocks \cup {nextBlock} |-> IF a = nextBlock THEN n ELSE nSize[a]]
          /\ taken' = [taken EXCEPT ![p] = nextBlock]
     ELSE UNCHANGED <<nSize, taken>>
  /\ UNCHANGED <<freeList, pNext>>

Allocate(p, n) ==
  /\ Ready(p)
  /\ \/ /\ TooLarge(n)
        /\ CarveBlock(p, n)
        /\ UNCHANGED nCount
     \/ \E b \in BucketSizes :
          /\ IsBucketFor(b, n)
          /\ CountUp(b)
          /\ ReuseBlock(p, b) \/ (freeList[b] = Null /\ CarveBlock(p, b))
  /\ UNCHANGED <<nextPage, pages, users>>

\* After the critical section: the link is cleared and the block returned.
ReturnBlock(p) ==
  /\ ~Ready(p)
  /\ pNext' = [pNext EXCEPT ![taken[p]] = Null]
  /\ HandOut(taken[p])
  /\ taken' = [taken EXCEPT ![p] = Null]
  /\ UNCHANGED <<nextBlock, nextPage, nSize, pages, freeList, nCount>>

-----------------------------------------------------------------------------
(* Deallocate.                                                               *)

\* Slip: the rest of the list is not linked behind its new first element.
PushAlone(b, a) == freeList' = [freeList EXCEPT ![b] = a] /\ UNCHANGED pNext

Push(b, a) ==
  /\ pNext' = [pNext EXCEPT ![a] = freeList[b]]
  /\ freeList' = [freeList EXCEPT ![b] = a]

\* Slip: the block goes to the smallest bucket of at least its size.
FreedTo(b, a) == b <= nSize[a]

\* A block of no bucket's size is forgotten.
BelongsTo(b, a) == b = nSize[a]

Deallocate(p, a) ==
  /\ Ready(p) /\ a \in Blocks
  /\ TakeBack(a)
  /\ \/ \E b \in BucketSizes :
          /\ BelongsTo(b, a)
          /\ Push(b, a)
          /\ nCount' = [nCount EXCEPT ![b] = @ - 1]
     \/ /\ \A b \in BucketSizes : ~BelongsTo(b, a)
        /\ UNCHANGED <<freeList, pNext, nCount>>
  /\ UNCHANGED <<nextBlock, nextPage, nSize, pages, taken>>

-----------------------------------------------------------------------------
(* Pages.                                                                    *)

PageFits == nextPage + PageSize <= Limit

AllocatePage(p) ==
  /\ Ready(p)
  /\ CountUp(PageBucket)
  /\ \/ /\ freeList[PageBucket] # Null
        /\ HandOut(freeList[PageBucket])
        /\ Pop(PageBucket)
        /\ UNCHANGED <<nextPage, pages>>
     \/ /\ freeList[PageBucket] = Null
        /\ nextPage + PageSize <= Limit + Overshoot
        /\ nextPage' = nextPage + PageSize
        /\ IF PageFits
           THEN pages' = pages \cup {nextPage} /\ HandOut(nextPage)
           ELSE UNCHANGED <<pages, users>>
        /\ UNCHANGED <<freeList, pNext>>
  /\ UNCHANGED <<nextBlock, nSize, taken>>

DeallocatePage(p, a) ==
  /\ Ready(p) /\ a \in pages
  /\ TakeBack(a)
  /\ Push(PageBucket, a)
  /\ nCount' = [nCount EXCEPT ![PageBucket] = @ - 1]
  /\ UNCHANGED <<nextBlock, nextPage, nSize, pages, taken>>

-----------------------------------------------------------------------------

\* A caller gives back only what it was given, and once: nothing checks it.
CallerNext(p) ==
  \/ \E n \in RequestSizes : Allocate(p, n)
  \/ ReturnBlock(p)
  \/ \E a \in Owned : Deallocate(p, a) \/ DeallocatePage(p, a)
  \/ AllocatePage(p)

Next == \E p \in Callers : CallerNext(p)

Spec == Init /\ [][Next]_vars

-----------------------------------------------------------------------------

TypeOK ==
  /\ nextBlock \in Base .. BlockLimit + Overshoot
  /\ nextPage \in PageBase .. Limit + Overshoot
  /\ Blocks \subseteq Addresses /\ nSize \in [Blocks -> Nat]
  /\ pages \subseteq Addresses
  /\ freeList \in [Buckets -> Addresses \cup {Null}]
  /\ pNext \in [Addresses -> Addresses \cup {Null}]
  /\ nCount \in [Buckets -> Int]
  /\ taken \in [Callers -> Blocks \cup {Null}]
  /\ users \in [Addresses -> Nat] /\ Owned \subseteq Blocks \cup pages

-----------------------------------------------------------------------------

(***************************************************************************)
(* Blocks and pages never overlap and stay inside their regions, whatever  *)
(* was given back and reused, and also after a request that failed.        *)
(***************************************************************************)
AllDisjoint ==
  /\ \A a \in Blocks : Base <= a /\ a + HeaderSize + nSize[a] <= BlockLimit
  /\ \A a, c \in Blocks : a < c => a + HeaderSize + nSize[a] <= c
  /\ \A a \in pages : PageBase <= a /\ a + PageSize <= Limit
  /\ \A a, c \in pages : a < c => a + PageSize <= c
  /\ BlockLimit <= PageBase

InTransit == {taken[p] : p \in Callers} \ {Null}

FreeOf(b) ==
  (IF b = PageBucket THEN pages ELSE {a \in Blocks : nSize[a] = b}) \ (Owned \cup InTransit)

\* The n-th element of a free list, counted from 0; Null behind its end.
Element(b, n) ==
  LET at[i \in 0 .. n] ==
        IF i = 0 THEN freeList[b] ELSE IF at[i - 1] = Null THEN Null ELSE pNext[at[i - 1]]
  IN  at[n]

(***************************************************************************)
(* Every free list holds exactly the free blocks of its size, each once:   *)
(* none is lost, none is in two lists or in use, no list runs in a circle, *)
(* although Allocate clears pNext when it has left its critical section.   *)
(***************************************************************************)
FreeListsAreExact ==
  \A b \in Buckets :
    LET length == Cardinality(FreeOf(b))
    IN  /\ {Element(b, n) : n \in 0 .. length} = FreeOf(b) \cup {Null}
        /\ Element(b, length) = Null

(***************************************************************************)
(* nCount is the number of blocks of a bucket in use, as long as no        *)
(* request failed: a failed one is counted as well.                        *)
(***************************************************************************)
InUse(b) ==
  (IF b = PageBucket THEN pages ELSE {a \in Blocks : nSize[a] = b}) \cap (Owned \cup InTransit)

CountsAreExact ==
  nextBlock <= BlockLimit /\ nextPage <= Limit =>
    \A b \in Buckets : nCount[b] = Cardinality(InUse(b))

\* What holds of the allocator at any time, also between the two sections of Allocate.
HeapIsSound == TypeOK /\ AllDisjoint /\ FreeListsAreExact /\ CountsAreExact

-----------------------------------------------------------------------------

\* The users of a block or page, and the caller that is about to be one.
Uses(a) == users[a] + Cardinality({p \in Callers : taken[p] = a})

RangeOf(a) ==
  IF a \in Blocks THEN [from |-> a, to |-> a + nSize[a]]
                  ELSE [from |-> a, to |-> a + PageSize - 1]

Allocated == {RangeOf(a) : a \in Owned \cup InTransit}

Abstract == INSTANCE Heap
  WITH First <- Base, Last <- Limit, held <- [r \in Allocated |-> Uses(r.from)]

(***************************************************************************)
(* What is allocated, header and data, has one user and overlaps nothing   *)
(* else that is allocated, until it is given back.                         *)
(***************************************************************************)
ImplementsHeap == Abstract!Spec
=============================================================================
