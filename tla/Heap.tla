-------------------------------- MODULE Heap --------------------------------
(***************************************************************************)
(* What a heap promises: an allocation is a range of memory that overlaps  *)
(* no other allocation until it is given back.                             *)
(***************************************************************************)
EXTENDS Integers, Bags

CONSTANTS First, Last  (* the memory the heap may hand out *)

VARIABLE held  (* the bag of the ranges that are allocated *)

Ranges == {r \in [from : First .. Last, to : First .. Last] : r.from <= r.to}

Overlap(r, s) == r.from <= s.to /\ s.from <= r.to

Init == held = EmptyBag

Allocate(r) ==
  /\ r \in Ranges
  /\ \A s \in BagToSet(held) : ~Overlap(r, s)
  /\ held' = held (+) SetToBag({r})

Deallocate(r) ==
  /\ BagIn(r, held)
  /\ held' = held (-) SetToBag({r})

\* The range that is allocated is one that held' has.
Next ==
  \/ \E r \in BagToSet(held') : Allocate(r)
  \/ \E r \in BagToSet(held) : Deallocate(r)

Spec == Init /\ [][Next]_held
=============================================================================
