---------------------------- MODULE AbstractHeap ----------------------------
(***************************************************************************)
(* What a heap promises its callers, whatever it is made of: the blocks    *)
(* they hold share no byte.  A block is a run of bytes of one bucket.      *)
(***************************************************************************)
EXTENDS Integers

CONSTANT Places   \* the regions blocks can lie in

VARIABLE blocks   \* the blocks callers hold

Disjoint(x, y) == x.place = y.place => x.to <= y.from \/ y.to <= x.from

Init == blocks = {}

(* kmalloc, or the end of a realloc: one more block, apart from the others. *)
Allocate ==
  \E x \in blocks' \ blocks :
    /\ blocks' = blocks \cup {x}
    /\ x.place \in Places /\ x.from < x.to
    /\ \A y \in blocks : Disjoint(x, y)

(* mfree, or the beginning of a realloc that moves. *)
Free == \E x \in blocks : blocks' = blocks \ {x}

(* A realloc in place: the block keeps its address. *)
Resize ==
  \E x \in blocks, y \in blocks' :
    /\ blocks' = (blocks \ {x}) \cup {y}
    /\ y.place = x.place /\ y.from = x.from /\ y.from < y.to
    /\ \A z \in blocks \ {x} : Disjoint(y, z)

Next == Allocate \/ Free \/ Resize

Spec == Init /\ [][Next]_blocks

(* The promise as an invariant. *)
Apart == \A x, y \in blocks : x = y \/ Disjoint(x, y)
=============================================================================
