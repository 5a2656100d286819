------------------------------ MODULE DmaHeap ------------------------------
(***************************************************************************)
(* heap_alloc of gd_xhci.c: rings and contexts for the controller come out *)
(* of one mapped piece of memory, one behind the other, and are never      *)
(* given back.  The controller requires an alignment, and that a block     *)
(* does not cross a boundary.                                              *)
(***************************************************************************)
EXTENDS Integers

CONSTANT HEAP_SIZE  \* the last offset that is mapped

HEAP_START == 16777216

ASSUME HeapSizeAssumption == HEAP_SIZE \in Nat

(* (n + (a - 1)) & ~(a - 1), where a is a power of two. *)
Slip_AlignUp(n, a) == (n \div a) * a
AlignUp(n, a) == ((n + (a - 1)) \div a) * a

Dwords(size) == AlignUp(size, 4)

(* Where heap_alloc puts the block when cur_heap_ptr is ptr. *)
BlockAt(ptr, size, alignment, boundary) ==
  LET cur == AlignUp(ptr, alignment)
  IN  IF boundary > 0 /\ cur + Dwords(size) > boundary THEN AlignUp(cur, boundary) ELSE cur

BlockEnd(ptr, size, alignment, boundary) ==
  BlockAt(ptr, size, alignment, boundary) + Dwords(size)

(* heap_alloc prints an error and exits. *)
OutOfBounds(ptr, size, alignment, boundary) ==
  \/ BlockEnd(ptr, size, alignment, boundary) - 1 >= HEAP_SIZE
  \/ boundary > 0 /\ Dwords(size) > boundary
=============================================================================
