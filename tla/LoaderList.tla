----------------------------- MODULE LoaderList -----------------------------
(***************************************************************************)
(* The list of memory blocks of the loader's heap, loader/lib/malloc.c, as *)
(* a function from the address of a header to the header, and what is      *)
(* promised of it.  Both links are kept as the code keeps them.            *)
(***************************************************************************)
EXTENDS Integers, Sequences

CONSTANTS
  mem_init,      \* the regions, a sequence of [base, magic]
  MEM_END,
  RequestSizes   \* what is asked for

HEADER         == 16
MIN_CHUNK_SIZE == 64

(* Regions ascend, and each has room for its header. *)
Base(i) == IF i \in DOMAIN mem_init THEN mem_init[i].base ELSE MEM_END

ASSUME RegionsAssumption ==
  /\ mem_init \in Seq([base : Nat \ {0}, magic : {"USED", "FREE"}]) /\ mem_init # <<>>
  /\ MEM_END \in Nat
  /\ \A i \in DOMAIN mem_init : Base(i) + HEADER <= Base(i + 1)
  /\ \A i, j \in DOMAIN mem_init : i < j => Base(i + 1) <= Base(j)

ASSUME RequestAssumption == RequestSizes \subseteq Nat \ {0}

VARIABLES
  mcb,   \* the headers in memory, by address
  live   \* what the callers hold: numbered pairs of pointer and size

NULL == 0

-----------------------------------------------------------------------------
NewNext(m, b, size) == b + size + HEADER

NewBlock(m, b, size) ==
  [magic |-> "FREE", size |-> m[b].size - size - HEADER, prev |-> b, next |-> m[b].next]

Slip_malloc_split_block(m, b, size) ==
  [a \in DOMAIN m \cup {NewNext(m, b, size)} |->
    IF a = NewNext(m, b, size) THEN NewBlock(m, b, size)
    ELSE [m[a] EXCEPT !.next = IF a = b THEN NewNext(m, b, size) ELSE @,
                      !.size = IF a = b THEN size ELSE @]]
malloc_split_block(m, b, size) ==
  [a \in DOMAIN m \cup {NewNext(m, b, size)} |->
    IF a = NewNext(m, b, size) THEN NewBlock(m, b, size)
    ELSE [m[a] EXCEPT !.prev = IF a = m[b].next THEN NewNext(m, b, size) ELSE @,
                      !.next = IF a = b THEN NewNext(m, b, size) ELSE @,
                      !.size = IF a = b THEN size ELSE @]]

(* Block b is made part of the block a in front of it. *)
Merged(m, a, b) ==
  [c \in DOMAIN m \ {b} |->
    [m[c] EXCEPT !.prev = IF c = m[b].next THEN a ELSE @,
                 !.next = IF c = a THEN m[b].next ELSE @,
                 !.size = IF c = a THEN @ + m[b].size + HEADER ELSE @]]

IsFree(m, b) == b # NULL /\ m[b].magic = "FREE"

Marked(m, b, magic) == [m EXCEPT ![b].magic = magic]
WithNext(m, b) == IF IsFree(m, m[b].next) THEN Merged(m, b, m[b].next) ELSE m
WithPrev(m, b) == IF IsFree(m, m[b].prev) THEN Merged(m, m[b].prev, b) ELSE m

Freed(m, b) == WithPrev(WithNext(Marked(m, b, "FREE"), b), b)

(* The block behind is given its new prev without a look whether there is
   one. *)
WritesNull(m, b) ==
  LET n == WithNext(m, b)
  IN  /\ n[b].next = NULL
      /\ m[b].next # NULL \/ IsFree(n, n[b].prev)

(* What malloc makes of the size asked for. *)
Needed(size) == IF size < MIN_CHUNK_SIZE THEN MIN_CHUNK_SIZE ELSE ((size + 15) \div 16) * 16

-----------------------------------------------------------------------------
(* After any calls, the blocks cover memory from MEM_START to MEM_END with no
   gap and no overlap, in the order of the list, and next and prev of
   neighbours agree: no split and no merge loses one of the four links it has
   to change. *)
LoaderListWhole ==
  \A b \in DOMAIN mcb :
    LET after == b + HEADER + mcb[b].size
    IN  /\ IF mcb[b].next = NULL THEN after = MEM_END
           ELSE mcb[b].next = after /\ after \in DOMAIN mcb /\ mcb[after].prev = b
        /\ \A c \in DOMAIN mcb : b < c => after <= c
        /\ mcb[b].prev = NULL => b = Base(1)

(* The loader's heap is a heap: blocks never overlap, also while mrealloc moves
   one, and nobody gets a block another holds. *)
Abstract == INSTANCE AbstractHeap WITH
  Places <- {"memory"},
  blocks <- {[place |-> "memory", number |-> n, from |-> live[n].ptr,
              to |-> live[n].ptr + live[n].size] : n \in DOMAIN live}
LoaderIsHeap == Abstract!Spec
=============================================================================
