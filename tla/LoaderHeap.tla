----------------------------- MODULE LoaderHeap -----------------------------
(***************************************************************************)
(* loader/lib/malloc.c: the heap of the loader.  One doubly linked list of *)
(* memory blocks covers all memory from MEM_START to MEM_END, what is in   *)
(* use from the start (the loader itself, the EBDA, the kernel) included.  *)
(* First fit, split when the rest is worth it, merged when freed.  One     *)
(* thread; what cannot be allocated stops the machine.                     *)
(***************************************************************************)
EXTENDS LoaderList

CONSTANT MaxHeld  \* bound: blocks the callers hold at once

VARIABLES
  call,      \* "none", or the second half of mrealloc, or "frozen"
  moving,    \* the number of the block mrealloc has still to free, or 0
  vector2    \* the interrupt vector that NULL->prev lies on was overwritten

loaderVars == <<mcb, live, call, moving, vector2>>

(* mem_initialize *)
Init ==
  /\ mcb = [b \in {Base(i) : i \in DOMAIN mem_init} |->
       LET i == CHOOSE j \in DOMAIN mem_init : Base(j) = b
       IN  [magic |-> mem_init[i].magic,
            size  |-> Base(i + 1) - b - HEADER,
            prev  |-> IF i = 1 THEN NULL ELSE Base(i - 1),
            next  |-> IF i + 1 \in DOMAIN mem_init THEN Base(i + 1) ELSE NULL]]
  /\ live = [n \in {} |-> [ptr |-> NULL, size |-> 0]]
  /\ call = "none" /\ moving = 0 /\ vector2 = FALSE

-----------------------------------------------------------------------------
(* The list is in the order of addresses: the walk ends at the first. *)
Fitting(size) == {b \in DOMAIN mcb : mcb[b].magic = "FREE" /\ mcb[b].size >= Needed(size)}

Allocated(b, size) ==
  Marked(IF mcb[b].size >= Needed(size) + MIN_CHUNK_SIZE
         THEN malloc_split_block(mcb, b, Needed(size)) ELSE mcb, b, "USED")

With(n, ptr, size) ==
  [k \in DOMAIN live \cup {n} |-> IF k = n THEN [ptr |-> ptr, size |-> size] ELSE live[k]]
Without(n) == [k \in DOMAIN live \ {n} |-> live[k]]

(* Numbers that are not in use; a new block gets the least of them. *)
Unused == (1 .. MaxHeld) \ DOMAIN live

Takes(size) ==
  \E b \in Fitting(size), n \in Unused :
    /\ \A c \in Fitting(size) : b <= c
    /\ \A k \in Unused : n <= k
    /\ mcb' = Allocated(b, size)
    /\ live' = With(n, b + HEADER, size)

Freeze(size) ==
  /\ Fitting(size) = {}
  /\ call' = "frozen"
  /\ UNCHANGED <<mcb, live, moving, vector2>>

(* malloc, calloc, and mrealloc of no block. *)
Malloc(size) ==
  /\ call = "none" /\ Unused # {}
  /\ \/ Takes(size) /\ UNCHANGED <<call, moving, vector2>>
     \/ Freeze(size)

Gives(n) ==
  LET b == live[n].ptr - HEADER
  IN  /\ mcb[b].magic = "USED"
      /\ mcb' = Freed(mcb, b)
      /\ live' = Without(n)
      /\ vector2' = (vector2 \/ WritesNull(Marked(mcb, b, "FREE"), b))

Mfree(n) ==
  /\ call = "none"
  /\ Gives(n)
  /\ UNCHANGED <<call, moving>>

Slip_Stays(n, size) == size < mcb[live[n].ptr - HEADER].size + MIN_CHUNK_SIZE
Stays(n, size) == size <= mcb[live[n].ptr - HEADER].size

(* mrealloc of a block that is large enough. *)
Mrealloc(n, size) ==
  LET b == live[n].ptr - HEADER
  IN  /\ call = "none"
      /\ Stays(n, size)
      /\ mcb' = IF size < mcb[b].size - MIN_CHUNK_SIZE THEN malloc_split_block(mcb, b, size) ELSE mcb
      /\ live' = With(n, live[n].ptr, size)
      /\ UNCHANGED <<call, moving, vector2>>

(* mrealloc of one that is not: another is allocated, the contents are copied,
   and the old one is freed. *)
MreallocMalloc(n, size) ==
  /\ call = "none" /\ Unused # {}
  /\ ~Stays(n, size)
  /\ \/ Takes(size) /\ call' = "mrealloc" /\ moving' = n /\ UNCHANGED vector2
     \/ Freeze(size)

MreallocFree ==
  /\ call = "mrealloc"
  /\ Gives(moving)
  /\ call' = "none" /\ moving' = 0

Next ==
  \/ \E size \in RequestSizes : Malloc(size)
  \/ \E n \in DOMAIN live :
       \/ Mfree(n)
       \/ \E size \in RequestSizes : Mrealloc(n, size) \/ MreallocMalloc(n, size)
  \/ MreallocFree

Spec == Init /\ [][Next]_loaderVars

-----------------------------------------------------------------------------
\* The variables have these values.
TypeOK ==
  /\ mcb \in [DOMAIN mcb -> [magic : {"USED", "FREE"}, size : Nat,
                             prev : DOMAIN mcb \cup {NULL}, next : DOMAIN mcb \cup {NULL}]]
  /\ live \in [DOMAIN live -> [ptr : Nat, size : RequestSizes]]
  /\ moving \in DOMAIN live \cup {0} /\ (moving # 0 <=> call = "mrealloc")
  /\ call \in {"none", "mrealloc", "frozen"} /\ vector2 \in BOOLEAN

(* What the callers hold are blocks in use, at least as large as they asked. *)
HeldAreUsed ==
  \A n \in DOMAIN live :
    LET b == live[n].ptr - HEADER
    IN  b \in DOMAIN mcb /\ mcb[b].magic = "USED" /\ live[n].size <= mcb[b].size
=============================================================================
