------------------------------ MODULE Pebbles ------------------------------
(***************************************************************************)
(* The pebble list of one bucket: the pure part of bucket/malloc.cpp.      *)
(*                                                                         *)
(* A bucket is a run of pages: a bucket header, then pebbles, each a       *)
(* header followed by its bytes.  An address is an offset from the start   *)
(* of the bucket, and a list is a function from the offset of a pebble's   *)
(* header to what that header holds.  The links are kept as the code keeps *)
(* them (prev and next of every header), so that a list can go wrong the   *)
(* way a linked list goes wrong.                                           *)
(***************************************************************************)
EXTENDS Integers

CONSTANT NULL

ASSUME NullAssumption == NULL \notin Int

(* sizeof(struct S_MEMORY_BUCKET) and sizeof(struct S_MEMORY_PEBBLE) of a
   64-bit build with MEM_USE_DEBUGNAME, as malloc.h has it. *)
BUCKET_SZ        == 64
PEBBLE_SZ        == 128
PEBBLE_MIN_ALIGN == 64
PEBBLE_MIN_SIZE  == 64
PAGE_SIZE        == 4096
ALLOC_MIN        == 65536 + BUCKET_SZ + PEBBLE_SZ

RoundDown(x, m) == x - (x % m)
Slip_RoundUp(x, m) == RoundDown(x, m)
RoundUp(x, m) == RoundDown(x + (m - 1), m)

(* x & ~PEBBLE_MIN_SIZE: one bit is cleared, and the low six stay. *)
ClearMinSizeBit(x) == x - PEBBLE_MIN_SIZE * ((x \div PEBBLE_MIN_SIZE) % 2)

Slip_SplitPays(s0, s1) == s0 > s1

(* SPLIT_PEBBLE(s0, s1) *)
SplitPays(s0, s1) ==
  ClearMinSizeBit(s0 + PEBBLE_MIN_ALIGN - 1) > s1 + PEBBLE_SZ + PEBBLE_MIN_SIZE

PebbleFlags == {"IN_USE", "ALIGNED"}

Pebble == [lflags : SUBSET PebbleFlags,
           size   : Nat,
           prev   : Nat \cup {NULL},
           next   : Nat \cup {NULL}]

(* A list: offsets of headers, and what is there. *)
IsList(P) ==
  /\ DOMAIN P \subseteq Nat
  /\ P = [a \in DOMAIN P |-> P[a]]
  /\ \A a \in DOMAIN P : P[a] \in Pebble

PEBBLE_IS_FREE(p) == "IN_USE" \notin p.lflags

(* The first byte behind the pebble at a. *)
EndOf(P, a) == a + PEBBLE_SZ + P[a].size

FreeAt(P) == {a \in DOMAIN P : PEBBLE_IS_FREE(P[a])}

-----------------------------------------------------------------------------
(* Linking and unlinking *)

Slip_UPDATE_NODE(P, a, p, d) ==
  [x \in DOMAIN P \cup {a} |->
     CASE x = a -> [p EXCEPT !.prev = d, !.next = P[d].next]
       [] x = d -> [P[d] EXCEPT !.next = a]
       [] OTHER -> P[x]]

(* UPDATE_NODE(p0, p1): p, written at offset a, becomes the one after d. *)
UPDATE_NODE(P, a, p, d) ==
  LET n == P[d].next
  IN  [x \in DOMAIN P \cup {a} |->
         CASE x = a -> [p EXCEPT !.prev = d, !.next = n]
           [] x = d -> [P[d] EXCEPT !.next = a]
           [] x = n -> [P[n] EXCEPT !.prev = a]
           [] OTHER -> P[x]]

(* The pebble at a takes over the bytes and the header of the one after it. *)
SwallowNext(P, a) ==
  LET n == P[a].next
      m == P[n].next
  IN  [x \in DOMAIN P \ {n} |->
         CASE x = a -> [P[a] EXCEPT !.size = @ + P[n].size + PEBBLE_SZ,
                                    !.next = m]
           [] x = m -> [P[m] EXCEPT !.prev = a]
           [] OTHER -> P[x]]

-----------------------------------------------------------------------------
(* split_pebble: src is the pebble to be placed, at the one to be split.   *)
(* The result is the new list and the offset of the pebble to use.         *)

Slip_IsAligned(a, m) == a % m = 0
IsAligned(a, m) == (a + PEBBLE_SZ) % m = 0

Slip_AlignedAt(a, m) ==
  RoundDown(a + 2 * PEBBLE_SZ + PEBBLE_MIN_SIZE, m) - PEBBLE_SZ

(* The bytes of the aligned pebble start at the first aligned offset that
   leaves room for a smallest pebble before its header. *)
AlignedAt(a, m) ==
  RoundDown(a + 2 * PEBBLE_SZ + PEBBLE_MIN_SIZE + (m - 1), m) - PEBBLE_SZ

SplitAligned(P, a, src) ==
  LET at    == AlignedAt(a, src.alignment)
      front == at - a - PEBBLE_SZ
      rest  == P[a].size - front - (src.size + PEBBLE_SZ)
      new   == [lflags |-> src.lflags, size |-> src.size, prev |-> NULL, next |-> NULL]
      two   == UPDATE_NODE([P EXCEPT ![a].size = front], at, new, a)
      dummy == [lflags |-> {}, size |-> rest - PEBBLE_SZ, prev |-> NULL, next |-> NULL]
      three == UPDATE_NODE(two, EndOf(two, at), dummy, at)
  IN  [list |-> IF rest >= PEBBLE_SZ + PEBBLE_MIN_SIZE THEN three ELSE two,
       at   |-> at]

Slip_SplitPlainInUse(P, a, size) ==
  LET keep == RoundUp(size, PEBBLE_MIN_ALIGN)
      tail == [P[a] EXCEPT !.size = @ - keep - PEBBLE_SZ, !.lflags = {"IN_USE"}]
  IN  IF SplitPays(P[a].size, size)
      THEN UPDATE_NODE([P EXCEPT ![a].size = keep], a + PEBBLE_SZ + keep, tail, a)
      ELSE P

Slip_SplitPlainSize(P, a, size) ==
  LET keep == RoundUp(size, PEBBLE_MIN_ALIGN)
      tail == [P[a] EXCEPT !.size = @ - keep]
  IN  IF SplitPays(P[a].size, size)
      THEN UPDATE_NODE([P EXCEPT ![a].size = keep], a + PEBBLE_SZ + keep, tail, a)
      ELSE P

(* The tail is a copy of the header that was split, its flags included. *)
SplitPlain(P, a, size) ==
  LET keep == RoundUp(size, PEBBLE_MIN_ALIGN)
      tail == [P[a] EXCEPT !.size = @ - keep - PEBBLE_SZ]
  IN  IF SplitPays(P[a].size, size)
      THEN UPDATE_NODE([P EXCEPT ![a].size = keep], a + PEBBLE_SZ + keep, tail, a)
      ELSE P

split_pebble(P, a, src) ==
  IF "ALIGNED" \in src.lflags /\ ~IsAligned(a, src.alignment)
  THEN SplitAligned(P, a, src)
  ELSE [list |-> SplitPlain(P, a, src.size), at |-> a]

-----------------------------------------------------------------------------
(* Operations on a bucket record, of which these use list, first, largest. *)

Slip_bucket_update_largest(bk, size) == [bk EXCEPT !.largest = size]

bucket_update_largest(bk, size) ==
  [bk EXCEPT !.largest = IF size > @ THEN size ELSE @]

NeededSize(src) ==
  IF "ALIGNED" \in src.lflags THEN src.size + src.alignment + PEBBLE_SZ ELSE src.size

Slip_Fitting(bk, src) == {a \in DOMAIN bk.list : bk.list[a].size >= NeededSize(src)}

Fitting(bk, src) == {a \in FreeAt(bk.list) : bk.list[a].size >= NeededSize(src)}

(* place_pebble, first fit: the walk starts at bucket->first, or at the first
   pebble when that is NULL, goes on in list order, which is address order,
   and wraps. *)
Smallest(S) == CHOOSE x \in S : \A y \in S : x <= y

FirstFound(bk, src) ==
  LET ahead == {a \in Fitting(bk, src) : bk.first # NULL /\ a >= bk.first}
  IN  Smallest(IF ahead # {} THEN ahead ELSE Fitting(bk, src))

(* The walk ends when it is back at bucket->first: never, if that is NULL. *)
WalksForever(bk, src) == Fitting(bk, src) = {} /\ bk.first = NULL

Slip_absorb_next(bk, a) ==
  LET n == bk.list[a].next
  IN  IF /\ n # NULL
         /\ PEBBLE_IS_FREE(bk.list[a])
         /\ PEBBLE_IS_FREE(bk.list[n])
      THEN bucket_update_largest(
             [bk EXCEPT !.list = SwallowNext(bk.list, a)],
             bk.list[a].size + bk.list[n].size + PEBBLE_SZ)
      ELSE bk

absorb_next(bk, a) ==
  LET n == bk.list[a].next
  IN  IF /\ n # NULL
         /\ PEBBLE_IS_FREE(bk.list[a])
         /\ PEBBLE_IS_FREE(bk.list[n])
      THEN bucket_update_largest(
             [bk EXCEPT !.list  = SwallowNext(bk.list, a),
                        !.first = IF @ = n THEN a ELSE @],
             bk.list[a].size + bk.list[n].size + PEBBLE_SZ)
      ELSE bk

(* melt_prev: the pebble before a absorbs it, under the same conditions. *)
melt_prev(bk, a) ==
  IF bk.list[a].prev # NULL THEN absorb_next(bk, bk.list[a].prev) ELSE bk

(* The pebble that melt_prev returns. *)
MeltedInto(bk, a) ==
  LET p == bk.list[a].prev
  IN  IF /\ p # NULL
         /\ PEBBLE_IS_FREE(bk.list[a])
         /\ PEBBLE_IS_FREE(bk.list[p])
      THEN p ELSE a

(* shrink_pebble *)
shrink_pebble(bk, a, size) == [bk EXCEPT !.list = SplitPlain(bk.list, a, size)]

-----------------------------------------------------------------------------
(* What a list must be: see BucketHeap. *)

(* The header of the first pebble. *)
FirstPebble == BUCKET_SZ

(* prev and next agree, and a pebble ends before the next one begins. *)
LinksAgree(P) ==
  \A a \in DOMAIN P :
    /\ P[a].next # NULL => /\ P[a].next \in DOMAIN P
                           /\ P[P[a].next].prev = a
                           /\ EndOf(P, a) <= P[a].next
    /\ P[a].prev # NULL => P[a].prev \in DOMAIN P /\ P[P[a].prev].next = a
    /\ (P[a].prev = NULL) <=> (a = FirstPebble)

(* No pebble is left out: next is the header that follows in memory. *)
InOrder(P) ==
  \A a, c \in DOMAIN P : a < c => P[a].next # NULL /\ P[a].next <= c

Inside(P, bytes) == \A a \in DOMAIN P : FirstPebble <= a /\ EndOf(P, a) <= bytes

ListWellFormed(P, bytes) ==
  /\ FirstPebble \in DOMAIN P
  /\ LinksAgree(P)
  /\ InOrder(P)
  /\ Inside(P, bytes)
=============================================================================
