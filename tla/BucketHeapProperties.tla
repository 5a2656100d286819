------------------------ MODULE BucketHeapProperties ------------------------
(***************************************************************************)
(* What the kernel heap promises, and what its data structures must be.    *)
(***************************************************************************)
EXTENDS BucketHeap

(* A thread that has taken a spinlock and not released it. *)
CriticalPCs == {"k_try", "k_split", "k_first", "i_link", "n_try", "n_split", "n_largest",
                "f_mark", "f_melt", "f_absorb", "s_split", "hang"}
Holds(t, b) == pc[t] \in CriticalPCs /\ LockOf(t) = b

(* The pebbles that calls in progress have in hand. *)
InHand(t) ==
  {loc[t].old, loc[t].ret} \cup
    (IF pc[t] \in {"k_first", "n_largest", "n_first", "n_store", "f_lock", "f_mark", "s_lock", "s_split"}
     THEN {[b |-> loc[t].cur, at |-> loc[t].at]} ELSE {})

Quiet == \A t \in Threads : pc[t] = "idle"

-----------------------------------------------------------------------------
(* Invariants *)

(* In every bucket the headers and the bytes of the pebbles lie in the bucket
   one behind the other, and prev and next agree, whatever has been split and
   merged. *)
ListsWellFormed ==
  \A b \in DOMAIN buckets : ListWellFormed(buckets[b].list, buckets[b].bytes)

(* bucket->first is NULL or a pebble: a merge never leaves it in a header that
   was absorbed. *)
FirstIn(b)    == buckets[b].first \in DOMAIN buckets[b].list \cup {NULL}
FirstIsPebble == \A b \in DOMAIN buckets : FirstIn(b)

(* Two free pebbles never lie side by side in a bucket nobody is at work in:
   split_pebble and mfree together keep free memory in one piece. *)
CoalescedIn(b) ==
  LET P == buckets[b].list
  IN  (\A t \in Threads : ~Holds(t, b)) => \A a \in FreeAt(P) : P[a].next \notin FreeAt(P)
Coalesced == \A b \in DOMAIN buckets : CoalescedIn(b)

(* bucket->largest is never below a free pebble, so kmalloc passes no bucket
   that has room. *)
LargestIn(b) == \A a \in FreeAt(buckets[b].list) : buckets[b].list[a].size <= buckets[b].largest

(* Every pebble in use is a block a caller holds, or one a call has in hand:
   otherwise nobody can ever free it. *)
NoOrphanIn(b) ==
  \A a \in DOMAIN buckets[b].list :
    \/ PEBBLE_IS_FREE(buckets[b].list[a])
    \/ \E k \in live : k.p = [b |-> b, at |-> a]
    \/ \E t \in Threads : [b |-> b, at |-> a] \in InHand(t)
NoOrphan == \A b \in DOMAIN buckets : NoOrphanIn(b)

(* A block a caller holds is mapped and in use, is as large and as aligned as
   the caller asked for, in the kind of memory asked for, and is nobody
   else's. *)
Usable(k) ==
  /\ Mapped(k.p.b)
  /\ k.p.at \in DOMAIN buckets[k.p.b].list
  /\ LET p == buckets[k.p.b].list[k.p.at]
     IN  ~PEBBLE_IS_FREE(p) /\ p.size >= k.req.size
  /\ buckets[k.p.b].lflags \cap {"VIRTUAL", "PHYSICAL"} =
       k.req.flags \cap {"VIRTUAL", "PHYSICAL"}
  /\ {"PHYSICAL", "LOW"} \subseteq k.req.flags => buckets[k.p.b].low
  /\ (k.p.at + PEBBLE_SZ) % k.req.alignment = 0
  /\ \A m \in live : k.p = m.p => k = m
BlocksUsable == \A k \in live : Usable(k)

(* No bytes are lost between two pebbles or behind the last: what is split off
   is always a pebble again. *)
TilesIn(b) ==
  LET P == buckets[b].list
  IN  \A a \in DOMAIN P :
        EndOf(P, a) = IF P[a].next = NULL THEN buckets[b].bytes ELSE P[a].next
TilesExactly == \A b \in DOMAIN buckets : TilesIn(b)

(* The thread that makes a bucket finds its block in it. *)
NewBucketFits ==
  \A t \in Threads :
    pc[t] = "n_try" /\ Mapped(loc[t].cur) =>
      Fitting(buckets[loc[t].cur], Wanted(loc[t].req)) # {}

(* No two threads are in critical sections of kernel_heap, whose bucket is never
   given back: every insertion into the list of buckets is made under this
   lock. *)
HeapMutualExclusion ==
  \A t, u \in Threads :
    Holds(t, KernelHeap) /\ Holds(u, KernelHeap) => t = u

(* What goes wrong with a bucket that is given back does not reach kernel_heap:
   its list is well formed at every step, in or out of a critical section. *)
HeapListWellFormed ==
  ListWellFormed(buckets[KernelHeap].list, buckets[KernelHeap].bytes)

(* Nor does it reach what lies in kernel_heap: its free memory is in one piece,
   first and largest tell the truth about it, and the blocks in it are what
   their callers asked for, with any number of threads at work. *)
HeapInOrder ==
  /\ FirstIn(KernelHeap)
  /\ CoalescedIn(KernelHeap)
  /\ LargestIn(KernelHeap)
  /\ \A k \in live : k.p.b = KernelHeap => Usable(k)

(* When no call is in progress the buckets form one list that starts at
   kernel_heap, and a bucket that mfree may give back holds something. *)
BucketListWhole ==
  Quiet =>
    /\ Mapped(KernelHeap) /\ buckets[KernelHeap].prev = NULL
    /\ \A b \in DOMAIN buckets :
         /\ b # KernelHeap => /\ Mapped(buckets[b].prev)
                              /\ buckets[buckets[b].prev].next = b
         /\ buckets[b].next # NULL => /\ Mapped(buckets[b].next)
                                      /\ buckets[buckets[b].next].prev = b
         /\ \/ "PERSISTENT" \in buckets[b].lflags
            \/ \E a \in DOMAIN buckets[b].list : ~PEBBLE_IS_FREE(buckets[b].list[a])

(* "we can assume, by the checks that the caller made, that there is at least
   one pebble within this bucket for this pebble to fit" (malloc.cpp): the walk
   of place_pebble ends. *)
NoHang == \A t \in Threads : pc[t] # "hang"

(* mfree gives back only an "empty Bucket" (malloc.cpp): nothing in it is in
   use. *)
OnlyEmptyUnmapped ==
  \A t \in Threads :
    pc[t] = "r_unmap" /\ Mapped(loc[t].cur) =>
      \A a \in DOMAIN buckets[loc[t].cur].list :
        PEBBLE_IS_FREE(buckets[loc[t].cur].list[a])

(* Under fair scheduling a spinlock that is taken is given up again. *)
LocksReleased ==
  \A b \in BucketIds :
    (Mapped(b) /\ buckets[b].spinlock = 1) ~> ~(Mapped(b) /\ buckets[b].spinlock = 1)

-----------------------------------------------------------------------------
(* kernel_heap implements the abstract heap: a block is the bytes its caller
   asked for, from the moment kmalloc or realloc returns them to the call that
   gives them back.  Of a bucket that can be given back this is false. *)
BlockBytes(k) ==
  [place |-> k.p.b, from |-> k.p.at + PEBBLE_SZ, to |-> k.p.at + PEBBLE_SZ + k.req.size]
HeapBlocks == {BlockBytes(k) : k \in {m \in live : m.p.b = KernelHeap}}

Abstract == INSTANCE AbstractHeap WITH Places <- {KernelHeap}, blocks <- HeapBlocks

ImplementsAbstractHeap == Abstract!Spec
=============================================================================
