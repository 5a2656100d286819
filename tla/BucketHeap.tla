----------------------------- MODULE BucketHeap -----------------------------
(***************************************************************************)
(* The kernel heap of bucket/malloc.cpp: a list of buckets, and threads    *)
(* that call kmalloc, mfree and realloc on it.                             *)
(*                                                                         *)
(* A step is what one thread does between two points where another can     *)
(* come in.  It takes a spinlock; with the lock held it searches a bucket, *)
(* splits a pebble, sets bucket->first, marks, melts or absorbs.  Without  *)
(* a lock each access to a pebble or to first and largest of a bucket is a *)
(* step: kmalloc loading ret->next and storing it in bucket->first of a    *)
(* bucket it has just made, and mfree looking at the bucket it has         *)
(* unlocked.  The two links that remove_bucket changes take a step each.   *)
(*                                                                         *)
(* mmap is taken to hand out pages again only when nobody has an address   *)
(* in them any more (Referenced).  So an address that is used after its    *)
(* bucket was given back is one of no page, and two threads with the lock  *)
(* of a bucket cannot be in it at once.                                    *)
(***************************************************************************)
EXTENDS Pebbles, FiniteSets

CONSTANTS
  Threads,      \* the kernel's threads
  BucketIds,    \* the page runs mmap can hand out
  KernelHeap,   \* the one it hands out first
  HeapBytes,    \* what malloc_init is asked for
  Sizes,        \* the sizes callers ask kmalloc for
  ReallocSizes,  \* the sizes callers ask realloc for
  Alignments,   \* the alignments they ask for, when they ask for one
  FlagSets,     \* the flags they pass
  MaxLive       \* the blocks the callers hold at once

(* A pointer: the bucket and the offset of the pebble's header in it. *)
Pointer == [b : BucketIds, at : Nat]

ThreadAssumption == Threads # {} /\ NULL \notin Threads
BucketAssumption == KernelHeap \in BucketIds /\ NULL \notin BucketIds \cup Pointer
SizeAssumption   ==
  /\ HeapBytes \in Nat
  /\ Sizes \subseteq Nat \ {0}
  /\ ReallocSizes \subseteq Nat
  /\ MaxLive \in Nat
MallocFlags      == {"VIRTUAL", "PHYSICAL", "ALIGNED", "LOW", "PERSISTENT"}
FlagAssumption   == FlagSets \subseteq SUBSET MallocFlags
(* mmap returns pages, so offsets show an alignment up to the size of a page. *)
AlignAssumption  ==
  Alignments \subseteq {1, 2, 4, 8, 16, 32, 64, 128, 256, 512, 1024, 2048, 4096}

ASSUME HeapAssumptions ==
  /\ ThreadAssumption
  /\ BucketAssumption
  /\ SizeAssumption
  /\ FlagAssumption
  /\ AlignAssumption

VARIABLES
  buckets,  \* the mapped buckets
  pc,       \* where each thread is
  loc,      \* the local variables of the call it makes
  live      \* what the callers hold: nothing of the code stores it

vars == <<buckets, pc, loc, live>>

-----------------------------------------------------------------------------
(* The state *)

IsBucket(bk) ==
  /\ IsList(bk.list)
  /\ bk \in [lflags   : SUBSET MallocFlags,
             low      : BOOLEAN,
             bytes    : Nat,
             largest  : Nat,
             spinlock : {0, 1},
             first    : Nat \cup {NULL},
             prev     : BucketIds \cup {NULL},
             next     : BucketIds \cup {NULL},
             list     : {bk.list}]

(* What a caller asked for. *)
Request == [size : Nat, alignment : Nat, flags : SUBSET MallocFlags]

(* A block a caller holds: where, and what was asked for. *)
Block == [p : Pointer, req : Request]

PCs == {"idle",
        "k_lock", "k_try", "k_split", "k_first",      \* kmalloc: a bucket of the list
        "k_next", "k_create", "i_lock", "i_link",     \* the next one, or a new one
        "n_lock", "n_try", "n_split", "n_largest",    \* place in the new one
        "n_first", "n_store",                         \* and set its first
        "f_lock", "f_mark", "f_melt", "f_absorb", "f_check",   \* mfree
        "f_first", "f_free", "f_again", "f_prev", "f_last", "f_next",  \* is it empty?
        "u_walk",                                     \* the walk for largest
        "r_prev", "r_next", "r_unmap",                \* remove_bucket
        "s_lock", "s_split",                          \* realloc to a smaller size
        "hang",                                       \* the walk that never ends
        "fault"}                                      \* a wild or NULL address was used

Ops == {"none", "kmalloc", "mfree", "realloc"}

Locals == [op  : Ops,
           req : Request,
           cur : BucketIds \cup {NULL},  \* 'bucket'
           at  : Nat,                    \* 'pebble', or the one a walk is at
           reg : Nat \cup {NULL},        \* what was loaded and is still to be stored
           old : Pointer \cup {NULL},    \* 'ptr' of realloc
           ret : Pointer \cup {NULL}]    \* 'ret'

TypeOK ==
  /\ DOMAIN buckets \subseteq BucketIds
  /\ \A b \in DOMAIN buckets : IsBucket(buckets[b])
  /\ pc \in [Threads -> PCs]
  /\ loc \in [Threads -> Locals]
  /\ live \subseteq Block

NoRequest == [size |-> 0, alignment |-> 0, flags |-> {}]
NoLocals  == [op |-> "none", req |-> NoRequest, cur |-> NULL, at |-> 0,
              reg |-> NULL, old |-> NULL, ret |-> NULL]

Mapped(b) == b \in DOMAIN buckets

-----------------------------------------------------------------------------
(* create_bucket and malloc_init *)

BucketBytes(size, flags) ==
  LET least == IF size < ALLOC_MIN THEN ALLOC_MIN ELSE size
      pages == RoundUp(least, PAGE_SIZE)
  IN  IF "PHYSICAL" \in flags THEN pages + PAGE_SIZE ELSE pages

create_bucket(size, flags, low) ==
  LET bytes   == BucketBytes(size, flags)
      largest == bytes - BUCKET_SZ - PEBBLE_SZ
      first   == [lflags |-> flags \cap {"ALIGNED"}, size |-> largest,
                  prev |-> NULL, next |-> NULL]
  IN  [lflags |-> flags, low |-> low, bytes |-> bytes, largest |-> largest,
       spinlock |-> 0, first |-> FirstPebble, prev |-> NULL, next |-> NULL,
       list |-> [a \in {FirstPebble} |-> first]]

Init ==
  /\ buckets = [b \in {KernelHeap} |->
                  create_bucket(HeapBytes, {"VIRTUAL", "PERSISTENT"}, FALSE)]
  /\ pc = [t \in Threads |-> "idle"]
  /\ loc = [t \in Threads |-> NoLocals]
  /\ live = {}

-----------------------------------------------------------------------------
(* kmalloc: what it makes of its arguments *)

Default(flags) ==
  IF flags \cap {"VIRTUAL", "PHYSICAL"} = {} THEN flags \cup {"VIRTUAL"} ELSE flags

Refused(flags) == {"VIRTUAL", "PHYSICAL"} \subseteq flags

AtLeast(x, m) == IF x < m THEN m ELSE x

(* The pebble kmalloc wants to place. *)
Wanted(req) ==
  [lflags    |-> (req.flags \cap {"ALIGNED"}) \cup {"IN_USE"},
   alignment |-> AtLeast(req.alignment, PEBBLE_MIN_ALIGN),
   size      |-> RoundUp(AtLeast(req.size, PEBBLE_MIN_SIZE),
                         IF "PHYSICAL" \in req.flags THEN PAGE_SIZE ELSE PEBBLE_MIN_ALIGN)]

(* The checks before place_pebble in the walk over the buckets. *)
Suits(bk, req) ==
  LET w == Wanted(req)
  IN  /\ bk.lflags \cap {"VIRTUAL", "PHYSICAL"} = req.flags \cap {"VIRTUAL", "PHYSICAL"}
      /\ {"PHYSICAL", "LOW"} \subseteq req.flags => bk.low
      /\ "ALIGNED" \in req.flags =>
           bk.largest >= w.size + (w.alignment - 1) + PEBBLE_SZ
      /\ bk.largest >= w.size

Slip_NewBucketSize(req) == AtLeast(req.size, PEBBLE_MIN_SIZE) + BUCKET_SZ + PEBBLE_SZ

NewBucketSize(req) ==
  AtLeast(req.size, PEBBLE_MIN_SIZE) + BUCKET_SZ + PEBBLE_SZ
    + (IF "ALIGNED" \in req.flags
       THEN AtLeast(req.alignment, PEBBLE_MIN_ALIGN) + PEBBLE_SZ ELSE 0)

(* The block the caller of t's call gets at p. *)
Handed(t, p) == [p |-> p, req |-> loc[t].req]

-----------------------------------------------------------------------------
(* Steps of a thread *)

Goto(t, l) == pc' = [pc EXCEPT ![t] = l]

(* kmalloc returns p to its caller.  In realloc the caller is realloc itself,
   which now frees the old block, whatever kmalloc returned. *)
KmallocReturns(t, p) ==
  IF loc[t].op = "realloc" /\ loc[t].old # NULL
  THEN /\ Goto(t, "f_lock")
       /\ loc' = [loc EXCEPT ![t].cur = loc[t].old.b, ![t].at = loc[t].old.at,
                             ![t].ret = p]
       /\ UNCHANGED live
  ELSE /\ Goto(t, "idle")
       /\ loc' = [loc EXCEPT ![t] = NoLocals]
       /\ live' = IF p = NULL THEN live ELSE live \cup {Handed(t, p)}

(* mfree is done, and so is realloc if it was realloc that called it. *)
MfreeReturns(t) ==
  /\ Goto(t, "idle")
  /\ loc' = [loc EXCEPT ![t] = NoLocals]
  /\ live' = IF loc[t].ret = NULL THEN live ELSE live \cup {Handed(t, loc[t].ret)}

StartKmalloc(t, op, req, old) ==
  /\ Goto(t, "k_lock")
  /\ loc' = [loc EXCEPT ![t] = [NoLocals EXCEPT !.op = op, !.req = req,
                                                !.cur = KernelHeap, !.old = old]]

(* kmalloc(size, alignment, flags).  A caller never asks for both kinds of
   memory; realloc does, below. *)
Kmalloc(t) ==
  /\ pc[t] = "idle"
  /\ Cardinality(live) < MaxLive
  /\ \E size \in Sizes, flags \in FlagSets, alignment \in Alignments \cup {1} :
       /\ ~Refused(flags)
       /\ ("ALIGNED" \in flags) <=> (alignment # 1)
       /\ StartKmalloc(t, "kmalloc",
            [size |-> size, alignment |-> alignment, flags |-> Default(flags)], NULL)
  /\ UNCHANGED <<buckets, live>>

(* mfree(ptr), for a block the caller holds. *)
Mfree(t) ==
  /\ pc[t] = "idle"
  /\ \E k \in live :
       /\ live' = live \ {k}
       /\ loc' = [loc EXCEPT ![t] = [NoLocals EXCEPT !.op = "mfree", !.cur = k.p.b,
                                                     !.at = k.p.at]]
  /\ Goto(t, "f_lock")
  /\ UNCHANGED buckets

(* The flags realloc passes to kmalloc are those of the pebble: the bit that
   says IN_USE there says VIRTUAL here, and ALIGNED there is PHYSICAL here. *)
ReallocFlags(lflags) ==
  {"VIRTUAL"} \cup (IF "ALIGNED" \in lflags THEN {"PHYSICAL"} ELSE {})

(* realloc(ptr, size), for a block the caller holds. *)
ReallocShrink(t) ==
  /\ pc[t] = "idle"
  /\ \E k \in live, size \in ReallocSizes \ {0} :
       /\ Mapped(k.p.b) /\ k.p.at \in DOMAIN buckets[k.p.b].list
       /\ size <= buckets[k.p.b].list[k.p.at].size
       /\ live' = live \ {k}
       /\ loc' = [loc EXCEPT ![t] =
            [NoLocals EXCEPT !.op = "realloc", !.cur = k.p.b, !.at = k.p.at,
               !.req = [k.req EXCEPT !.size = size]]]
  /\ Goto(t, "s_lock")
  /\ UNCHANGED buckets

ReallocGrow(t) ==
  /\ pc[t] = "idle"
  /\ \E k \in live, size \in ReallocSizes \ {0} :
       /\ Mapped(k.p.b) /\ k.p.at \in DOMAIN buckets[k.p.b].list
       /\ LET pebble == buckets[k.p.b].list[k.p.at]
              req == [size |-> size, alignment |-> 1, flags |-> ReallocFlags(pebble.lflags)]
          IN  /\ size > pebble.size
              /\ live' = live \ {k}
              /\ IF Refused(req.flags)
                 THEN /\ Goto(t, "f_lock")
                      /\ loc' = [loc EXCEPT ![t] =
                           [NoLocals EXCEPT !.op = "realloc", !.req = req, !.old = k.p,
                                            !.cur = k.p.b, !.at = k.p.at]]
                 ELSE StartKmalloc(t, "realloc", req, k.p)
  /\ UNCHANGED buckets

(* realloc(ptr, 0) is mfree(ptr), and realloc(NULL, size) is kmalloc of
   virtual memory: Mfree and Kmalloc stand for both. *)

-----------------------------------------------------------------------------
(* spin_lock: t waits until it finds the word 0 and sets it. *)

LockPCs == {"k_lock", "i_lock", "n_lock", "f_lock", "s_lock"}

AfterLock(l) == CASE l = "k_lock" -> "k_try"   [] l = "i_lock" -> "i_link"
                  [] l = "n_lock" -> "n_try"   [] l = "f_lock" -> "f_mark"
                  [] l = "s_lock" -> "s_split"

(* The bucket whose lock t is after or holds. *)
LockOf(t) == IF pc[t] \in {"i_lock", "i_link"} THEN KernelHeap ELSE loc[t].cur

SpinLock(t) ==
  /\ pc[t] \in LockPCs
  /\ Mapped(LockOf(t))
  /\ buckets[LockOf(t)].spinlock = 0
  /\ buckets' = [buckets EXCEPT ![LockOf(t)].spinlock = 1]
  /\ Goto(t, AfterLock(pc[t]))
  /\ UNCHANGED <<loc, live>>

Unlocked(bk) == [bk EXCEPT !.spinlock = 0]

-----------------------------------------------------------------------------
(* kmalloc *)

(* The header of the pebble t's call works on is there. *)
AtHand(t) == Mapped(loc[t].cur) /\ loc[t].at \in DOMAIN buckets[loc[t].cur].list

(* place_pebble's search in a bucket t has locked found a pebble. *)
Found(t, l) ==
  LET bk == buckets[loc[t].cur]
      w  == Wanted(loc[t].req)
  IN  /\ Fitting(bk, w) # {}
      /\ loc' = [loc EXCEPT ![t].at = FirstFound(bk, w)]
      /\ Goto(t, l)
      /\ UNCHANGED <<buckets, live>>

(* It never ends, and the lock stays taken. *)
FoundNever(t) ==
  /\ WalksForever(buckets[loc[t].cur], Wanted(loc[t].req))
  /\ Goto(t, "hang")
  /\ UNCHANGED <<buckets, loc, live>>

(* It is back where it began. *)
FoundNothing(t) ==
  LET bk == buckets[loc[t].cur]
      w  == Wanted(loc[t].req)
  IN  Fitting(bk, w) = {} /\ ~WalksForever(bk, w)

WalkTry(t) ==
  LET b  == loc[t].cur
      ok == Suits(buckets[b], loc[t].req)
  IN  /\ pc[t] = "k_try"
      /\ Mapped(b)
      /\ \/ ok /\ Found(t, "k_split")
         \/ ok /\ FoundNever(t)
         \/ /\ ~ok \/ FoundNothing(t)
            /\ buckets' = [buckets EXCEPT ![b] = Unlocked(@)]
            /\ Goto(t, "k_next")
            /\ UNCHANGED <<loc, live>>

Slip_SplitPebble(t) ==
  LET b == loc[t].cur
      s == split_pebble(buckets[b].list, loc[t].at, Wanted(loc[t].req))
  IN  /\ pc[t] \in {"k_split", "n_split"}
      /\ AtHand(t)
      /\ buckets' = [buckets EXCEPT ![b] = Unlocked(
                       [@ EXCEPT !.list = [s.list EXCEPT ![s.at].lflags = Wanted(loc[t].req).lflags]])]
      /\ loc' = [loc EXCEPT ![t].at = s.at]
      /\ Goto(t, IF pc[t] = "k_split" THEN "k_first" ELSE "n_largest")
      /\ UNCHANGED live

(* split_pebble, and the flags of the pebble it returns. *)
SplitPebble(t) ==
  LET b == loc[t].cur
      s == split_pebble(buckets[b].list, loc[t].at, Wanted(loc[t].req))
  IN  /\ pc[t] \in {"k_split", "n_split"}
      /\ AtHand(t)
      /\ buckets' = [buckets EXCEPT ![b].list =
                       [s.list EXCEPT ![s.at].lflags = Wanted(loc[t].req).lflags]]
      /\ loc' = [loc EXCEPT ![t].at = s.at]
      /\ Goto(t, IF pc[t] = "k_split" THEN "k_first" ELSE "n_largest")
      /\ UNCHANGED live

(* bucket->first = ret->next, and the unlock. *)
WalkFirst(t) ==
  LET b  == loc[t].cur
      bk == buckets[b]
  IN  /\ pc[t] = "k_first"
      /\ AtHand(t)
      /\ buckets' = [buckets EXCEPT ![b] =
           Unlocked(bucket_update_largest(
             [bk EXCEPT !.first = bk.list[loc[t].at].next], Wanted(loc[t].req).size))]
      /\ KmallocReturns(t, [b |-> b, at |-> loc[t].at])

(* bucket = bucket->next, after the unlock. *)
WalkNext(t) ==
  /\ pc[t] = "k_next"
  /\ Mapped(loc[t].cur)
  /\ LET next == buckets[loc[t].cur].next
     IN  /\ loc' = [loc EXCEPT ![t].cur = next]
         /\ Goto(t, IF next = NULL THEN "k_create" ELSE "k_lock")
  /\ UNCHANGED <<buckets, live>>

(* Somebody has an address in b: a caller, or a call in progress. *)
Referenced(b) ==
  \/ \E k \in live : k.p.b = b
  \/ \E t \in Threads :
       /\ pc[t] # "fault"
       /\ \/ loc[t].cur = b
          \/ \E p \in {loc[t].old, loc[t].ret} : p # NULL /\ p.b = b

(* create_bucket, no lock held: mmap has no memory left, or it returns pages
   nobody uses or knows of.  They are zero, so the new spinlock is free. *)
CreateBucket(t) ==
  /\ pc[t] = "k_create"
  /\ \/ /\ KmallocReturns(t, NULL)
        /\ UNCHANGED buckets
     \/ \E b \in BucketIds \ DOMAIN buckets, low \in BOOLEAN :
          /\ ~Referenced(b)
          /\ low => "PHYSICAL" \in loc[t].req.flags
          /\ {"PHYSICAL", "LOW"} \subseteq loc[t].req.flags => low
          /\ buckets' = [x \in DOMAIN buckets \cup {b} |->
               IF x = b
               THEN create_bucket(NewBucketSize(loc[t].req), loc[t].req.flags, low)
               ELSE buckets[x]]
          /\ loc' = [loc EXCEPT ![t].cur = b]
          /\ Goto(t, "i_lock")
          /\ UNCHANGED live

(* insert_bucket(bucket, kernel_heap), with the lock of kernel_heap held. *)
InsertLink(t) ==
  LET b == loc[t].cur
      n == buckets[KernelHeap].next
  IN  /\ pc[t] = "i_link"
      /\ Mapped(b) /\ (n # NULL => Mapped(n))
      /\ buckets' = [x \in DOMAIN buckets |->
           CASE x = b          -> [buckets[b] EXCEPT !.next = n, !.prev = KernelHeap]
             [] x = KernelHeap -> Unlocked([buckets[x] EXCEPT !.next = b])
             [] x = n          -> [buckets[x] EXCEPT !.prev = b]
             [] OTHER          -> buckets[x]]
      /\ Goto(t, "n_lock")
      /\ UNCHANGED <<loc, live>>

(* The new bucket is in the list, and another thread may have been in it. *)
NewTry(t) ==
  LET b == loc[t].cur
  IN  /\ pc[t] = "n_try"
      /\ Mapped(b)
      /\ \/ Found(t, "n_split")
         \/ FoundNever(t)
         \/ /\ FoundNothing(t)
            /\ buckets' = [buckets EXCEPT ![b] =
                 Unlocked(bucket_update_largest(@, Wanted(loc[t].req).size))]
            /\ KmallocReturns(t, NULL)

NewLargest(t) ==
  LET b == loc[t].cur
  IN  /\ pc[t] = "n_largest"
      /\ Mapped(b)
      /\ buckets' = [buckets EXCEPT ![b] =
           Unlocked(bucket_update_largest(@, Wanted(loc[t].req).size))]
      /\ Goto(t, "n_first")
      /\ UNCHANGED <<loc, live>>

(* bucket->first = ret->next, after the unlock: another thread may be at work in
   the bucket between the load and the store. *)
NewFirst(t) ==
  /\ pc[t] = "n_first"
  /\ AtHand(t)
  /\ loc' = [loc EXCEPT ![t].reg = buckets[loc[t].cur].list[loc[t].at].next]
  /\ Goto(t, "n_store")
  /\ UNCHANGED <<buckets, live>>

NewFirstStore(t) ==
  LET b == loc[t].cur
  IN  /\ pc[t] = "n_store"
      /\ Mapped(b)
      /\ buckets' = [buckets EXCEPT ![b].first = loc[t].reg]
      /\ KmallocReturns(t, [b |-> b, at |-> loc[t].at])

-----------------------------------------------------------------------------
(* mfree, remove_bucket, and realloc to a smaller size *)

FreeMark(t) ==
  /\ pc[t] = "f_mark"
  /\ AtHand(t)
  /\ buckets' = [buckets EXCEPT ![loc[t].cur].list[loc[t].at].lflags = {}]
  /\ Goto(t, "f_melt")
  /\ UNCHANGED <<loc, live>>

FreeMelt(t) ==
  LET b == loc[t].cur
  IN  /\ pc[t] = "f_melt"
      /\ AtHand(t)
      /\ buckets' = [buckets EXCEPT ![b] = melt_prev(@, loc[t].at)]
      /\ loc' = [loc EXCEPT ![t].at = MeltedInto(buckets[b], @)]
      /\ Goto(t, "f_absorb")
      /\ UNCHANGED live

Slip_FreeAbsorb(t) ==
  /\ pc[t] = "f_absorb"
  /\ AtHand(t)
  /\ buckets' = [buckets EXCEPT ![loc[t].cur] = Unlocked(@)]
  /\ Goto(t, "f_check")
  /\ UNCHANGED <<loc, live>>

Slip_FreeAbsorbLocked(t) ==
  LET b == loc[t].cur
  IN  /\ pc[t] = "f_absorb"
      /\ AtHand(t)
      /\ buckets' = [buckets EXCEPT ![b] = absorb_next(@, loc[t].at)]
      /\ Goto(t, "f_check")
      /\ UNCHANGED <<loc, live>>

FreeAbsorb(t) ==
  LET b == loc[t].cur
  IN  /\ pc[t] = "f_absorb"
      /\ AtHand(t)
      /\ buckets' = [buckets EXCEPT ![b] = Unlocked(absorb_next(@, loc[t].at))]
      /\ Goto(t, "f_check")
      /\ UNCHANGED <<loc, live>>

(* bucket = pebble->parent, after the unlock, and the bucket's flags, which never
   change.  kernel_heap is persistent, so remove_bucket need not spare it. *)
FreeCheck(t) ==
  LET b == loc[t].cur
  IN  /\ pc[t] = "f_check"
      /\ Mapped(b)
      /\ IF "PERSISTENT" \in buckets[b].lflags
         THEN MfreeReturns(t)
         ELSE Goto(t, "f_first") /\ UNCHANGED <<loc, live>>
      /\ UNCHANGED buckets

(* "if this empties the bucket, shall we remove the bucket?"  Three fields of the
   pebble at bucket->first are looked at, and bucket->first is loaded before
   each, or kept. *)
LoadPCs == {"f_first", "f_again", "f_last"}
TestPCs == {"f_free", "f_prev", "f_next"}

LoadFirst(t) ==
  LET first == buckets[loc[t].cur].first
  IN  /\ pc[t] \in LoadPCs
      /\ Mapped(loc[t].cur)
      /\ \/ first # NULL /\ loc' = [loc EXCEPT ![t].at = first]
         \/ pc[t] # "f_first" /\ UNCHANGED loc
      /\ Goto(t, CASE pc[t] = "f_first" -> "f_free"
                   [] pc[t] = "f_again" -> "f_prev"
                   [] pc[t] = "f_last"  -> "f_next")
      /\ UNCHANGED <<buckets, live>>

(* The pebble has passed t's test.  If another thread has absorbed it since, what
   its header held may be overwritten, and the answer is any. *)
MayPass(t) ==
  AtHand(t) =>
    LET p == buckets[loc[t].cur].list[loc[t].at]
    IN  CASE pc[t] = "f_free" -> PEBBLE_IS_FREE(p)
          [] pc[t] = "f_prev" -> p.prev = NULL
          [] pc[t] = "f_next" -> p.next = NULL
MayFail(t) == AtHand(t) => ~MayPass(t)

TestFirst(t) ==
  /\ pc[t] \in TestPCs
  /\ Mapped(loc[t].cur)
  /\ \/ /\ MayPass(t)
        /\ Goto(t, CASE pc[t] = "f_free" -> "f_again"
                     [] pc[t] = "f_prev" -> "f_last"
                     [] pc[t] = "f_next" -> "r_prev")
        /\ UNCHANGED loc
     \/ /\ MayFail(t)
        /\ Goto(t, "u_walk")
        /\ loc' = [loc EXCEPT ![t].at = FirstPebble]
  /\ UNCHANGED <<buckets, live>>

-----------------------------------------------------------------------------
(* bucket_update_largest(bucket, 0), with no lock held: p->size, and p = p->next.
   From the start largest is the size of a pebble that fills the bucket, and no
   pebble is ever larger, also in the middle of a merge: so the comparison changes
   nothing, and when it is made does not matter.  A pebble that was absorbed
   meanwhile is smaller still, and its link leads forward as well. *)
WalkLargest(t) ==
  LET b == loc[t].cur
      P == buckets[b].list
      a == loc[t].at
  IN  /\ pc[t] = "u_walk"
      /\ Mapped(b)
      /\ \E n \in IF AtHand(t) THEN {P[a].next} ELSE {c \in DOMAIN P : c > a} \cup {NULL} :
           IF n = NULL THEN MfreeReturns(t)
           ELSE loc' = [loc EXCEPT ![t].at = n] /\ UNCHANGED <<pc, live>>
      /\ buckets' = IF AtHand(t)
                    THEN [buckets EXCEPT ![b] = bucket_update_largest(@, P[a].size)]
                    ELSE buckets

-----------------------------------------------------------------------------
(* remove_bucket, with no lock held *)

RemovePrev(t) ==
  LET b == loc[t].cur
      p == buckets[b].prev
  IN  /\ pc[t] = "r_prev"
      /\ Mapped(b) /\ (p # NULL => Mapped(p))
      /\ buckets' = IF p = NULL THEN buckets
                    ELSE [buckets EXCEPT ![p].next = buckets[b].next]
      /\ Goto(t, "r_next")
      /\ UNCHANGED <<loc, live>>

Slip_RemoveNext(t) ==
  pc[t] = "r_next" /\ Goto(t, "r_unmap") /\ UNCHANGED <<buckets, loc, live>>

RemoveNext(t) ==
  LET b == loc[t].cur
      n == buckets[b].next
  IN  /\ pc[t] = "r_next"
      /\ Mapped(b) /\ (n # NULL => Mapped(n))
      /\ buckets' = IF n = NULL THEN buckets
                    ELSE [buckets EXCEPT ![n].prev = buckets[b].prev]
      /\ Goto(t, "r_unmap")
      /\ UNCHANGED <<loc, live>>

(* mmap_free *)
RemoveUnmap(t) ==
  /\ pc[t] = "r_unmap"
  /\ buckets' = [x \in DOMAIN buckets \ {loc[t].cur} |-> buckets[x]]
  /\ MfreeReturns(t)

(* realloc hands the same block back. *)
ShrinkSplit(t) ==
  LET b == loc[t].cur
  IN  /\ pc[t] = "s_split"
      /\ AtHand(t)
      /\ buckets' = [buckets EXCEPT ![b] =
           Unlocked(shrink_pebble(buckets[b], loc[t].at, loc[t].req.size))]
      /\ Goto(t, "idle")
      /\ loc' = [loc EXCEPT ![t] = NoLocals]
      /\ live' = live \cup {Handed(t, [b |-> b, at |-> loc[t].at])}

-----------------------------------------------------------------------------
(* A step that would use an address where nothing is: what follows is not
   defined, and the model lets the thread go no further. *)

Touches(t) ==
  CASE pc[t] \in {"i_lock", "i_link"} -> {KernelHeap, loc[t].cur}
    [] pc[t] = "r_prev" /\ Mapped(loc[t].cur) ->
         {loc[t].cur, buckets[loc[t].cur].prev} \ {NULL}
    [] pc[t] = "r_next" /\ Mapped(loc[t].cur) ->
         {loc[t].cur, buckets[loc[t].cur].next} \ {NULL}
    [] pc[t] \in {"idle", "k_create", "r_unmap", "hang", "fault"} -> {}
    [] OTHER -> {loc[t].cur}

HeaderPCs ==
  {"k_split", "n_split", "k_first", "n_first", "f_mark", "f_melt", "f_absorb", "s_split"}

(* A header is looked at that another thread may have absorbed by now, and a caller
   written over. *)
StalePCs == {"f_check", "u_walk"}

Wild(t) ==
  /\ \/ \E b \in Touches(t) : ~Mapped(b)
     \/ /\ pc[t] = "i_link" /\ buckets[KernelHeap].next # NULL
        /\ ~Mapped(buckets[KernelHeap].next)
     \/ /\ pc[t] \in HeaderPCs /\ Mapped(loc[t].cur) /\ ~AtHand(t)
     \/ /\ pc[t] \in LoadPCs /\ Mapped(loc[t].cur)
        /\ buckets[loc[t].cur].first = NULL
     \/ pc[t] \in StalePCs /\ Mapped(loc[t].cur) /\ ~AtHand(t)
  /\ Goto(t, "fault")
  /\ UNCHANGED <<buckets, loc, live>>

(* The steps of a call that t has begun. *)
Step(t) ==
  \/ SpinLock(t)
  \/ WalkTry(t)
  \/ SplitPebble(t)
  \/ WalkFirst(t)
  \/ WalkNext(t)
  \/ CreateBucket(t)
  \/ InsertLink(t)
  \/ NewTry(t)
  \/ NewLargest(t)
  \/ NewFirst(t)
  \/ NewFirstStore(t)
  \/ FreeMark(t)
  \/ FreeMelt(t)
  \/ FreeAbsorb(t)
  \/ FreeCheck(t)
  \/ LoadFirst(t)
  \/ TestFirst(t)
  \/ WalkLargest(t)
  \/ RemovePrev(t)
  \/ RemoveNext(t)
  \/ RemoveUnmap(t)
  \/ ShrinkSplit(t)
  \/ Wild(t)

Call(t) == Kmalloc(t) \/ Mfree(t) \/ ReallocShrink(t) \/ ReallocGrow(t)

Next == \E t \in Threads : Step(t) \/ Call(t)

Spec == Init /\ [][Next]_vars

(* A thread in the middle of a call is scheduled again; nobody must call. *)
FairSpec == Spec /\ \A t \in Threads : WF_vars(Step(t))
=============================================================================
