---------------------------- MODULE BucketProofs ----------------------------
(***************************************************************************)
(* What holds of every bucket, and not of kernel_heap alone.               *)
(*                                                                         *)
(* First, when one thread uses the heap.  With more most of it is false: a *)
(* bucket may be given back while another thread works in it.  The state   *)
(* is an argument of the definitions: bs is what is mapped, l where the    *)
(* thread is, x the locals of its call, lv what callers hold.              *)
(*                                                                         *)
(* At the end, with any number of threads: the lock of every bucket lets   *)
(* one thread at a time into its critical sections, and, when nobody asks  *)
(* for alignment, the list of every bucket fills it.                       *)
(***************************************************************************)
EXTENDS KernelHeapProofs

(* What the list, first and largest of a bucket say is true. *)
Tidy(bk)    == Sound(bk.list, bk.bytes) /\ Bounded(bk)
AllTidy(bs) == \A b \in DOMAIN bs : Tidy(bs[b])

(* The kind of memory a request is for. *)
OfKind(bk, req) ==
  /\ bk.lflags \cap {"VIRTUAL", "PHYSICAL"} = req.flags \cap {"VIRTUAL", "PHYSICAL"}
  /\ {"PHYSICAL", "LOW"} \subseteq req.flags => bk.low

InUse(bs, p) == p.b \in DOMAIN bs /\ p.at \in UsedAt(bs[p.b].list)

(* What the caller who asked for req may be given. *)
GoodBlock(bs, p, req) ==
  /\ InUse(bs, p)
  /\ bs[p.b].list[p.at].size >= req.size
  /\ (p.at + PEBBLE_SZ) % req.alignment = 0
  /\ OfKind(bs[p.b], req)

-----------------------------------------------------------------------------
(* The invariant *)

NewPCs    == {"i_lock", "i_link", "n_lock", "n_try"}
PlacedPCs == {"k_first", "n_largest", "n_first", "n_store"} \cup ShrinkPCs
HerePCs   == PlacedPCs \cup {"f_lock", "f_mark"}
GonePCs   == {"r_prev", "r_next", "r_unmap"}

(* mfree looks at the bucket it has unlocked. *)
OpenPCs   == LoadPCs \cup TestPCs \cup {"u_walk"}
EmptyPCs  ==
  NewPCs \cup {"n_split", "f_melt", "f_absorb", "f_check", "fault"} \cup OpenPCs \cup GonePCs

Here(x) == [b |-> x.cur, at |-> x.at]

(* The pebbles a call has: the one it works on, and old and ret of realloc. *)
Claims(l, x) ==
  (IF l \in HerePCs THEN {Here(x)} ELSE {})
    \cup (IF l \in AllocPCs /\ x.old # NULL THEN {x.old} ELSE {})
    \cup (IF x.ret # NULL THEN {x.ret} ELSE {})

(* Free pebbles lie side by side only where mfree has still to merge them. *)
AtJoint(P, l, x, a) ==
  \/ l = "f_melt" /\ x.at \in {a, P[a].next}
  \/ l = "f_absorb" /\ x.at = a
Joined(bs, l, x) ==
  \A b \in DOMAIN bs : \A a \in Seams(bs[b].list) : b = x.cur /\ AtJoint(bs[b].list, l, x, a)

(* What a call knows of the bucket it is in. *)
Knows(bs, l, x) ==
  /\ l \notin {"idle", "k_create", "fault"} => x.cur \in DOMAIN bs
  /\ l \in {"k_split", "n_split"} => x.at \in Fitting(bs[x.cur], Wanted(x.req))
  /\ l \in NewPCs => Fitting(bs[x.cur], Wanted(x.req)) # {}
  /\ l \in NewPCs \cup {"k_split", "n_split"} => OfKind(bs[x.cur], x.req)
  /\ l \in {"f_melt", "f_absorb"} => x.at \in FreeAt(bs[x.cur].list)
  /\ l \in GonePCs => UsedAt(bs[x.cur].list) = {} /\ "PERSISTENT" \notin bs[x.cur].lflags

(* Every pebble that is claimed is claimed once, and is what was asked for. *)
Claimed(bs, l, x, lv) ==
  /\ \A p \in Claims(l, x) : InUse(bs, p)
  /\ l \in HerePCs /\ x.ret # NULL => x.ret # Here(x)
  /\ l \in HerePCs \cap AllocPCs /\ x.old # NULL => x.old # Here(x)
  /\ l \in PlacedPCs => GoodBlock(bs, Here(x), x.req)
  /\ x.ret # NULL => GoodBlock(bs, x.ret, x.req)
  /\ \A k \in lv : /\ GoodBlock(bs, k.p, k.req) /\ k.p \notin Claims(l, x)
                   /\ \A m \in lv : m.p = k.p => m = k

(* The buckets other than those in X are linked among each other, both ways. *)
PrevIn(bs, X, b) == bs[b].prev \in DOMAIN bs \ X /\ bs[bs[b].prev].next = b
NextIn(bs, X, b) ==
  bs[b].next # NULL => bs[b].next \in DOMAIN bs \ X /\ bs[bs[b].next].prev = b
Linked(bs, X) ==
  /\ bs[KernelHeap].prev = NULL
  /\ \A b \in DOMAIN bs \ X : (b # KernelHeap => PrevIn(bs, X, b)) /\ NextIn(bs, X, b)

(* remove_bucket has written the next of the bucket before b, and nothing else:
   only the next of that bucket is wrong. *)
HalfLinked(bs, b) ==
  LET p == bs[b].prev
  IN  /\ bs[KernelHeap].prev = NULL
      /\ p \in DOMAIN bs /\ bs[p].next = bs[b].next
      /\ p = b => bs[b].next = b
      /\ \A c \in DOMAIN bs \ {b} : c # KernelHeap => PrevIn(bs, {}, c)
      /\ \A c \in DOMAIN bs : c # p \/ c = b => NextIn(bs, {}, c)

Linkage(bs, l, x) ==
  IF l = "r_next" THEN HalfLinked(bs, x.cur)
  ELSE Linked(bs, IF l \in {"i_lock", "i_link", "r_unmap"} THEN {x.cur} ELSE {})

(* A bucket that can be given back holds something, or the call that is in it
   has still to use it or to give it back. *)
Occupied(bs, l, x) ==
  \A b \in DOMAIN bs :
    \/ "PERSISTENT" \in bs[b].lflags
    \/ UsedAt(bs[b].list) # {}
    \/ b = x.cur /\ l \in EmptyPCs

InOneThread(bs, l, x, lv) ==
  /\ AllTidy(bs)
  /\ Joined(bs, l, x)
  /\ Knows(bs, l, x)
  /\ Claimed(bs, l, x, lv)
  /\ Linkage(bs, l, x)
  /\ Occupied(bs, l, x)

OneInv(t) == InOneThread(buckets, pc[t], loc[t], live)

(* What has been seen of a bucket without its lock is still so. *)
Looks(bs, l, x) ==
  /\ l \in {"f_check"} \cup OpenPCs => x.at \in DOMAIN bs[x.cur].list
  /\ l \in OpenPCs => "PERSISTENT" \notin bs[x.cur].lflags
  /\ l \in {"f_again", "f_last"} \cup TestPCs => x.at = bs[x.cur].first
  /\ l \in {"f_again", "f_prev", "f_last", "f_next"} =>
       PEBBLE_IS_FREE(bs[x.cur].list[x.at])
  /\ l \in {"f_last", "f_next"} => bs[x.cur].list[x.at].prev = NULL
  /\ l = "u_walk" => UsedAt(bs[x.cur].list) # {}
  /\ l = "n_store" => x.reg = bs[x.cur].list[x.at].next

OneLooks(t) == Looks(buckets, pc[t], loc[t])

-----------------------------------------------------------------------------
(* Steps that leave the lists of all buckets alone *)

SameCore(r, s) == r.list = s.list /\ r.bytes = s.bytes /\ r.lflags = s.lflags /\ r.low = s.low
Still(bs, cs) == DOMAIN cs = DOMAIN bs /\ \A b \in DOMAIN bs : SameCore(cs[b], bs[b])

(* What is in use, and what is fit for a caller, is read off the lists. *)
LEMMA StillUse ==
  ASSUME NEW bs, NEW cs, Still(bs, cs)
  PROVE  /\ \A p : InUse(cs, p) <=> InUse(bs, p)
         /\ \A p, r : GoodBlock(cs, p, r) <=> GoodBlock(bs, p, r)
<1>1. \A p : InUse(cs, p) <=> InUse(bs, p)
  BY DEF InUse, Still, SameCore
<1>2. \A p : InUse(bs, p) => SameCore(cs[p.b], bs[p.b])
  BY DEF InUse, Still
<1> QED
  BY <1>1, <1>2 DEF GoodBlock, OfKind, SameCore

(* So the parts of the invariant that speak of lists are kept. *)
LEMMA StillKeeps ==
  ASSUME NEW bs, NEW cs, Still(bs, cs), NEW l, NEW x, NEW lv
  PROVE  /\ Joined(bs, l, x) => Joined(cs, l, x)
         /\ Knows(bs, l, x) => Knows(cs, l, x)
         /\ Claimed(bs, l, x, lv) => Claimed(cs, l, x, lv)
         /\ Occupied(bs, l, x) => Occupied(cs, l, x)
<1>1. Joined(bs, l, x) => Joined(cs, l, x)
  BY DEF Joined, Still, SameCore
<1>2. Knows(bs, l, x) => Knows(cs, l, x)
  <2>1. SUFFICES ASSUME Knows(bs, l, x) PROVE Knows(cs, l, x)
    OBVIOUS
  <2>2. x.cur \in DOMAIN bs => SameCore(cs[x.cur], bs[x.cur])
    BY DEF Still
  <2>3. x.cur \in DOMAIN bs =>
          /\ Fitting(cs[x.cur], Wanted(x.req)) = Fitting(bs[x.cur], Wanted(x.req))
          /\ OfKind(cs[x.cur], x.req) <=> OfKind(bs[x.cur], x.req)
    BY <2>2 DEF Fitting, SameCore, OfKind
  <2>4. l \in NewPCs \cup {"k_split", "n_split", "f_melt", "f_absorb"} \cup GonePCs =>
          x.cur \in DOMAIN bs
    BY <2>1 DEF Knows, NewPCs, GonePCs
  <2> QED
    BY <2>1, <2>2, <2>3, <2>4 DEF Knows, SameCore, Still
<1>3. Claimed(bs, l, x, lv) => Claimed(cs, l, x, lv)
  BY StillUse DEF Claimed
<1>4. Occupied(bs, l, x) => Occupied(cs, l, x)
  BY DEF Occupied, Still, SameCore
<1> QED
  BY <1>1, <1>2, <1>3, <1>4

(* The links are as they were. *)
SameLinks(bs, cs) ==
  /\ KernelHeap \in DOMAIN bs /\ DOMAIN cs = DOMAIN bs
  /\ \A b \in DOMAIN bs : cs[b].prev = bs[b].prev /\ cs[b].next = bs[b].next

(* So a step that writes no link leaves the list of buckets what it is. *)
LEMMA LinksStay ==
  ASSUME NEW bs, NEW cs, SameLinks(bs, cs), NEW l, NEW x,
         l \in {"i_lock", "i_link", "r_next", "r_unmap"} => x.cur \in DOMAIN bs,
         Linkage(bs, l, x)
  PROVE  Linkage(cs, l, x)
<1>1. \A X, b : b \in DOMAIN bs =>
        (PrevIn(bs, X, b) => PrevIn(cs, X, b)) /\ (NextIn(bs, X, b) => NextIn(cs, X, b))
  BY DEF SameLinks, PrevIn, NextIn
<1>2. \A X : Linked(bs, X) => Linked(cs, X)
  BY <1>1 DEF Linked, SameLinks
<1>3. x.cur \in DOMAIN bs /\ HalfLinked(bs, x.cur) => HalfLinked(cs, x.cur)
  BY <1>1 DEF HalfLinked, SameLinks
<1> QED
  BY <1>2, <1>3 DEF Linkage

LinkPCs == {"i_lock", "i_link", "r_next", "r_unmap"}

(* The thread goes on, and no bucket changes. *)
LEMMA MovesOn ==
  ASSUME NEW bs, NEW l, NEW x, NEW lv, InOneThread(bs, l, x, lv),
         NEW l2, NEW x2, NEW lv2, l \notin LinkPCs, l2 \notin LinkPCs,
         l \notin {"f_melt", "f_absorb"},
         l \in EmptyPCs => l2 \in EmptyPCs /\ x2.cur = x.cur,
         Knows(bs, l2, x2), Claimed(bs, l2, x2, lv2)
  PROVE  InOneThread(bs, l2, x2, lv2)
<1>1. Joined(bs, l2, x2)
  BY DEF InOneThread, Joined, AtJoint
<1>2. Linkage(bs, l2, x2)
  BY DEF InOneThread, Linkage, LinkPCs
<1>3. Occupied(bs, l2, x2)
  BY DEF InOneThread, Occupied
<1> QED
  BY <1>1, <1>2, <1>3 DEF InOneThread

(* Only fields that are not about lists or links have changed. *)
LEMMA StillOn ==
  ASSUME NEW bs, NEW cs, Still(bs, cs), SameLinks(bs, cs), AllTidy(cs),
         NEW l, NEW x, NEW lv, InOneThread(bs, l, x, lv)
  PROVE  InOneThread(cs, l, x, lv)
<1>1. Joined(cs, l, x) /\ Knows(cs, l, x) /\ Claimed(cs, l, x, lv) /\ Occupied(cs, l, x)
  BY StillKeeps DEF InOneThread
<1>2. l \in {"i_lock", "i_link", "r_next", "r_unmap"} => x.cur \in DOMAIN bs
  BY DEF InOneThread, Knows
<1>3. Linkage(cs, l, x)
  BY <1>2, LinksStay DEF InOneThread
<1> QED
  BY <1>1, <1>3 DEF InOneThread

-----------------------------------------------------------------------------
(* Claims *)

(* Pebbles in use stay what they are, but for those in X. *)
Undisturbed(bs, cs, X) ==
  \A p : IsPointer(p) /\ InUse(bs, p) /\ p \notin X =>
    /\ InUse(cs, p)
    /\ cs[p.b].list[p.at].size = bs[p.b].list[p.at].size
    /\ cs[p.b].lflags = bs[p.b].lflags /\ cs[p.b].low = bs[p.b].low

(* A block that is not touched stays fit for its caller. *)
LEMMA GoodStays ==
  ASSUME NEW bs, NEW cs, NEW X, Undisturbed(bs, cs, X), NEW p, IsPointer(p), p \notin X,
         NEW req, GoodBlock(bs, p, req)
  PROVE  GoodBlock(cs, p, req)
<1>1. InUse(bs, p)
  BY DEF GoodBlock
<1> QED
  BY <1>1 DEF GoodBlock, Undisturbed, OfKind

Pointers(x, lv) ==
  PointerShape(x.old) /\ PointerShape(x.ret) /\ \A k \in lv : IsPointer(k.p)

(* The blocks of the callers survive what a call does to a pebble it has. *)
LEMMA BlocksStay ==
  ASSUME NEW bs, NEW cs, NEW X, Undisturbed(bs, cs, X),
         NEW l, NEW x, NEW lv, Pointers(x, lv), Claimed(bs, l, x, lv), X \subseteq Claims(l, x)
  PROVE  \A k \in lv : GoodBlock(cs, k.p, k.req) /\ \A m \in lv : m.p = k.p => m = k
<1>1. TAKE k \in lv
<1>2. GoodBlock(bs, k.p, k.req) /\ k.p \notin X /\ IsPointer(k.p)
  BY DEF Claimed, Pointers
<1>3. GoodBlock(cs, k.p, k.req)
  BY <1>2, GoodStays
<1> QED
  BY <1>3 DEF Claimed

(* A call goes on with what it has, or less. *)
LEMMA ClaimsCarry ==
  ASSUME NEW bs, NEW cs, NEW X, Undisturbed(bs, cs, X),
         NEW l, NEW x, NEW lv, Pointers(x, lv), Claimed(bs, l, x, lv), X \subseteq Claims(l, x),
         NEW l2, NEW x2, Claims(l2, x2) \subseteq Claims(l, x) \ X, l2 \notin HerePCs,
         x2.old \in {x.old, NULL}, x2.ret = NULL \/ (x2.ret = x.ret /\ x2.req = x.req)
  PROVE  Claimed(cs, l2, x2, lv)
<1>1. \A k \in lv : GoodBlock(cs, k.p, k.req) /\ \A m \in lv : m.p = k.p => m = k
  BY BlocksStay
<1>2. l2 \notin PlacedPCs
  BY DEF HerePCs
<1>3. ASSUME NEW p \in Claims(l2, x2) PROVE InUse(cs, p)
  <2>1. IsPointer(p)
    BY <1>3 DEF Claims, Pointers, PointerShape
  <2>2. InUse(bs, p) /\ p \notin X
    BY <1>3 DEF Claimed
  <2> QED
    BY <2>1, <2>2 DEF Undisturbed
<1>4. ASSUME x2.ret # NULL PROVE GoodBlock(cs, x2.ret, x2.req)
  <2>1. x2.ret \in Claims(l2, x2)
    BY <1>4 DEF Claims
  <2>2. x2.ret = x.ret /\ x2.req = x.req /\ IsPointer(x.ret) /\ x.ret \notin X
    BY <1>4, <2>1 DEF Pointers, PointerShape
  <2>3. GoodBlock(bs, x.ret, x.req)
    BY <1>4, <2>2 DEF Claimed
  <2> QED
    BY <2>2, <2>3, GoodStays
<1>5. \A k \in lv : k.p \notin Claims(l2, x2)
  BY DEF Claimed
<1> QED
  BY <1>1, <1>2, <1>3, <1>4, <1>5 DEF Claimed

(* A step to a place where it has the same pebbles in hand. *)
LEMMA ClaimsSame ==
  ASSUME NEW bs, NEW l, NEW x, NEW lv, Claimed(bs, l, x, lv), NEW l2,
         l2 \in HerePCs <=> l \in HerePCs, l2 \in AllocPCs <=> l \in AllocPCs,
         l2 \in PlacedPCs <=> l \in PlacedPCs
  PROVE  Claimed(bs, l2, x, lv)
<1>1. Claims(l2, x) = Claims(l, x)
  BY DEF Claims
<1> QED
  BY <1>1 DEF Claimed

(* kmalloc has put a pebble to use that was not. *)
LEMMA ClaimsMore ==
  ASSUME NEW bs, NEW cs, Undisturbed(bs, cs, {}),
         NEW l, NEW x, NEW lv, Pointers(x, lv), Claimed(bs, l, x, lv), l \in AllocPCs \ HerePCs,
         NEW l2 \in {"k_first", "n_largest"}, NEW x2,
         x2.old = x.old, x2.ret = NULL, x.ret = NULL, x2.req = x.req,
         ~InUse(bs, Here(x2)), GoodBlock(cs, Here(x2), x2.req)
  PROVE  Claimed(cs, l2, x2, lv)
<1>1. \A k \in lv : GoodBlock(cs, k.p, k.req) /\ \A m \in lv : m.p = k.p => m = k
  BY BlocksStay
<1>2. Claims(l2, x2) = Claims(l, x) \cup {Here(x2)}
  BY DEF Claims, HerePCs, PlacedPCs, AllocPCs
<1>3. ASSUME NEW p \in Claims(l, x) PROVE InUse(cs, p) /\ p # Here(x2)
  <2>1. IsPointer(p)
    BY <1>3 DEF Claims, Pointers, PointerShape
  <2>2. InUse(bs, p)
    BY <1>3 DEF Claimed
  <2> QED
    BY <2>1, <2>2 DEF Undisturbed
<1>4. InUse(cs, Here(x2))
  BY DEF GoodBlock
<1>5. x.old # NULL => x.old \in Claims(l, x)
  BY DEF Claims
<1>6. \A k \in lv : k.p \notin Claims(l, x) /\ k.p # Here(x2)
  BY DEF Claimed, GoodBlock
<1> QED
  BY <1>1, <1>2, <1>3, <1>4, <1>5, <1>6 DEF Claimed

(* The call is over, and its caller has k. *)
LEMMA ClaimsGive ==
  ASSUME NEW bs, NEW cs, NEW X, Undisturbed(bs, cs, X),
         NEW l, NEW x, NEW lv, Pointers(x, lv), Claimed(bs, l, x, lv), X \subseteq Claims(l, x),
         NEW k, k.p \in Claims(l, x), GoodBlock(cs, k.p, k.req)
  PROVE  Claimed(cs, "idle", NoLocals, lv \cup {k})
<1>1. \A m \in lv : GoodBlock(cs, m.p, m.req) /\ \A n \in lv : n.p = m.p => n = m
  BY BlocksStay
<1>2. Claims("idle", NoLocals) = {} /\ NoLocals.ret = NULL
      /\ "idle" \notin HerePCs /\ "idle" \notin PlacedPCs
  BY DEF Claims, NoLocals, HerePCs, PlacedPCs, AllocPCs, ShrinkPCs
<1>3. \A m \in lv : m.p # k.p
  BY DEF Claimed
<1> QED
  BY <1>1, <1>2, <1>3 DEF Claimed

(* A call begins, with a block its caller gives up. *)
LEMMA ClaimsTake ==
  ASSUME NEW bs, NEW l, NEW x, NEW lv, Claimed(bs, l, x, lv), NEW k \in lv,
         NEW l2, NEW x2, Claims(l2, x2) \subseteq {k.p}, x2.ret = NULL,
         l2 \in HerePCs => l2 \notin AllocPCs,
         l2 \in PlacedPCs => GoodBlock(bs, Here(x2), x2.req)
  PROVE  Claimed(bs, l2, x2, lv \ {k})
<1>1. InUse(bs, k.p)
  BY DEF Claimed, GoodBlock
<1> QED
  BY <1>1 DEF Claimed

(* realloc goes on to free the old block; p is what kmalloc returned. *)
LEMMA ClaimsOld ==
  ASSUME NEW bs, NEW l, NEW x, NEW lv, Claimed(bs, l, x, lv), l \in AllocPCs, IsPointer(x.old),
         x.old # NULL,
         NEW p, p = NULL \/ (l \in PlacedPCs /\ p = Here(x)),
         NEW x2, x2.cur = x.old.b, x2.at = x.old.at, x2.ret = p, x2.req = x.req
  PROVE  Claimed(bs, "f_lock", x2, lv)
<1>1. Here(x2) = x.old
  BY DEF Here, IsPointer
<1>2. /\ "f_lock" \in HerePCs /\ "f_lock" \notin AllocPCs /\ "f_lock" \notin PlacedPCs
      /\ PlacedPCs \subseteq HerePCs
  BY DEF HerePCs, PlacedPCs, AllocPCs, ShrinkPCs
<1>3. Claims("f_lock", x2) = {x.old} \cup (IF p # NULL THEN {p} ELSE {})
  BY <1>1, <1>2 DEF Claims
<1>4. x.old \in Claims(l, x)
  BY DEF Claims
<1>5. p # NULL => p \in Claims(l, x) /\ p # x.old /\ GoodBlock(bs, p, x.req)
  BY <1>2 DEF Claims, Claimed
<1> QED
  BY <1>1, <1>2, <1>3, <1>4, <1>5 DEF Claimed

-----------------------------------------------------------------------------
(* Records *)

(* What the updates of a bucket's record leave as it was. *)
SameEnds(r, s) == r.prev = s.prev /\ r.next = s.next

(* spin_unlock. *)
LEMMA UnlockedFields ==
  ASSUME NEW bk, HasShape(bk)
  PROVE  LET r == Unlocked(bk)
         IN  SameCore(r, bk) /\ SameEnds(r, bk) /\ r.first = bk.first /\ r.largest = bk.largest
  BY DEF HasShape, Unlocked, SameCore, SameEnds

(* bucket_update_largest with a size. *)
LEMMA LargestFields ==
  ASSUME NEW bk, HasShape(bk), NEW n
  PROVE  LET r == bucket_update_largest(bk, n)
         IN  /\ SameCore(r, bk) /\ SameEnds(r, bk) /\ r.first = bk.first
             /\ r.largest = IF n > bk.largest THEN n ELSE bk.largest
  BY DEF HasShape, bucket_update_largest, SameCore, SameEnds

(* Writing first. *)
LEMMA FirstFields ==
  ASSUME NEW bk, HasShape(bk), NEW f
  PROVE  LET r == [bk EXCEPT !.first = f]
         IN  SameCore(r, bk) /\ SameEnds(r, bk) /\ r.first = f /\ r.largest = bk.largest
  BY DEF HasShape, SameCore, SameEnds

(* Writing the list. *)
LEMMA ListFields ==
  ASSUME NEW bk, HasShape(bk), NEW P
  PROVE  LET r == [bk EXCEPT !.list = P]
         IN  /\ r.bytes = bk.bytes /\ r.lflags = bk.lflags /\ r.low = bk.low /\ r.list = P
             /\ SameEnds(r, bk) /\ r.first = bk.first /\ r.largest = bk.largest
  BY DEF HasShape, SameEnds

(* largest may only grow, and first may only be a pebble. *)
LEMMA TidySame ==
  ASSUME NEW s, Tidy(s), NEW r, SameCore(r, s), r.first \in DOMAIN r.list \cup {NULL},
         r.largest \in Nat, r.largest >= s.largest
  PROVE  Tidy(r)
<1>1. \A a \in DOMAIN s.list : s.list[a].size \in Nat
  BY DEF Tidy, Sound, IsList, Pebble
<1> QED
  BY <1>1 DEF Tidy, Bounded, SameCore

(* One bucket's record changes. *)
LEMMA ExceptOne ==
  ASSUME NEW bs, NEW b \in DOMAIN bs, NEW bk, NEW cs, cs = [bs EXCEPT ![b] = bk]
  PROVE  /\ DOMAIN cs = DOMAIN bs /\ cs[b] = bk
         /\ \A c \in DOMAIN bs : c # b => cs[c] = bs[c]
  OBVIOUS

(* That record says the same of its list. *)
LEMMA StillOne ==
  ASSUME NEW bs, AllTidy(bs), KernelHeap \in DOMAIN bs, NEW b \in DOMAIN bs,
         NEW bk, SameCore(bk, bs[b]), SameEnds(bk, bs[b]), Tidy(bk),
         NEW cs, cs = [bs EXCEPT ![b] = bk]
  PROVE  Still(bs, cs) /\ SameLinks(bs, cs) /\ AllTidy(cs)
<1>1. /\ DOMAIN cs = DOMAIN bs /\ cs[b] = bk
      /\ \A c \in DOMAIN bs : c # b => cs[c] = bs[c]
  BY ExceptOne
<1>2. \A c \in DOMAIN bs : SameCore(cs[c], bs[c]) /\ SameEnds(cs[c], bs[c]) /\ Tidy(cs[c])
  BY <1>1 DEF SameCore, SameEnds, AllTidy
<1> QED
  BY <1>1, <1>2 DEF Still, SameLinks, SameEnds, AllTidy

(* Only its fields change: InOneThread is kept. *)
LEMMA OneOn ==
  ASSUME NEW bs, KernelHeap \in DOMAIN bs, NEW b \in DOMAIN bs,
         NEW bk, SameCore(bk, bs[b]), SameEnds(bk, bs[b]), Tidy(bk),
         NEW l, NEW x, NEW lv, InOneThread(bs, l, x, lv)
  PROVE  InOneThread([bs EXCEPT ![b] = bk], l, x, lv)
<1> DEFINE cs == [bs EXCEPT ![b] = bk]
<1>0. cs = [bs EXCEPT ![b] = bk]
  OBVIOUS
<1>1. AllTidy(bs)
  BY DEF InOneThread
<1> HIDE DEF cs
<1>2. Still(bs, cs) /\ SameLinks(bs, cs) /\ AllTidy(cs)
  BY <1>0, <1>1, StillOne
<1>3. InOneThread(cs, l, x, lv)
  BY <1>2, StillOn
<1> QED
  BY <1>3 DEF cs

(* spin_unlock leaves a bucket tidy. *)
LEMMA UnlockedTidy ==
  ASSUME NEW bk, HasShape(bk), Tidy(bk)
  PROVE  Tidy(Unlocked(bk))
<1> DEFINE r == Unlocked(bk)
<1>1. SameCore(r, bk) /\ r.first = bk.first /\ r.largest = bk.largest
  BY UnlockedFields
<1> HIDE DEF r
<1>2. r.first \in DOMAIN r.list \cup {NULL} /\ r.largest \in Nat /\ r.largest >= bk.largest
  BY <1>1 DEF Tidy, Bounded, SameCore
<1>3. Tidy(r)
  BY <1>1, <1>2, TidySame
<1> QED
  BY <1>3 DEF r

(* And so does bucket_update_largest, for it only raises largest. *)
LEMMA LargestTidy ==
  ASSUME NEW bk, HasShape(bk), Tidy(bk), NEW n \in Nat
  PROVE  Tidy(bucket_update_largest(bk, n))
<1> DEFINE r == bucket_update_largest(bk, n)
<1>1. SameCore(r, bk) /\ r.first = bk.first /\ r.largest = IF n > bk.largest THEN n ELSE bk.largest
  BY LargestFields
<1> HIDE DEF r
<1>2. r.first \in DOMAIN r.list \cup {NULL} /\ r.largest \in Nat /\ r.largest >= bk.largest
  BY <1>1 DEF Tidy, Bounded, SameCore
<1>3. Tidy(r)
  BY <1>1, <1>2, TidySame
<1> QED
  BY <1>3 DEF r

(* first = next of a pebble. *)
LEMMA FirstTidy ==
  ASSUME NEW bk, HasShape(bk), Tidy(bk), NEW a \in DOMAIN bk.list
  PROVE  Tidy([bk EXCEPT !.first = bk.list[a].next])
<1> DEFINE r == [bk EXCEPT !.first = bk.list[a].next]
<1>1. SameCore(r, bk) /\ r.first = bk.list[a].next /\ r.largest = bk.largest
  BY FirstFields
<1> HIDE DEF r
<1>2. bk.list[a].next \in DOMAIN bk.list \cup {NULL}
  BY DEF Tidy, Sound, ListWellFormed, LinksAgree
<1>3. r.first \in DOMAIN r.list \cup {NULL} /\ r.largest \in Nat /\ r.largest >= bk.largest
  BY <1>1, <1>2 DEF Tidy, Bounded, SameCore
<1>4. Tidy(r)
  BY <1>1, <1>3, TidySame
<1> QED
  BY <1>4 DEF r

-----------------------------------------------------------------------------
(* What is known of any number of threads, and of this one *)

Grounds == ShapeInv /\ LockInv /\ HeapInv /\ HeapOrder

(* What the invariants for any number of threads say, as the steps below need it. *)
LEMMA KnownBefore ==
  ASSUME Grounds, NEW t \in Threads
  PROVE  /\ KernelHeap \in DOMAIN buckets /\ "PERSISTENT" \in buckets[KernelHeap].lflags
         /\ DOMAIN buckets \subseteq BucketIds /\ NULL \notin BucketIds
         /\ \A b \in DOMAIN buckets : HasShape(buckets[b]) /\ buckets[b].next # KernelHeap
         /\ Pointers(loc[t], live) /\ loc[t].req \in RequestShape
         /\ pc[t] \in AllocPCs => loc[t].ret = NULL
         /\ pc[t] \in AllocPCs \cup ShrinkPCs \/ loc[t].ret # NULL => ProperRequest(loc[t].req)
         /\ \A k \in live : ProperRequest(k.req) /\ IsPointer(k.p)
<1>1. CallOK(t) /\ \A k \in live : ProperRequest(k.req)
  BY DEF Grounds, HeapOrder, Owned, ClaimsOK
<1>2. LocalsShape(loc[t]) /\ \A k \in live : BlockShape(k)
  BY DEF Grounds, ShapeInv, CallsInv
<1> QED
  BY <1>1, <1>2, NullId
  DEF Grounds, ShapeInv, BucketsInv, LockInv, Pointers, CallOK, LocalsShape, BlockShape

(* A step that goes to l, with locals x. *)
LEMMA Gone ==
  ASSUME ShapeInv, NEW t \in Threads
  PROVE  /\ \A l : Goto(t, l) => pc'[t] = l
         /\ \A x : loc' = [loc EXCEPT ![t] = x] => loc'[t] = x
<1>1. DOMAIN pc = Threads
  BY DEF ShapeInv, CallsInv
<1>2. DOMAIN loc = Threads
  BY DEF ShapeInv, CallsInv
<1> QED
  BY <1>1, <1>2 DEF Goto

(* The steps, one by one.  spin_lock: *)
LEMMA OneSpinLock ==
  ASSUME Grounds, NEW t \in Threads, OneInv(t), SpinLock(t)
  PROVE  OneInv(t)'
<1> DEFINE b == LockOf(t)
           bk == [buckets[b] EXCEPT !.spinlock = 1]
           l == pc[t]
           x == loc[t]
<1>1. /\ l \in LockPCs /\ b \in DOMAIN buckets /\ buckets' = [buckets EXCEPT ![b] = bk]
      /\ pc'[t] = AfterLock(l) /\ loc' = loc /\ live' = live
  BY Gone DEF SpinLock, Mapped, Grounds
<1>2. HasShape(buckets[b]) /\ Tidy(buckets[b]) /\ KernelHeap \in DOMAIN buckets
  BY <1>1, KnownBefore DEF OneInv, InOneThread, AllTidy
<1>3. SameCore(bk, buckets[b]) /\ SameEnds(bk, buckets[b])
      /\ bk.first = buckets[b].first /\ bk.largest = buckets[b].largest
  BY <1>2 DEF HasShape, SameCore, SameEnds
<1> HIDE DEF bk
<1>4. Tidy(bk)
  BY <1>2, <1>3, TidySame DEF SameCore, Tidy, Bounded
<1>5. InOneThread(buckets, l, x, live)
  BY DEF OneInv
<1>6. InOneThread(buckets, AfterLock(l), x, live)
  <2>1. CASE l = "i_lock"
    <3>1. AfterLock(l) = "i_link"
      BY <2>1 DEF AfterLock
    <3>2. Claimed(buckets, "i_link", x, live)
      BY <1>5, <2>1, ClaimsSame DEF InOneThread, HerePCs, AllocPCs, PlacedPCs, ShrinkPCs
    <3>3. Joined(buckets, "i_link", x) /\ Knows(buckets, "i_link", x)
      BY <1>5, <2>1 DEF InOneThread, Joined, AtJoint, Knows, NewPCs, GonePCs
    <3>4. Linkage(buckets, "i_link", x) /\ Occupied(buckets, "i_link", x)
      BY <1>5, <2>1 DEF InOneThread, Linkage, Occupied, EmptyPCs, OpenPCs, LoadPCs, TestPCs, NewPCs
    <3> QED
      BY <1>5, <3>1, <3>2, <3>3, <3>4 DEF InOneThread
  <2>2. CASE l # "i_lock"
    <3> DEFINE l2 == AfterLock(l)
    <3>1. \/ l = "k_lock" /\ l2 = "k_try"
          \/ l = "n_lock" /\ l2 = "n_try"
          \/ l = "f_lock" /\ l2 = "f_mark"
          \/ l = "s_lock" /\ l2 = "s_split"
      BY <1>1, <2>2 DEF AfterLock, LockPCs
    <3> HIDE DEF l2
    <3>2. Claimed(buckets, l2, x, live)
      BY <1>5, <3>1, ClaimsSame DEF InOneThread, HerePCs, AllocPCs, PlacedPCs, ShrinkPCs
    <3>3. Knows(buckets, l2, x)
      BY <1>5, <3>1 DEF InOneThread, Knows, NewPCs, GonePCs
    <3>4. /\ l \notin LinkPCs /\ l2 \notin LinkPCs /\ l \notin {"f_melt", "f_absorb"}
          /\ l \in EmptyPCs => l2 \in EmptyPCs
      BY <3>1 DEF LinkPCs, EmptyPCs, OpenPCs, LoadPCs, TestPCs, NewPCs, GonePCs
    <3>5. InOneThread(buckets, l2, x, live)
      BY <1>5, <3>2, <3>3, <3>4, MovesOn
    <3> QED
      BY <3>5 DEF l2
  <2> QED
    BY <2>1, <2>2
<1>7. InOneThread(buckets', AfterLock(l), x, live)
  BY <1>1, <1>2, <1>3, <1>4, <1>6, OneOn
<1> QED
  BY <1>1, <1>7 DEF OneInv

-----------------------------------------------------------------------------
(* kmalloc *)

(* Where no bucket changes no pebble does. *)
LEMMA NothingDisturbed ==
  ASSUME NEW bs
  PROVE  Undisturbed(bs, bs, {})
  BY DEF Undisturbed

(* The places a thread waits at have nothing in hand. *)
LEMMA NoClaims == Claims("idle", NoLocals) = {} /\ NoLocals.ret = NULL /\ NoLocals.old = NULL
  BY DEF Claims, NoLocals, HerePCs, PlacedPCs, AllocPCs, ShrinkPCs

(* A call of kmalloc that ends: its caller, or realloc, has what it found. *)
LEMMA OneKmallocReturns ==
  ASSUME Grounds, NEW t \in Threads, OneInv(t), NEW p, KmallocReturns(t, p),
         \/ pc[t] \in {"k_first", "n_store"} /\ p = Here(loc[t])
         \/ pc[t] = "k_create" /\ p = NULL
  PROVE  InOneThread(buckets, pc'[t], loc'[t], live')
<1> DEFINE l == pc[t]
           x == loc[t]
<1>1. InOneThread(buckets, l, x, live) /\ Claimed(buckets, l, x, live)
  BY DEF OneInv, InOneThread
<1>2. Pointers(x, live) /\ ShapeInv /\ x.ret = NULL
  BY KnownBefore DEF Grounds, AllocPCs
<1>3. l \notin LinkPCs /\ l \notin EmptyPCs /\ l \notin {"f_melt", "f_absorb"} /\ l \in AllocPCs
  BY DEF LinkPCs, EmptyPCs, OpenPCs, LoadPCs, TestPCs, NewPCs, GonePCs, AllocPCs
<1>4. p # NULL => l \in PlacedPCs /\ l \in HerePCs /\ p = Here(x)
  BY DEF PlacedPCs, HerePCs
<1>5. CASE loc[t].op = "realloc" /\ loc[t].old # NULL
  <2> DEFINE x2 == [x EXCEPT !.cur = x.old.b, !.at = x.old.at, !.ret = p]
  <2>1. Goto(t, "f_lock") /\ loc' = [loc EXCEPT ![t] = x2] /\ live' = live
    BY <1>5 DEF KmallocReturns
  <2>2. pc'[t] = "f_lock" /\ loc'[t] = x2 /\ live' = live
    BY <1>2, <2>1, Gone
  <2>3. x2.cur = x.old.b /\ x2.at = x.old.at /\ x2.ret = p /\ x2.req = x.req
    BY DEF Grounds, ShapeInv, CallsInv, LocalsShape
  <2> HIDE DEF x2
  <2>4. IsPointer(x.old)
    BY <1>2, <1>5 DEF Pointers, PointerShape
  <2>5. Claimed(buckets, "f_lock", x2, live)
    BY <1>1, <1>3, <1>4, <1>5, <2>3, <2>4, ClaimsOld
  <2>6. x.old \in Claims(l, x)
    BY <1>3, <1>5 DEF Claims
  <2>7. x2.cur \in DOMAIN buckets
    BY <1>1, <2>3, <2>6 DEF Claimed, InUse
  <2>8. Knows(buckets, "f_lock", x2)
    BY <2>7 DEF Knows, NewPCs, GonePCs
  <2>9. InOneThread(buckets, "f_lock", x2, live)
    BY <1>1, <1>3, <2>5, <2>8, MovesOn DEF LinkPCs
  <2> QED
    BY <2>2, <2>9
<1>6. CASE ~(loc[t].op = "realloc" /\ loc[t].old # NULL)
  <2>1. /\ Goto(t, "idle") /\ loc' = [loc EXCEPT ![t] = NoLocals]
        /\ live' = IF p = NULL THEN live ELSE live \cup {Handed(t, p)}
    BY <1>6 DEF KmallocReturns
  <2>2. pc'[t] = "idle" /\ loc'[t] = NoLocals
    BY <1>2, <2>1, Gone
  <2>3. Claimed(buckets, "idle", NoLocals, live')
    <3>1. CASE p = NULL
      BY <1>1, <1>2, <2>1, <3>1, NoClaims, NothingDisturbed, ClaimsCarry
      DEF HerePCs, PlacedPCs, ShrinkPCs
    <3>2. CASE p # NULL
      <4>1. Handed(t, p).p = p /\ Handed(t, p).req = x.req
        BY DEF Handed
      <4>2. p \in Claims(l, x) /\ GoodBlock(buckets, p, x.req)
        BY <1>1, <1>4, <3>2 DEF Claims, Claimed
      <4>3. live' = live \cup {Handed(t, p)}
        BY <2>1, <3>2
      <4> QED
        BY <1>1, <1>2, <4>1, <4>2, <4>3, NothingDisturbed, ClaimsGive
    <3> QED
      BY <3>1, <3>2
  <2>4. Knows(buckets, "idle", NoLocals)
    BY DEF Knows, NewPCs, GonePCs
  <2>5. InOneThread(buckets, "idle", NoLocals, live')
    BY <1>1, <1>3, <2>3, <2>4, MovesOn DEF LinkPCs
  <2> QED
    BY <2>2, <2>5
<1> QED
  BY <1>5, <1>6

(* place_pebble has chosen a pebble of the bucket. *)
LEMMA OneFound ==
  ASSUME Grounds, NEW t \in Threads, OneInv(t), NEW l2, Found(t, l2),
         \/ pc[t] = "k_try" /\ l2 = "k_split"
         \/ pc[t] = "n_try" /\ l2 = "n_split",
         OfKind(buckets[loc[t].cur], loc[t].req)
  PROVE  OneInv(t)'
<1> DEFINE bk == buckets[loc[t].cur]
           w == Wanted(loc[t].req)
           l == pc[t]
           x == loc[t]
           x2 == [x EXCEPT !.at = FirstFound(bk, w)]
<1>1. /\ Fitting(bk, w) # {} /\ Goto(t, l2) /\ loc' = [loc EXCEPT ![t] = x2]
      /\ buckets' = buckets /\ live' = live
  BY DEF Found
<1>2. pc'[t] = l2 /\ loc'[t] = x2
  BY <1>1, Gone DEF Grounds
<1>3. /\ x2.cur = x.cur /\ x2.at = FirstFound(bk, w) /\ x2.old = x.old /\ x2.ret = x.ret
      /\ x2.req = x.req
  BY DEF Grounds, ShapeInv, CallsInv, LocalsShape
<1> HIDE DEF x2
<1>4. InOneThread(buckets, l, x, live) /\ Claimed(buckets, l, x, live)
  BY DEF OneInv, InOneThread
<1>5. x.cur \in DOMAIN buckets
  BY <1>4 DEF InOneThread, Knows
<1>6. DOMAIN bk.list \subseteq Nat
  BY <1>4, <1>5 DEF InOneThread, AllTidy, Tidy, Sound, IsList
<1>7. FirstFound(bk, w) \in Fitting(bk, w)
  BY <1>1, <1>6, FirstFoundFits
<1>8. Knows(buckets, l2, x2)
  BY <1>3, <1>5, <1>7 DEF Knows, NewPCs, GonePCs
<1>9. /\ l2 \notin HerePCs /\ l \notin HerePCs /\ l2 \in AllocPCs /\ l \in AllocPCs
      /\ l \notin LinkPCs /\ l2 \notin LinkPCs /\ l \notin {"f_melt", "f_absorb"}
      /\ l \in EmptyPCs => l2 \in EmptyPCs
  BY DEF HerePCs, PlacedPCs, ShrinkPCs, AllocPCs, LinkPCs, EmptyPCs, OpenPCs, LoadPCs, TestPCs, NewPCs, GonePCs
<1>10. Claims(l2, x2) = Claims(l, x)
  BY <1>3, <1>9 DEF Claims
<1>11. Claimed(buckets, l2, x2, live)
  BY <1>3, <1>4, <1>9, <1>10, KnownBefore, NothingDisturbed, ClaimsCarry
<1>12. InOneThread(buckets, l2, x2, live)
  BY <1>3, <1>4, <1>8, <1>9, <1>11, MovesOn
<1> QED
  BY <1>1, <1>2, <1>12 DEF OneInv

(* The walk over the buckets looks into one. *)
LEMMA OneWalkTry ==
  ASSUME Grounds, NEW t \in Threads, OneInv(t), WalkTry(t)
  PROVE  OneInv(t)'
<1> DEFINE b == loc[t].cur
           x == loc[t]
           bk == Unlocked(buckets[b])
<1>1. pc[t] = "k_try" /\ b \in DOMAIN buckets
  BY DEF WalkTry, Mapped
<1>2. InOneThread(buckets, "k_try", x, live)
  BY <1>1 DEF OneInv
<1>3. HasShape(buckets[b]) /\ Tidy(buckets[b]) /\ KernelHeap \in DOMAIN buckets
  BY <1>1, <1>2, KnownBefore DEF InOneThread, AllTidy
<1>4. ASSUME NEW l2 \in {"hang", "k_next"} PROVE InOneThread(buckets, l2, x, live)
  <2>1. Claimed(buckets, l2, x, live)
    BY <1>2, ClaimsSame DEF InOneThread, HerePCs, PlacedPCs, AllocPCs, ShrinkPCs
  <2>2. Knows(buckets, l2, x)
    BY <1>1 DEF Knows, NewPCs, GonePCs
  <2> QED
    BY <1>2, <2>1, <2>2, MovesOn DEF LinkPCs, EmptyPCs, OpenPCs, LoadPCs, TestPCs, NewPCs, GonePCs
<1>5. CASE Suits(buckets[b], loc[t].req) /\ Found(t, "k_split")
  BY <1>1, <1>5, OneFound DEF Suits, OfKind
<1>6. CASE FoundNever(t)
  <2>1. pc'[t] = "hang" /\ loc' = loc /\ live' = live /\ buckets' = buckets
    BY <1>6, Gone DEF FoundNever, Grounds
  <2> QED
    BY <1>4, <2>1 DEF OneInv
<1>7. CASE /\ buckets' = [buckets EXCEPT ![b] = bk]
           /\ Goto(t, "k_next") /\ UNCHANGED <<loc, live>>
  <2>1. pc'[t] = "k_next" /\ loc' = loc /\ live' = live
    BY <1>7, Gone DEF Grounds
  <2>2. SameCore(bk, buckets[b]) /\ SameEnds(bk, buckets[b]) /\ Tidy(bk)
    BY <1>3, UnlockedFields, UnlockedTidy
  <2> HIDE DEF bk
  <2>3. InOneThread(buckets, "k_next", x, live)
    BY <1>4
  <2>4. InOneThread(buckets', "k_next", x, live)
    BY <1>1, <1>3, <1>7, <2>2, <2>3, OneOn
  <2> QED
    BY <2>1, <2>4 DEF OneInv
<1> QED
  BY <1>5, <1>6, <1>7 DEF WalkTry

(* bucket = bucket->next: the buckets are linked. *)
LEMMA OneWalkNext ==
  ASSUME Grounds, NEW t \in Threads, OneInv(t), WalkNext(t)
  PROVE  OneInv(t)'
<1> DEFINE x == loc[t]
           n == buckets[x.cur].next
           x2 == [x EXCEPT !.cur = n]
           l2 == IF n = NULL THEN "k_create" ELSE "k_lock"
<1>1. /\ pc[t] = "k_next" /\ x.cur \in DOMAIN buckets /\ Goto(t, l2)
      /\ loc' = [loc EXCEPT ![t] = x2] /\ buckets' = buckets /\ live' = live
  BY DEF WalkNext, Mapped
<1>2. pc'[t] = l2 /\ loc'[t] = x2
  BY <1>1, Gone DEF Grounds
<1>3. x2.cur = n /\ x2.old = x.old /\ x2.ret = x.ret /\ x2.req = x.req
  BY DEF Grounds, ShapeInv, CallsInv, LocalsShape
<1> HIDE DEF x2
<1>4. InOneThread(buckets, "k_next", x, live) /\ Claimed(buckets, "k_next", x, live)
  BY <1>1 DEF OneInv, InOneThread
<1>5. n # NULL => n \in DOMAIN buckets
  BY <1>1, <1>4 DEF InOneThread, Linkage, Linked, NextIn
<1>6. Knows(buckets, l2, x2)
  BY <1>3, <1>5 DEF Knows, NewPCs, GonePCs
<1>7. Claims(l2, x2) = Claims("k_next", x) /\ l2 \notin HerePCs
  BY <1>3 DEF Claims, HerePCs, PlacedPCs, ShrinkPCs, AllocPCs
<1>8. Claimed(buckets, l2, x2, live)
  BY <1>3, <1>4, <1>7, KnownBefore, NothingDisturbed, ClaimsCarry
<1>9. InOneThread(buckets, l2, x2, live)
  BY <1>4, <1>6, <1>8, MovesOn DEF LinkPCs, EmptyPCs, OpenPCs, LoadPCs, TestPCs, NewPCs, GonePCs
<1> QED
  BY <1>1, <1>2, <1>9 DEF OneInv

(* bucket->first = ret->next, in a bucket of the walk. *)
LEMMA OneWalkFirst ==
  ASSUME Grounds, NEW t \in Threads, OneInv(t), WalkFirst(t)
  PROVE  OneInv(t)'
<1> DEFINE b  == loc[t].cur
           o  == buckets[b]
           f  == [o EXCEPT !.first = o.list[loc[t].at].next]
           g  == bucket_update_largest(f, Wanted(loc[t].req).size)
           bk == Unlocked(g)
<1>1. /\ pc[t] = "k_first" /\ b \in DOMAIN buckets /\ loc[t].at \in DOMAIN o.list
      /\ buckets' = [buckets EXCEPT ![b] = bk]
      /\ KmallocReturns(t, [b |-> b, at |-> loc[t].at])
  BY DEF WalkFirst, AtHand, Mapped
<1>2. HasShape(o) /\ Tidy(o) /\ KernelHeap \in DOMAIN buckets
      /\ Wanted(loc[t].req).size \in Nat
  BY <1>1, KnownBefore, WantedShape DEF OneInv, InOneThread, AllTidy
<1>3. SameCore(f, o) /\ SameEnds(f, o) /\ Tidy(f) /\ HasShape(f)
  BY <1>1, <1>2, FirstFields, FirstTidy, FirstShape
<1> HIDE DEF f
<1>4. SameCore(g, f) /\ SameEnds(g, f) /\ Tidy(g) /\ HasShape(g)
  BY <1>2, <1>3, LargestFields, LargestTidy, UpdateLargestShape
<1> HIDE DEF g
<1>5. SameCore(bk, g) /\ SameEnds(bk, g) /\ Tidy(bk)
  BY <1>4, UnlockedFields, UnlockedTidy
<1> HIDE DEF bk
<1>6. SameCore(bk, o) /\ SameEnds(bk, o)
  BY <1>3, <1>4, <1>5 DEF SameCore, SameEnds
<1>7. InOneThread(buckets, pc'[t], loc'[t], live')
  BY <1>1, OneKmallocReturns DEF Here
<1>8. PICK l, x, lv : l = pc'[t] /\ x = loc'[t] /\ lv = live'
  OBVIOUS
<1>9. InOneThread(buckets', l, x, lv)
  BY <1>1, <1>2, <1>5, <1>6, <1>7, <1>8, OneOn
<1> QED
  BY <1>8, <1>9 DEF OneInv

(* The new bucket has room: NewBucketFits. *)
LEMMA OneNewTry ==
  ASSUME Grounds, NEW t \in Threads, OneInv(t), NewTry(t)
  PROVE  OneInv(t)'
<1>1. pc[t] = "n_try"
  BY DEF NewTry
<1>2. Knows(buckets, "n_try", loc[t])
  BY <1>1 DEF OneInv, InOneThread
<1>3. /\ Fitting(buckets[loc[t].cur], Wanted(loc[t].req)) # {}
      /\ OfKind(buckets[loc[t].cur], loc[t].req)
  BY <1>2 DEF Knows, NewPCs
<1>4. Found(t, "n_split")
  BY <1>3 DEF NewTry, FoundNever, WalksForever, FoundNothing
<1> QED
  BY <1>1, <1>3, <1>4, OneFound

(* bucket_update_largest in the new bucket, and the unlock. *)
LEMMA OneNewLargest ==
  ASSUME Grounds, NEW t \in Threads, OneInv(t), NewLargest(t)
  PROVE  OneInv(t)'
<1> DEFINE b  == loc[t].cur
           o  == buckets[b]
           g  == bucket_update_largest(o, Wanted(loc[t].req).size)
           bk == Unlocked(g)
           x  == loc[t]
<1>1. /\ pc[t] = "n_largest" /\ b \in DOMAIN buckets
      /\ buckets' = [buckets EXCEPT ![b] = bk] /\ pc'[t] = "n_first" /\ loc' = loc /\ live' = live
  BY Gone DEF NewLargest, Mapped, Grounds
<1>2. HasShape(o) /\ Tidy(o) /\ KernelHeap \in DOMAIN buckets
      /\ Wanted(loc[t].req).size \in Nat
  BY <1>1, KnownBefore, WantedShape DEF OneInv, InOneThread, AllTidy
<1>3. SameCore(g, o) /\ SameEnds(g, o) /\ Tidy(g) /\ HasShape(g)
  BY <1>2, LargestFields, LargestTidy, UpdateLargestShape
<1> HIDE DEF g
<1>4. SameCore(bk, g) /\ SameEnds(bk, g) /\ Tidy(bk)
  BY <1>3, UnlockedFields, UnlockedTidy
<1> HIDE DEF bk
<1>5. SameCore(bk, o) /\ SameEnds(bk, o)
  BY <1>3, <1>4 DEF SameCore, SameEnds
<1>6. InOneThread(buckets, "n_largest", x, live)
  BY <1>1 DEF OneInv
<1>7. Claimed(buckets, "n_first", x, live)
  BY <1>6, ClaimsSame DEF InOneThread, HerePCs, PlacedPCs, AllocPCs, ShrinkPCs
<1>8. Knows(buckets, "n_first", x)
  BY <1>1 DEF Knows, NewPCs, GonePCs
<1>9. InOneThread(buckets, "n_first", x, live)
  BY <1>6, <1>7, <1>8, MovesOn DEF LinkPCs, EmptyPCs, OpenPCs, LoadPCs, TestPCs, NewPCs, GonePCs
<1>10. InOneThread(buckets', "n_first", x, live)
  BY <1>1, <1>2, <1>4, <1>5, <1>9, OneOn
<1> QED
  BY <1>1, <1>10 DEF OneInv

(* bucket->first = ret->next in the new bucket, after the unlock: the load, *)
LEMMA OneNewFirst ==
  ASSUME Grounds, NEW t \in Threads, OneInv(t), NewFirst(t)
  PROVE  OneInv(t)' /\ OneLooks(t)'
<1>1. PICK bs, x, lv, n : bs = buckets /\ x = loc[t] /\ lv = live /\ n = bs[x.cur].list[x.at].next
  OBVIOUS
<1> DEFINE x2 == [x EXCEPT !.reg = n]
<1>2. /\ pc[t] = "n_first" /\ x.cur \in DOMAIN bs
      /\ buckets' = bs /\ pc'[t] = "n_store" /\ loc' = [loc EXCEPT ![t] = x2] /\ live' = lv
  BY <1>1, Gone DEF NewFirst, AtHand, Mapped, Grounds
<1>3. loc'[t] = x2
  BY <1>2, Gone DEF Grounds
<1>4. x2.cur = x.cur /\ x2.at = x.at /\ x2.old = x.old /\ x2.ret = x.ret /\ x2.req = x.req
      /\ x2.reg = n
  BY <1>1 DEF Grounds, ShapeInv, CallsInv, LocalsShape
<1> HIDE DEF x2
<1>5. InOneThread(bs, "n_first", x, lv)
  BY <1>1, <1>2 DEF OneInv
<1>6. Claimed(bs, "n_store", x, lv)
  BY <1>5, ClaimsSame DEF InOneThread, HerePCs, PlacedPCs, AllocPCs, ShrinkPCs
<1>7. Claims("n_store", x2) = Claims("n_store", x) /\ Here(x2) = Here(x)
  BY <1>4 DEF Claims, Here
<1>8. Claimed(bs, "n_store", x2, lv)
  BY <1>4, <1>6, <1>7 DEF Claimed
<1>9. Knows(bs, "n_store", x2)
  BY <1>2, <1>4 DEF Knows, NewPCs, GonePCs
<1>10. InOneThread(bs, "n_store", x2, lv)
  BY <1>5, <1>8, <1>9, MovesOn DEF LinkPCs, EmptyPCs, OpenPCs, LoadPCs, TestPCs, NewPCs, GonePCs
<1>11. Looks(bs, "n_store", x2)
  BY <1>1, <1>4 DEF Looks, OpenPCs, LoadPCs, TestPCs
<1> QED
  BY <1>2, <1>3, <1>10, <1>11 DEF OneInv, OneLooks

(* and the store. *)
LEMMA OneNewFirstStore ==
  ASSUME Grounds, NEW t \in Threads, OneInv(t), OneLooks(t), NewFirstStore(t)
  PROVE  OneInv(t)'
<1> DEFINE b  == loc[t].cur
           o  == buckets[b]
           bk == [o EXCEPT !.first = loc[t].reg]
<1>1. /\ pc[t] = "n_store" /\ b \in DOMAIN buckets
      /\ buckets' = [buckets EXCEPT ![b] = bk]
      /\ KmallocReturns(t, [b |-> b, at |-> loc[t].at])
  BY DEF NewFirstStore, Mapped
<1>2. HasShape(o) /\ Tidy(o) /\ KernelHeap \in DOMAIN buckets
  BY <1>1, KnownBefore DEF OneInv, InOneThread, AllTidy
<1>3. loc[t].at \in DOMAIN o.list
  <2>1. Here(loc[t]) \in Claims(pc[t], loc[t])
    BY <1>1 DEF Claims, HerePCs, PlacedPCs
  <2> QED
    BY <2>1 DEF OneInv, InOneThread, Claimed, InUse, Here, UsedAt
<1>4. loc[t].reg = o.list[loc[t].at].next
  BY <1>1 DEF OneLooks, Looks
<1>5. SameCore(bk, o) /\ SameEnds(bk, o) /\ Tidy(bk)
  BY <1>2, <1>3, <1>4, FirstFields, FirstTidy
<1> HIDE DEF bk
<1>6. InOneThread(buckets, pc'[t], loc'[t], live')
  BY <1>1, OneKmallocReturns DEF Here
<1>7. PICK l, x, lv : l = pc'[t] /\ x = loc'[t] /\ lv = live'
  OBVIOUS
<1>8. InOneThread(buckets', l, x, lv)
  BY <1>1, <1>2, <1>5, <1>6, <1>7, OneOn
<1> QED
  BY <1>7, <1>8 DEF OneInv

-----------------------------------------------------------------------------
(* Calls *)

(* kmalloc begins with the first bucket, and with old of realloc. *)
LEMMA OneStart ==
  ASSUME Grounds, NEW t \in Threads, OneInv(t), pc[t] = "idle", buckets' = buckets,
         NEW op, NEW req, NEW old, StartKmalloc(t, op, req, old),
         \/ old = NULL /\ live' = live
         \/ \E k \in live : old = k.p /\ live' = live \ {k}
  PROVE  OneInv(t)'
<1> DEFINE x == loc[t]
           x2 == [NoLocals EXCEPT !.op = op, !.req = req, !.cur = KernelHeap, !.old = old]
<1>1. /\ Goto(t, "k_lock") /\ loc' = [loc EXCEPT ![t] = x2]
  BY DEF StartKmalloc
<1>2. pc'[t] = "k_lock" /\ loc'[t] = x2
  BY <1>1, Gone DEF Grounds
<1>3. x2.cur = KernelHeap /\ x2.old = old /\ x2.ret = NULL
  BY DEF NoLocals
<1> HIDE DEF x2
<1>4. InOneThread(buckets, "idle", x, live) /\ Claimed(buckets, "idle", x, live)
  BY DEF OneInv, InOneThread
<1>5. "k_lock" \notin HerePCs /\ "k_lock" \notin PlacedPCs /\ "k_lock" \in AllocPCs
  BY DEF HerePCs, PlacedPCs, ShrinkPCs, AllocPCs
<1>6. Claims("k_lock", x2) = IF old # NULL THEN {old} ELSE {}
  BY <1>3, <1>5 DEF Claims
<1>7. Claimed(buckets, "k_lock", x2, live')
  <2>1. CASE old = NULL /\ live' = live
    BY <1>3, <1>4, <1>5, <1>6, <2>1, KnownBefore, NothingDisturbed, ClaimsCarry
  <2>2. CASE \E k \in live : old = k.p /\ live' = live \ {k}
    <3>1. PICK k \in live : old = k.p /\ live' = live \ {k}
      BY <2>2
    <3>2. Claimed(buckets, "k_lock", x2, live \ {k})
      BY <1>3, <1>4, <1>5, <1>6, <3>1, ClaimsTake
    <3> QED
      BY <3>1, <3>2
  <2> QED
    BY <2>1, <2>2
<1>8. Knows(buckets, "k_lock", x2)
  BY <1>3, KnownBefore DEF Knows, NewPCs, GonePCs
<1>9. InOneThread(buckets, "k_lock", x2, live')
  BY <1>4, <1>7, <1>8, MovesOn DEF LinkPCs, EmptyPCs, OpenPCs, LoadPCs, TestPCs, NewPCs, GonePCs
<1> QED
  BY <1>2, <1>9 DEF OneInv

(* A caller asks for memory. *)
LEMMA OneKmalloc ==
  ASSUME Grounds, NEW t \in Threads, OneInv(t), Kmalloc(t)
  PROVE  OneInv(t)'
<1>1. PICK size \in Sizes, flags \in FlagSets, alignment \in Alignments \cup {1} :
        StartKmalloc(t, "kmalloc",
          [size |-> size, alignment |-> alignment, flags |-> Default(flags)], NULL)
  BY DEF Kmalloc
<1>2. pc[t] = "idle" /\ buckets' = buckets /\ live' = live
  BY DEF Kmalloc
<1> QED
  BY <1>1, <1>2, OneStart

(* A call that begins with the block k in hand. *)
LEMMA OneTakes ==
  ASSUME Grounds, NEW t \in Threads, OneInv(t), pc[t] = "idle", buckets' = buckets,
         NEW k \in live, live' = live \ {k},
         NEW l2 \in {"f_lock", "s_lock"}, Goto(t, l2),
         NEW x2, loc' = [loc EXCEPT ![t] = x2],
         x2.cur = k.p.b, x2.at = k.p.at, x2.ret = NULL,
         l2 = "s_lock" => GoodBlock(buckets, k.p, x2.req)
  PROVE  OneInv(t)'
<1> DEFINE x == loc[t]
<1>1. pc'[t] = l2 /\ loc'[t] = x2
  BY Gone DEF Grounds
<1>2. InOneThread(buckets, "idle", x, live) /\ Claimed(buckets, "idle", x, live)
  BY DEF OneInv, InOneThread
<1>3. IsPointer(k.p)
  BY KnownBefore
<1>4. Here(x2) = k.p
  BY <1>3 DEF Here, IsPointer
<1>5. l2 \in HerePCs /\ l2 \notin AllocPCs /\ (l2 \in PlacedPCs => l2 = "s_lock")
  BY DEF HerePCs, PlacedPCs, ShrinkPCs, AllocPCs
<1>6. Claims(l2, x2) \subseteq {k.p}
  BY <1>4, <1>5 DEF Claims
<1>7. Claimed(buckets, l2, x2, live \ {k})
  BY <1>2, <1>4, <1>5, <1>6, ClaimsTake
<1>8. k.p.b \in DOMAIN buckets
  BY <1>2 DEF Claimed, GoodBlock, InUse
<1>9. Knows(buckets, l2, x2)
  BY <1>8 DEF Knows, NewPCs, GonePCs
<1>10. InOneThread(buckets, l2, x2, live \ {k})
  BY <1>2, <1>7, <1>9, MovesOn DEF LinkPCs, EmptyPCs, OpenPCs, LoadPCs, TestPCs, NewPCs, GonePCs
<1> QED
  BY <1>1, <1>10 DEF OneInv

(* A caller gives a block back. *)
LEMMA OneMfree ==
  ASSUME Grounds, NEW t \in Threads, OneInv(t), Mfree(t)
  PROVE  OneInv(t)'
<1>1. PICK k \in live :
        /\ live' = live \ {k}
        /\ loc' = [loc EXCEPT ![t] = [NoLocals EXCEPT !.op = "mfree", !.cur = k.p.b,
                                                      !.at = k.p.at]]
  BY DEF Mfree
<1> DEFINE x2 == [NoLocals EXCEPT !.op = "mfree", !.cur = k.p.b, !.at = k.p.at]
<1>2. pc[t] = "idle" /\ Goto(t, "f_lock") /\ buckets' = buckets
      /\ loc' = [loc EXCEPT ![t] = x2]
  BY <1>1 DEF Mfree
<1>3. x2.cur = k.p.b /\ x2.at = k.p.at /\ x2.ret = NULL
  BY DEF NoLocals
<1> HIDE DEF x2
<1> QED
  BY <1>1, <1>2, <1>3, OneTakes

(* A caller asks for a smaller block. *)
LEMMA OneReallocShrink ==
  ASSUME Grounds, NEW t \in Threads, OneInv(t), ReallocShrink(t)
  PROVE  OneInv(t)'
<1>1. PICK k \in live, size \in ReallocSizes \ {0} :
        /\ size <= buckets[k.p.b].list[k.p.at].size
        /\ live' = live \ {k}
        /\ loc' = [loc EXCEPT ![t] =
             [NoLocals EXCEPT !.op = "realloc", !.cur = k.p.b, !.at = k.p.at,
                !.req = [k.req EXCEPT !.size = size]]]
  BY DEF ReallocShrink
<1> DEFINE req == [k.req EXCEPT !.size = size]
           x2 == [NoLocals EXCEPT !.op = "realloc", !.cur = k.p.b, !.at = k.p.at, !.req = req]
<1>2. pc[t] = "idle" /\ Goto(t, "s_lock") /\ buckets' = buckets
      /\ loc' = [loc EXCEPT ![t] = x2]
  BY <1>1 DEF ReallocShrink
<1>3. k.req \in RequestShape
  BY DEF Grounds, ShapeInv, CallsInv, BlockShape
<1>4. req.size = size /\ req.alignment = k.req.alignment /\ req.flags = k.req.flags
  BY <1>3 DEF RequestShape
<1>5. GoodBlock(buckets, k.p, k.req)
  BY DEF OneInv, InOneThread, Claimed
<1> HIDE DEF req
<1>6. GoodBlock(buckets, k.p, req)
  BY <1>1, <1>4, <1>5 DEF GoodBlock, OfKind
<1>7. x2.cur = k.p.b /\ x2.at = k.p.at /\ x2.ret = NULL /\ x2.req = req
  BY DEF NoLocals
<1> HIDE DEF x2
<1> QED
  BY <1>1, <1>2, <1>6, <1>7, OneTakes

(* A caller asks for a larger block. *)
LEMMA OneReallocGrow ==
  ASSUME Grounds, NEW t \in Threads, OneInv(t), ReallocGrow(t)
  PROVE  OneInv(t)'
<1> DEFINE Asks(k, size) ==
             [size |-> size, alignment |-> 1,
              flags |-> ReallocFlags(buckets[k.p.b].list[k.p.at].lflags)]
           Local(k, req) == [NoLocals EXCEPT !.op = "realloc", !.req = req, !.old = k.p,
                                             !.cur = k.p.b, !.at = k.p.at]
<1>1. PICK k \in live, size \in ReallocSizes \ {0} :
        /\ live' = live \ {k}
        /\ IF Refused(Asks(k, size).flags)
           THEN Goto(t, "f_lock") /\ loc' = [loc EXCEPT ![t] = Local(k, Asks(k, size))]
           ELSE StartKmalloc(t, "realloc", Asks(k, size), k.p)
  BY DEF ReallocGrow
<1>2. pc[t] = "idle" /\ buckets' = buckets
  BY DEF ReallocGrow
<1> DEFINE req == Asks(k, size)
           x2 == Local(k, req)
<1>3. CASE Refused(req.flags)
  <2>1. Goto(t, "f_lock") /\ loc' = [loc EXCEPT ![t] = x2]
    BY <1>1, <1>3
  <2>2. x2.cur = k.p.b /\ x2.at = k.p.at /\ x2.ret = NULL
    BY DEF NoLocals
  <2> HIDE DEF x2
  <2> QED
    BY <1>1, <1>2, <2>1, <2>2, OneTakes
<1>4. CASE ~Refused(req.flags)
  <2>1. StartKmalloc(t, "realloc", req, k.p)
    BY <1>1, <1>4
  <2> HIDE DEF req
  <2> QED
    BY <1>1, <1>2, <2>1, OneStart
<1> QED
  BY <1>3, <1>4

-----------------------------------------------------------------------------
(* A new bucket *)

(* The list of a new bucket is one free pebble, and its fields say so. *)
LEMMA NewBucketTidy ==
  ASSUME NEW size \in Nat, NEW flags \in SUBSET MallocFlags, NEW low
  PROVE  LET r == create_bucket(size, flags, low)
         IN  /\ Tidy(r) /\ FreeAt(r.list) = {FirstPebble} /\ UsedAt(r.list) = {}
             /\ Seams(r.list) = {}
             /\ r.list[FirstPebble].size = BucketBytes(size, flags) - BUCKET_SZ - PEBBLE_SZ
             /\ r.lflags = flags
<1> DEFINE bytes == BucketBytes(size, flags)
           largest == bytes - BUCKET_SZ - PEBBLE_SZ
           p == [lflags |-> flags \cap {"ALIGNED"}, size |-> largest,
                 prev |-> NULL, next |-> NULL]
           P == [a \in {FirstPebble} |-> p]
           r == create_bucket(size, flags, low)
<1>1. /\ bytes \in Nat /\ bytes >= 65536 + 192 /\ bytes % 4096 = 0
  BY BucketBytesRange DEF ALLOC_MIN, BUCKET_SZ, PEBBLE_SZ, PAGE_SIZE
<1>2. /\ r.list = P /\ r.bytes = bytes /\ r.largest = largest /\ r.first = FirstPebble
      /\ r.lflags = flags
  BY DEF create_bucket
<1>3. PICK n : n = bytes
  OBVIOUS
<1>4. n \in Nat /\ n >= 65728 /\ n % 64 = 0
  BY <1>1, <1>3
<1>5. largest = n - 192 /\ largest \in Nat /\ largest % 64 = 0
  BY <1>3, <1>4 DEF BUCKET_SZ, PEBBLE_SZ
<1>6. p \in Pebble /\ p.size = largest /\ p.next = NULL /\ p.prev = NULL
      /\ PEBBLE_IS_FREE(p)
  BY <1>5 DEF Pebble, PebbleFlags, PEBBLE_IS_FREE
<1> HIDE DEF p
<1>7. DOMAIN P = {64} /\ P[64] = p /\ FirstPebble = 64
  BY DEF FirstPebble, BUCKET_SZ
<1>8. NULL # 64
  BY NullAssumption
<1>9. IsList(P)
  BY <1>6, <1>7 DEF IsList
<1>10. EndOf(P, 64) = n
  BY <1>4, <1>5, <1>6, <1>7 DEF EndOf, PEBBLE_SZ
<1>11. ListWellFormed(P, n)
  BY <1>4, <1>6, <1>7, <1>8, <1>10 DEF ListWellFormed, LinksAgree, InOrder, Inside
<1>12. OnGrid(P)
  BY <1>5, <1>6, <1>7 DEF OnGrid, PEBBLE_MIN_ALIGN
<1>13. FreeAt(P) = {64} /\ UsedAt(P) = {} /\ Seams(P) = {}
  BY <1>6, <1>7, <1>8 DEF FreeAt, UsedAt, Seams
<1> HIDE DEF P, largest, bytes, r
<1>14. Tidy(r)
  BY <1>2, <1>3, <1>5, <1>6, <1>7, <1>9, <1>11, <1>12 DEF Tidy, Sound, Bounded
<1> QED
  BY <1>2, <1>6, <1>7, <1>13, <1>14 DEF r, largest, bytes

(* It is large enough for what it was made for, however that is rounded and
   aligned. *)
LEMMA NewBucketRoom ==
  ASSUME NEW req \in RequestShape
  PROVE  BucketBytes(NewBucketSize(req), req.flags) - BUCKET_SZ - PEBBLE_SZ
           >= NeededSize(Wanted(req))
<1> DEFINE s == AtLeast(req.size, 64)
           a == IF "ALIGNED" \in req.flags THEN AtLeast(req.alignment, 64) + 128 ELSE 0
           least == IF NewBucketSize(req) < ALLOC_MIN THEN ALLOC_MIN ELSE NewBucketSize(req)
           pages == RoundUp(least, 4096)
<1>1. s \in Nat /\ a \in Nat /\ a % 64 = 0
  BY DEF RequestShape, WantedAlignments, AtLeast
<1>2. NewBucketSize(req) = s + 192 + a
  BY <1>1 DEF NewBucketSize, PEBBLE_MIN_SIZE, BUCKET_SZ, PEBBLE_SZ, PEBBLE_MIN_ALIGN, AtLeast,
     RequestShape
<1>3. NeededSize(Wanted(req)) =
        RoundUp(s, IF "PHYSICAL" \in req.flags THEN 4096 ELSE 64) + a
  <2>1. "ALIGNED" \in Wanted(req).lflags <=> "ALIGNED" \in req.flags
    BY DEF Wanted
  <2>2. /\ Wanted(req).alignment = AtLeast(req.alignment, 64)
        /\ Wanted(req).size = RoundUp(s, IF "PHYSICAL" \in req.flags THEN 4096 ELSE 64)
    BY DEF Wanted, PEBBLE_MIN_ALIGN, PEBBLE_MIN_SIZE, PAGE_SIZE
  <2>3. Wanted(req).size \in Nat
    BY WantedShape
  <2>4. AtLeast(req.alignment, 64) \in Nat
    BY DEF AtLeast, RequestShape, WantedAlignments
  <2> QED
    BY <2>1, <2>2, <2>3, <2>4 DEF NeededSize, PEBBLE_SZ
<1>4. least \in Nat /\ least >= s + 192 + a
  BY <1>1, <1>2 DEF ALLOC_MIN, BUCKET_SZ, PEBBLE_SZ
<1> HIDE DEF s, a, least
<1>5. pages \in Nat /\ pages >= least /\ pages % 64 = 0
  BY <1>4 DEF RoundUp, RoundDown
<1>6. BucketBytes(NewBucketSize(req), req.flags) =
        IF "PHYSICAL" \in req.flags THEN pages + 4096 ELSE pages
  BY DEF BucketBytes, PAGE_SIZE, least
<1> HIDE DEF pages
<1>7. CASE "PHYSICAL" \in req.flags
  <2>1. RoundUp(s, 4096) \in Nat /\ RoundUp(s, 4096) <= s + 4095
    BY <1>1 DEF RoundUp, RoundDown
  <2>2. PICK y \in Nat : y = RoundUp(s, 4096)
    BY <2>1
  <2> QED
    BY <1>1, <1>3, <1>4, <1>5, <1>6, <1>7, <2>1, <2>2 DEF BUCKET_SZ, PEBBLE_SZ
<1>8. CASE "PHYSICAL" \notin req.flags
  <2>1. RoundUp(s, 64) \in Nat /\ RoundUp(s, 64) % 64 = 0 /\ RoundUp(s, 64) < s + 64
    BY <1>1 DEF RoundUp, RoundDown
  <2>2. PICK y \in Nat : y = RoundUp(s, 64)
    BY <2>1
  <2>3. y + a <= pages - 192
    <3>1. y \in Nat /\ y % 64 = 0 /\ y < s + 64
      BY <2>1, <2>2
    <3>2. PICK m \in Nat : m = pages - 192 /\ m % 64 = 0 /\ m >= s + a
      BY <1>1, <1>4, <1>5
    <3>3. (m - a) % 64 = 0 /\ m - a >= s /\ m - a \in Int
      BY <1>1, <3>2
    <3>4. y <= m - a
      BY <1>1, <3>1, <3>3
    <3> QED
      BY <1>1, <3>1, <3>2, <3>4
  <2> QED
    BY <1>1, <1>3, <1>5, <1>6, <1>8, <2>2, <2>3 DEF BUCKET_SZ, PEBBLE_SZ
<1> QED
  BY <1>7, <1>8

(* create_bucket: there is no memory left, or the new bucket is not yet in the
   list. *)
LEMMA OneCreateBucket ==
  ASSUME Grounds, NEW t \in Threads, OneInv(t), CreateBucket(t)
  PROVE  OneInv(t)'
<1> DEFINE x == loc[t]
<1>1. pc[t] = "k_create"
  BY DEF CreateBucket
<1>2. InOneThread(buckets, "k_create", x, live)
  BY <1>1 DEF OneInv
<1>3. CASE KmallocReturns(t, NULL) /\ UNCHANGED buckets
  <2>1. InOneThread(buckets, pc'[t], loc'[t], live')
    BY <1>1, <1>3, OneKmallocReturns
  <2> QED
    BY <1>3, <2>1 DEF OneInv
<1>4. ASSUME NEW b \in BucketIds \ DOMAIN buckets, NEW low \in BOOLEAN,
             {"PHYSICAL", "LOW"} \subseteq x.req.flags => low,
             buckets' = [c \in DOMAIN buckets \cup {b} |->
               IF c = b THEN create_bucket(NewBucketSize(x.req), x.req.flags, low)
               ELSE buckets[c]],
             loc' = [loc EXCEPT ![t].cur = b], Goto(t, "i_lock"), UNCHANGED live
      PROVE  OneInv(t)'
  <2> DEFINE nb == create_bucket(NewBucketSize(x.req), x.req.flags, low)
             x2 == [x EXCEPT !.cur = b]
  <2>1. PICK bs, cs : bs = buckets /\ cs = buckets'
    OBVIOUS
  <2>2. /\ DOMAIN cs = DOMAIN bs \cup {b} /\ cs[b] = nb
        /\ \A c \in DOMAIN bs : c # b /\ cs[c] = bs[c]
    BY <1>4, <2>1
  <2>3. loc' = [loc EXCEPT ![t] = x2]
    BY <1>4
  <2>4. pc'[t] = "i_lock" /\ loc'[t] = x2 /\ live' = live
    BY <1>4, <2>3, Gone DEF Grounds
  <2>5. x2.cur = b /\ x2.old = x.old /\ x2.ret = x.ret /\ x2.req = x.req
    BY DEF Grounds, ShapeInv, CallsInv, LocalsShape
  <2>6. x.req \in RequestShape /\ x.req.flags \in SUBSET MallocFlags
        /\ NewBucketSize(x.req) \in Nat
    BY KnownBefore, NewBucketSizeNat DEF RequestShape
  <2>7. /\ Tidy(nb) /\ FreeAt(nb.list) = {FirstPebble} /\ UsedAt(nb.list) = {}
        /\ Seams(nb.list) = {}
        /\ nb.list[FirstPebble].size =
             BucketBytes(NewBucketSize(x.req), x.req.flags) - BUCKET_SZ - PEBBLE_SZ
        /\ nb.lflags = x.req.flags
    <3>1. PICK size \in Nat, flags \in SUBSET MallocFlags :
            size = NewBucketSize(x.req) /\ flags = x.req.flags
      BY <2>6
    <3>2. nb = create_bucket(size, flags, low)
      BY <3>1
    <3> HIDE DEF nb
    <3>3. /\ Tidy(nb) /\ FreeAt(nb.list) = {FirstPebble} /\ UsedAt(nb.list) = {}
          /\ Seams(nb.list) = {} /\ nb.lflags = flags
      BY <3>2, NewBucketTidy
    <3>4. nb.list[FirstPebble].size = BucketBytes(size, flags) - BUCKET_SZ - PEBBLE_SZ
      BY <3>2, NewBucketTidy
    <3> QED
      BY <3>1, <3>3, <3>4
  <2>71. nb.low = low
    BY DEF create_bucket
  <2> HIDE DEF nb, x2
  <2>8. FirstPebble \in Fitting(nb, Wanted(x.req))
    BY <2>6, <2>7, NewBucketRoom DEF Fitting, FreeAt
  <2>9. OfKind(nb, x.req)
    BY <1>4, <2>7, <2>71 DEF OfKind
  <2>10. InOneThread(bs, "k_create", x, live)
    BY <1>2, <2>1
  <2>11. AllTidy(cs)
    BY <2>2, <2>7, <2>10 DEF AllTidy, InOneThread
  <2>12. Joined(cs, "i_lock", x2)
    BY <2>2, <2>7, <2>10 DEF Joined, AtJoint, InOneThread
  <2>13. Knows(cs, "i_lock", x2)
    BY <2>2, <2>5, <2>8, <2>9 DEF Knows, NewPCs, GonePCs
  <2>14. Claimed(cs, "i_lock", x2, live)
    <3>1. Undisturbed(bs, cs, {})
      BY <2>2 DEF Undisturbed, InUse
    <3>2. Claims("i_lock", x2) = Claims("k_create", x) /\ "i_lock" \notin HerePCs
      BY <2>5 DEF Claims, HerePCs, PlacedPCs, ShrinkPCs, AllocPCs
    <3> QED
      BY <2>5, <2>10, <3>1, <3>2, KnownBefore, ClaimsCarry DEF InOneThread
  <2>15. Linkage(cs, "i_lock", x2)
    <3>1. Linked(bs, {}) /\ KernelHeap \in DOMAIN bs
      BY <2>1, <2>10, KnownBefore DEF InOneThread, Linkage
    <3>2. DOMAIN cs \ {b} = DOMAIN bs
      BY <2>2
    <3>3. Linked(cs, {b})
      BY <2>2, <3>1, <3>2 DEF Linked, PrevIn, NextIn
    <3> QED
      BY <2>5, <3>3 DEF Linkage
  <2>16. Occupied(cs, "i_lock", x2)
    BY <2>2, <2>5, <2>10 DEF InOneThread, Occupied, EmptyPCs, OpenPCs, LoadPCs, TestPCs, NewPCs, GonePCs
  <2>17. InOneThread(cs, "i_lock", x2, live)
    BY <2>11, <2>12, <2>13, <2>14, <2>15, <2>16 DEF InOneThread
  <2> QED
    BY <2>1, <2>4, <2>17 DEF OneInv
<1> QED
  BY <1>1, <1>3, <1>4 DEF CreateBucket

(* Linking the new bucket behind kernel_heap: now all are linked. *)
LEMMA InsertLinks ==
  ASSUME NEW bs, KernelHeap \in DOMAIN bs, NULL \notin DOMAIN bs,
         NEW b \in DOMAIN bs, b # KernelHeap, NEW n, n = bs[KernelHeap].next,
         Linked(bs, {b}),
         NEW cs, DOMAIN cs = DOMAIN bs,
         cs[b].prev = KernelHeap, cs[b].next = n,
         cs[KernelHeap].prev = bs[KernelHeap].prev, cs[KernelHeap].next = b,
         n # NULL => cs[n].prev = b /\ cs[n].next = bs[n].next,
         \A c \in DOMAIN bs : c \notin {b, KernelHeap, n} =>
           cs[c].prev = bs[c].prev /\ cs[c].next = bs[c].next
  PROVE  Linked(cs, {})
<1>1. n # NULL => n \in DOMAIN bs \ {b} /\ bs[n].prev = KernelHeap /\ n # KernelHeap
  BY DEF Linked, NextIn
<1>2. ASSUME NEW c \in DOMAIN bs, c # KernelHeap PROVE PrevIn(cs, {}, c)
  <2>1. CASE c = b
    BY <2>1 DEF PrevIn
  <2>2. CASE c = n /\ n # NULL
    BY <1>1, <2>2 DEF PrevIn
  <2>3. CASE c # b /\ c # n
    <3>1. bs[c].prev \in DOMAIN bs \ {b} /\ bs[bs[c].prev].next = c
      BY <1>2, <2>3 DEF Linked, PrevIn
    <3>2. bs[c].prev # KernelHeap
      BY <2>3, <3>1
    <3> QED
      BY <1>1, <1>2, <2>3, <3>1, <3>2 DEF PrevIn
  <2> QED
    BY <2>1, <2>2, <2>3
<1>3. ASSUME NEW c \in DOMAIN bs PROVE NextIn(cs, {}, c)
  <2>1. CASE c = b
    BY <1>1, <2>1 DEF NextIn
  <2>2. CASE c = KernelHeap
    BY <2>2 DEF NextIn
  <2>3. CASE c # b /\ c # KernelHeap
    <3>1. bs[c].next # NULL => bs[c].next \in DOMAIN bs \ {b} /\ bs[bs[c].next].prev = c
      BY <2>3 DEF Linked, NextIn
    <3>2. cs[c].next = bs[c].next
      BY <1>1, <2>3
    <3>3. bs[c].next # NULL => bs[c].next # KernelHeap /\ bs[c].next # n
      BY <1>1, <2>3, <3>1 DEF Linked
    <3> QED
      BY <3>1, <3>2, <3>3 DEF NextIn
  <2> QED
    BY <2>1, <2>2, <2>3
<1> QED
  BY <1>2, <1>3 DEF Linked

(* Only prev, next and the spinlock of a record are written. *)
SameTidy(r, s) == SameCore(r, s) /\ r.first = s.first /\ r.largest = s.largest

(* Only the links of the bucket differ. *)
LEMMA SameTidyTidy ==
  ASSUME NEW r, NEW s, SameTidy(r, s), Tidy(s)
  PROVE  Tidy(r)
  BY DEF SameTidy, SameCore, Tidy, Bounded

(* Writing next. *)
LEMMA NextFields ==
  ASSUME NEW bk, HasShape(bk), NEW n
  PROVE  LET r == [bk EXCEPT !.next = n]
         IN  SameTidy(r, bk) /\ r.next = n /\ r.prev = bk.prev
  BY DEF HasShape, SameTidy, SameCore

(* Writing prev. *)
LEMMA PrevFields ==
  ASSUME NEW bk, HasShape(bk), NEW p
  PROVE  LET r == [bk EXCEPT !.prev = p]
         IN  SameTidy(r, bk) /\ r.next = bk.next /\ r.prev = p
  BY DEF HasShape, SameTidy, SameCore

(* insert_bucket puts the new bucket behind kernel_heap. *)
LEMMA OneInsertLink ==
  ASSUME Grounds, NEW t \in Threads, OneInv(t), InsertLink(t)
  PROVE  OneInv(t)'
<1> DEFINE x == loc[t]
<1>1. PICK bs, cs, b, n : bs = buckets /\ cs = buckets' /\ b = x.cur /\ n = bs[KernelHeap].next
  OBVIOUS
<1>2. /\ pc[t] = "i_link" /\ b \in DOMAIN bs /\ (n # NULL => n \in DOMAIN bs)
      /\ pc'[t] = "n_lock" /\ loc' = loc /\ live' = live
      /\ cs = [c \in DOMAIN bs |->
           CASE c = b          -> [bs[b] EXCEPT !.next = n, !.prev = KernelHeap]
             [] c = KernelHeap -> Unlocked([bs[c] EXCEPT !.next = b])
             [] c = n          -> [bs[c] EXCEPT !.prev = b]
             [] OTHER          -> bs[c]]
  BY <1>1, Gone DEF InsertLink, Mapped, Grounds
<1>3. /\ KernelHeap \in DOMAIN bs /\ NULL \notin DOMAIN bs /\ n # KernelHeap
      /\ \A c \in DOMAIN bs : HasShape(bs[c])
  BY <1>1, KnownBefore
<1>4. b # KernelHeap
  BY <1>1, <1>2 DEF Grounds, LockInv, Away, AwayPCs
<1>5. InOneThread(bs, "i_link", x, live)
  BY <1>1, <1>2 DEF OneInv
<1>6. Linked(bs, {b})
  BY <1>1, <1>5 DEF InOneThread, Linkage
<1>7. n # NULL => n # b
  BY <1>1, <1>3, <1>4, <1>6 DEF Linked, NextIn
<1>8. /\ cs[b] = [bs[b] EXCEPT !.next = n, !.prev = KernelHeap]
      /\ cs[KernelHeap] = Unlocked([bs[KernelHeap] EXCEPT !.next = b])
      /\ n # NULL => cs[n] = [bs[n] EXCEPT !.prev = b]
      /\ \A c \in DOMAIN bs : c \notin {b, KernelHeap, n} => cs[c] = bs[c]
      /\ DOMAIN cs = DOMAIN bs
  BY <1>2, <1>3, <1>4, <1>7
<1>9. /\ SameTidy(cs[b], bs[b]) /\ cs[b].next = n /\ cs[b].prev = KernelHeap
      /\ SameTidy(cs[KernelHeap], bs[KernelHeap])
      /\ cs[KernelHeap].next = b /\ cs[KernelHeap].prev = bs[KernelHeap].prev
      /\ n # NULL => SameTidy(cs[n], bs[n]) /\ cs[n].next = bs[n].next /\ cs[n].prev = b
  <2>1. SameTidy(cs[b], bs[b]) /\ cs[b].next = n /\ cs[b].prev = KernelHeap
    <3>1. HasShape(bs[b])
      BY <1>2, <1>3
    <3> QED
      BY <1>8, <3>1 DEF HasShape, SameTidy, SameCore
  <2>2. /\ SameTidy(cs[KernelHeap], bs[KernelHeap])
        /\ cs[KernelHeap].next = b /\ cs[KernelHeap].prev = bs[KernelHeap].prev
    <3>1. HasShape(bs[KernelHeap])
      BY <1>3
    <3> QED
      BY <1>8, <3>1 DEF HasShape, SameTidy, SameCore, Unlocked
  <2>3. n # NULL => SameTidy(cs[n], bs[n]) /\ cs[n].next = bs[n].next /\ cs[n].prev = b
    <3>1. ASSUME n # NULL PROVE SameTidy(cs[n], bs[n]) /\ cs[n].next = bs[n].next /\ cs[n].prev = b
      <4>1. HasShape(bs[n])
        BY <1>2, <1>3, <3>1
      <4> QED
        BY <1>8, <3>1, <4>1 DEF HasShape, SameTidy, SameCore
    <3> QED
      BY <3>1
  <2> QED
    BY <2>1, <2>2, <2>3
<1>10. \A c \in DOMAIN bs : SameTidy(cs[c], bs[c])
  <2>1. TAKE c \in DOMAIN bs
  <2>2. CASE c \in {b, KernelHeap, n}
    BY <1>3, <1>9, <2>2
  <2>3. CASE c \notin {b, KernelHeap, n}
    BY <1>8, <2>3 DEF SameTidy, SameCore
  <2> QED
    BY <2>2, <2>3
<1>11. Still(bs, cs) /\ AllTidy(cs)
  BY <1>5, <1>8, <1>10, SameTidyTidy DEF Still, SameTidy, AllTidy, InOneThread
<1>12. Linked(cs, {})
  <2>1. \A c \in DOMAIN bs : c \notin {b, KernelHeap, n} =>
          cs[c].prev = bs[c].prev /\ cs[c].next = bs[c].next
    BY <1>8
  <2>2. DOMAIN cs = DOMAIN bs /\ b \in DOMAIN bs /\ n = bs[KernelHeap].next
    BY <1>1, <1>2, <1>8
  <2>3. n # NULL => cs[n].prev = b /\ cs[n].next = bs[n].next
    BY <1>9
  <2> QED
    BY <1>3, <1>4, <1>6, <1>9, <2>1, <2>2, <2>3, InsertLinks
<1>13. Claimed(bs, "n_lock", x, live)
  BY <1>5, ClaimsSame DEF InOneThread, HerePCs, PlacedPCs, AllocPCs, ShrinkPCs
<1>14. /\ Joined(bs, "n_lock", x) /\ Knows(bs, "n_lock", x) /\ Occupied(bs, "n_lock", x)
  BY <1>5 DEF InOneThread, Joined, AtJoint, Knows, NewPCs, GonePCs, Occupied, EmptyPCs
<1>15. /\ Joined(cs, "n_lock", x) /\ Knows(cs, "n_lock", x) /\ Occupied(cs, "n_lock", x)
       /\ Claimed(cs, "n_lock", x, live)
  BY <1>11, <1>13, <1>14, StillKeeps
<1>16. InOneThread(cs, "n_lock", x, live)
  BY <1>11, <1>12, <1>15 DEF InOneThread, Linkage
<1> QED
  BY <1>1, <1>2, <1>16 DEF OneInv

-----------------------------------------------------------------------------
(* Steps that write the list of one bucket *)

(* Of the buckets only b is written, and not its links, nor what kind it is. *)
SameFrame(r, s) ==
  r.bytes = s.bytes /\ r.lflags = s.lflags /\ r.low = s.low /\ SameEnds(r, s)
Rewrites(bs, cs, b) ==
  /\ b \in DOMAIN bs /\ DOMAIN cs = DOMAIN bs
  /\ \A c \in DOMAIN bs \ {b} : cs[c] = bs[c]
  /\ SameFrame(cs[b], bs[b])

(* One bucket gets another list. *)
LEMMA RewritesOne ==
  ASSUME NEW bs, NEW b \in DOMAIN bs, NEW bk, SameFrame(bk, bs[b])
  PROVE  Rewrites(bs, [bs EXCEPT ![b] = bk], b)
  BY DEF Rewrites

(* The thread goes on, and has written the list of the bucket it is in. *)
LEMMA ListOn ==
  ASSUME NEW bs, NEW cs, NEW b, Rewrites(bs, cs, b), KernelHeap \in DOMAIN bs, Tidy(cs[b]),
         NEW l, NEW x, NEW lv, InOneThread(bs, l, x, lv), x.cur = b, l \notin LinkPCs,
         NEW l2, NEW x2, NEW lv2, x2.cur = b \/ Seams(cs[b].list) = {}, l2 \notin LinkPCs,
         \A a \in Seams(cs[b].list) : AtJoint(cs[b].list, l2, x2, a),
         Knows(cs, l2, x2), Claimed(cs, l2, x2, lv2),
         \/ "PERSISTENT" \in cs[b].lflags
         \/ UsedAt(cs[b].list) # {}
         \/ x2.cur = b /\ l2 \in EmptyPCs
  PROVE  InOneThread(cs, l2, x2, lv2)
<1>1. AllTidy(cs)
  BY DEF AllTidy, Rewrites, InOneThread
<1>2. Joined(cs, l2, x2)
  <2>1. ASSUME NEW c \in DOMAIN cs, NEW a \in Seams(cs[c].list)
        PROVE  c = x2.cur /\ AtJoint(cs[c].list, l2, x2, a)
    <3>1. Joined(bs, l, x)
      BY DEF InOneThread
    <3>2. c = b
      BY <2>1, <3>1 DEF Rewrites, Joined
    <3> QED
      BY <2>1, <3>2
  <2> QED
    BY <2>1 DEF Joined
<1>3. Linkage(cs, l2, x2)
  <2>1. SameLinks(bs, cs)
    BY DEF SameLinks, Rewrites, SameFrame, SameEnds
  <2>2. Linkage(bs, l2, x2)
    BY DEF InOneThread, Linkage, LinkPCs
  <2> QED
    BY <2>1, <2>2, LinksStay DEF LinkPCs
<1>4. Occupied(cs, l2, x2)
  BY DEF Occupied, InOneThread, Rewrites
<1> QED
  BY <1>1, <1>2, <1>3, <1>4 DEF InOneThread

(* What is in use there, but for the pebble at a, stays what it is. *)
LEMMA WrittenBut ==
  ASSUME NEW bs, NEW cs, NEW b, Rewrites(bs, cs, b), NEW a,
         \A y \in UsedAt(bs[b].list) \ {a} :
           y \in UsedAt(cs[b].list) /\ cs[b].list[y].size = bs[b].list[y].size
  PROVE  Undisturbed(bs, cs, {[b |-> b, at |-> a]})
<1> SUFFICES ASSUME NEW p, IsPointer(p), InUse(bs, p), p # [b |-> b, at |-> a]
             PROVE  /\ InUse(cs, p)
                    /\ cs[p.b].list[p.at].size = bs[p.b].list[p.at].size
                    /\ cs[p.b].lflags = bs[p.b].lflags /\ cs[p.b].low = bs[p.b].low
  BY DEF Undisturbed
<1>1. CASE p.b = b
  <2>1. p.at # a
    BY <1>1 DEF IsPointer
  <2> QED
    BY <1>1, <2>1 DEF InUse, Rewrites, SameFrame
<1>2. CASE p.b # b
  BY <1>2 DEF InUse, Rewrites
<1> QED
  BY <1>1, <1>2

(* The same when every pebble in use there stays what it is. *)
LEMMA WrittenNone ==
  ASSUME NEW bs, NEW cs, NEW b, Rewrites(bs, cs, b),
         \A y \in UsedAt(bs[b].list) :
           y \in UsedAt(cs[b].list) /\ cs[b].list[y].size = bs[b].list[y].size
  PROVE  Undisturbed(bs, cs, {})
<1> SUFFICES ASSUME NEW p, InUse(bs, p)
             PROVE  /\ InUse(cs, p)
                    /\ cs[p.b].list[p.at].size = bs[p.b].list[p.at].size
                    /\ cs[p.b].lflags = bs[p.b].lflags /\ cs[p.b].low = bs[p.b].low
  BY DEF Undisturbed
<1>1. CASE p.b = b
  BY <1>1 DEF InUse, Rewrites, SameFrame
<1>2. CASE p.b # b
  BY <1>2 DEF InUse, Rewrites
<1> QED
  BY <1>1, <1>2

(* No seam is left where no call is at work. *)
LEMMA NoSeams ==
  ASSUME NEW bs, NEW l, NEW x, Joined(bs, l, x), l \notin {"f_melt", "f_absorb"},
         NEW b \in DOMAIN bs
  PROVE  Seams(bs[b].list) = {}
  BY DEF Joined, AtJoint

(* A list that keeps its headers and grows no pebble leaves first and largest
   true. *)
LEMMA TidyList ==
  ASSUME NEW s, Tidy(s), NEW r, r.bytes = s.bytes, r.first = s.first, r.largest = s.largest,
         Sound(r.list, r.bytes), DOMAIN s.list \subseteq DOMAIN r.list,
         \A n \in Nat : (\A y \in DOMAIN s.list : s.list[y].size <= n) =>
                        \A y \in DOMAIN r.list : r.list[y].size <= n
  PROVE  Tidy(r)
<1>1. Bounded(r)
  BY BoundedList DEF Tidy
<1> QED
  BY <1>1 DEF Tidy

(* mfree marks the pebble as free: side by side with it there may be others. *)
LEMMA OneFreeMark ==
  ASSUME Grounds, NEW t \in Threads, OneInv(t), FreeMark(t)
  PROVE  OneInv(t)'
<1>1. PICK bs, x, lv, b, a :
        bs = buckets /\ x = loc[t] /\ lv = live /\ b = x.cur /\ a = x.at
  OBVIOUS
<1> DEFINE P  == bs[b].list
           Q  == Marked(P, a, {})
           bk == [bs[b] EXCEPT !.list = Q]
           cs == [bs EXCEPT ![b] = bk]
<1>2. /\ pc[t] = "f_mark" /\ b \in DOMAIN bs /\ a \in DOMAIN P /\ buckets' = cs
      /\ pc'[t] = "f_melt" /\ loc' = loc /\ live' = live
  BY <1>1, Gone DEF FreeMark, AtHand, Mapped, Marked, Grounds
<1>3. InOneThread(bs, "f_mark", x, lv)
  BY <1>1, <1>2 DEF OneInv
<1>4. /\ HasShape(bs[b]) /\ Tidy(bs[b]) /\ KernelHeap \in DOMAIN bs /\ Pointers(x, lv)
      /\ bs[b].bytes \in Nat
  BY <1>1, <1>2, <1>3, KnownBefore DEF InOneThread, AllTidy, HasShape
<1>5. /\ bk.list = Q /\ bk.first = bs[b].first /\ bk.largest = bs[b].largest
      /\ SameFrame(bk, bs[b])
  BY <1>4, ListFields DEF SameFrame
<1>6. IsList(P) /\ Sound(P, bs[b].bytes)
  BY <1>4 DEF Tidy, Sound
<1>7. /\ DOMAIN Q = DOMAIN P /\ Q[a].lflags = {}
      /\ \A y \in DOMAIN P : Q[y].size = P[y].size /\ Q[y].next = P[y].next
  BY <1>2, <1>6, MarkEffect
<1>8. /\ UsedAt(Q) = UsedAt(P) \ {a}
      /\ \A y \in Seams(Q) : y \in Seams(P) \/ a \in {y, P[y].next}
  BY <1>2, <1>6, MarkFree
<1>9. Sound(Q, bs[b].bytes)
  BY <1>2, <1>4, <1>6, FlagsSound DEF Marked
<1> HIDE DEF Q, bk
<1>10. Tidy(bk)
  BY <1>4, <1>5, <1>7, <1>9, TidyList DEF SameFrame
<1>11. Rewrites(bs, cs, b) /\ cs[b] = bk
  BY <1>2, <1>5, RewritesOne
<1> HIDE DEF cs
<1>12. Seams(P) = {}
  BY <1>2, <1>3, NoSeams DEF InOneThread
<1>13. ASSUME NEW y \in Seams(Q) PROVE AtJoint(Q, "f_melt", x, y)
  <2>1. a \in {y, P[y].next}
    BY <1>8, <1>12
  <2>2. Q[y].next = P[y].next
    BY <1>7 DEF Seams, FreeAt
  <2> QED
    BY <1>1, <2>1, <2>2 DEF AtJoint
<1>14. Knows(cs, "f_melt", x)
  <2>1. a \in FreeAt(Q)
    BY <1>2, <1>7 DEF FreeAt, PEBBLE_IS_FREE
  <2> QED
    BY <1>1, <1>2, <1>5, <1>11, <2>1 DEF Knows, NewPCs, GonePCs, Rewrites
<1>15. Claimed(cs, "f_melt", x, lv)
  <2>1. Here(x) = [b |-> b, at |-> a]
    BY <1>1 DEF Here
  <2>2. Undisturbed(bs, cs, {Here(x)})
    <3>1. \A y \in UsedAt(bs[b].list) \ {a} :
            y \in UsedAt(cs[b].list) /\ cs[b].list[y].size = bs[b].list[y].size
      BY <1>5, <1>7, <1>8, <1>11 DEF UsedAt
    <3>2. Undisturbed(bs, cs, {[b |-> b, at |-> a]})
      BY <1>11, <3>1, WrittenBut
    <3> QED
      BY <2>1, <3>2
  <2>3. "f_mark" \in HerePCs /\ "f_melt" \notin HerePCs /\ "f_mark" \notin AllocPCs
        /\ "f_melt" \notin AllocPCs
    BY DEF HerePCs, PlacedPCs, ShrinkPCs, AllocPCs
  <2>4. Claimed(bs, "f_mark", x, lv)
    BY <1>3 DEF InOneThread
  <2>5. {Here(x)} \subseteq Claims("f_mark", x)
    BY <2>3 DEF Claims
  <2>6. Claims("f_melt", x) \subseteq Claims("f_mark", x) \ {Here(x)}
    BY <2>3, <2>4 DEF Claims, Claimed
  <2> QED
    BY <1>4, <2>2, <2>3, <2>4, <2>5, <2>6, ClaimsCarry
<1>16. InOneThread(cs, "f_melt", x, lv)
  BY <1>1, <1>3, <1>4, <1>5, <1>10, <1>11, <1>13, <1>14, <1>15, ListOn
  DEF LinkPCs, EmptyPCs, OpenPCs, LoadPCs, TestPCs, NewPCs, GonePCs
<1> QED
  BY <1>1, <1>2, <1>16 DEF OneInv

(* A merge changes neither what kind a bucket is nor where it is linked. *)
LEMMA AbsorbFrame ==
  ASSUME NEW bk, HasShape(bk), NEW a
  PROVE  SameFrame(absorb_next(bk, a), bk)
<1> DEFINE n == bk.list[a].next
           s == [bk EXCEPT !.list  = SwallowNext(bk.list, a),
                           !.first = IF @ = n THEN a ELSE @]
           z == bk.list[a].size + bk.list[n].size + PEBBLE_SZ
           r == absorb_next(bk, a)
<1>1. HasShape(s) /\ SameFrame(s, bk)
  BY DEF HasShape, SameFrame, SameEnds
<1>2. r = bk \/ r = bucket_update_largest(s, z)
  BY DEF absorb_next
<1> HIDE DEF s, r, z
<1>3. SameFrame(bucket_update_largest(s, z), s)
  BY <1>1, LargestFields DEF SameFrame, SameCore
<1> QED
  BY <1>1, <1>2, <1>3 DEF SameFrame, SameEnds, r

(* Nor does a merge with the pebble before. *)
LEMMA MeltFrame ==
  ASSUME NEW bk, HasShape(bk), NEW a
  PROVE  SameFrame(melt_prev(bk, a), bk)
<1>1. CASE bk.list[a].prev = NULL
  BY <1>1 DEF melt_prev, SameFrame, SameEnds
<1>2. CASE bk.list[a].prev # NULL
  <2>1. melt_prev(bk, a) = absorb_next(bk, bk.list[a].prev)
    BY <1>2 DEF melt_prev
  <2> QED
    BY <2>1, AbsorbFrame
<1> QED
  BY <1>1, <1>2

(* The pebble that absorbs is there when it has. *)
LEMMA AbsorbHand ==
  ASSUME NEW bk, HasShape(bk), Sound(bk.list, bk.bytes), NEW a \in DOMAIN bk.list
  PROVE  a \in DOMAIN absorb_next(bk, a).list
<1> DEFINE n == bk.list[a].next
<1>1. \A c \in DOMAIN bk.list : c \in Nat /\ bk.list[c].size \in Nat
  BY DEF Sound, IsList, Pebble
<1>2. n \in DOMAIN bk.list => n # a
  <2>1. NULL \notin DOMAIN bk.list
    BY <1>1, NullAssumption
  <2>2. n \in DOMAIN bk.list => a + PEBBLE_SZ + bk.list[a].size <= n
    BY <2>1 DEF Sound, ListWellFormed, LinksAgree, EndOf
  <2> QED
    BY <1>1, <2>2 DEF PEBBLE_SZ
<1>3. n \in DOMAIN bk.list => a \in DOMAIN SwallowNext(bk.list, a)
  BY <1>2 DEF SwallowNext
<1> QED
  BY <1>3, AbsorbCases DEF FreeAt

(* If the free pebbles side by side are those at a and behind it, absorb_next
   leaves none. *)
LEMMA AbsorbHeals ==
  ASSUME NEW bk, HasShape(bk), Sound(bk.list, bk.bytes), NEW a \in FreeAt(bk.list),
         \A y \in Seams(bk.list) : y = a
  PROVE  Seams(absorb_next(bk, a).list) = {}
<1> DEFINE P == bk.list
           n == P[a].next
           Q == SwallowNext(P, a)
<1>1. a \in DOMAIN P /\ bk.bytes \in Nat
  BY DEF HasShape, FreeAt
<1>2. CASE n \in FreeAt(P)
  <2>1. absorb_next(bk, a).list = Q
    BY <1>1, <1>2, AbsorbCases
  <2>2. /\ n # a
        /\ \A y \in Seams(Q) : \/ y = a /\ n \in Seams(P)
                               \/ y # a /\ y # n /\ y \in Seams(P)
    BY <1>1, <1>2, SwallowEffect
  <2> HIDE DEF Q, n
  <2> QED
    BY <2>1, <2>2
<1>3. CASE n \notin FreeAt(P)
  <2>1. absorb_next(bk, a) = bk
    BY <1>1, <1>3, AbsorbCases
  <2>2. a \notin Seams(P)
    BY <1>3 DEF Seams
  <2> QED
    BY <2>1, <2>2
<1> QED
  BY <1>2, <1>3

(* If they are those before and behind a, melt_prev leaves those at the pebble
   it returns. *)
LEMMA MeltMoves ==
  ASSUME NEW bk, HasShape(bk), Sound(bk.list, bk.bytes), NEW a \in FreeAt(bk.list),
         \A y \in Seams(bk.list) : a \in {y, bk.list[y].next}
  PROVE  /\ MeltedInto(bk, a) \in FreeAt(melt_prev(bk, a).list)
         /\ \A y \in Seams(melt_prev(bk, a).list) : y = MeltedInto(bk, a)
<1> DEFINE P == bk.list
           p == P[a].prev
           Q == SwallowNext(P, p)
<1>1. a \in DOMAIN P /\ bk.bytes \in Nat /\ NULL \notin DOMAIN P
  BY NullAssumption DEF HasShape, FreeAt, Sound, IsList
<1>5. Sound(P, bk.bytes)
  OBVIOUS
<1>2. \A y \in Seams(P) : y = a \/ (y = p /\ p \in FreeAt(P))
  <2> TAKE y \in Seams(P)
  <2>1. CASE a = P[y].next
    <3>1. a # NULL /\ y \in DOMAIN P /\ y \in FreeAt(P)
      BY <1>1 DEF Seams, FreeAt
    <3>2. p = y
      BY <2>1, <3>1 DEF Sound, ListWellFormed, LinksAgree
    <3> QED
      BY <3>1, <3>2
  <2> QED
    BY <2>1
<1>3. CASE p \in FreeAt(P)
  <2>1. P[p].next = a /\ melt_prev(bk, a) = absorb_next(bk, p) /\ MeltedInto(bk, a) = p
    BY <1>1, <1>3, MeltCases
  <2>2. absorb_next(bk, p).list = Q
    <3>1. p \in DOMAIN P
      BY <1>3 DEF FreeAt
    <3> QED
      BY <1>3, <2>1, <3>1, AbsorbCases
  <2>3. /\ a # p /\ DOMAIN Q = DOMAIN P \ {a} /\ UsedAt(Q) = UsedAt(P)
        /\ \A y \in Seams(Q) : y = p \/ (y # p /\ y # a /\ y \in Seams(P))
    <3>1. LET m == P[p].next
          IN  /\ m # p /\ DOMAIN Q = DOMAIN P \ {m} /\ UsedAt(Q) = UsedAt(P)
              /\ \A y \in Seams(Q) : \/ y = p /\ m \in Seams(P)
                                     \/ y # p /\ y # m /\ y \in Seams(P)
      <4>1. P[p].next \in FreeAt(P)
        BY <2>1
      <4> HIDE DEF p, P
      <4> QED
        BY <1>1, <1>3, <1>5, <4>1, SwallowEffect
    <3> HIDE DEF Q
    <3> QED
      BY <2>1, <3>1
  <2> HIDE DEF Q, p
  <2>4. p \in FreeAt(Q)
    BY <1>3, <2>3 DEF FreeAt, UsedAt
  <2> QED
    BY <1>2, <2>1, <2>2, <2>3, <2>4
<1>4. CASE p \notin FreeAt(P)
  <2>1. melt_prev(bk, a) = bk /\ MeltedInto(bk, a) = a
    BY <1>1, <1>4, MeltCases
  <2> QED
    BY <1>2, <1>4, <2>1
<1> QED
  BY <1>3, <1>4

(* The bucket after a merge. *)
LEMMA MergeOn ==
  ASSUME NEW bs, KernelHeap \in DOMAIN bs, NEW b \in DOMAIN bs,
         NEW bk, SameFrame(bk, bs[b]), Tidy(bk), UsedAt(bk.list) = UsedAt(bs[b].list),
         \A y \in UsedAt(bk.list) : bk.list[y].size = bs[b].list[y].size,
         NEW l \in {"f_melt", "f_absorb"}, NEW x, NEW lv, InOneThread(bs, l, x, lv), x.cur = b,
         Pointers(x, lv),
         NEW l2 \in {"f_absorb", "f_check"}, NEW x2, x2.cur = b,
         x2.old = x.old, x2.ret = x.ret, x2.req = x.req,
         l2 = "f_absorb" => x2.at \in FreeAt(bk.list),
         \A y \in Seams(bk.list) : AtJoint(bk.list, l2, x2, y)
  PROVE  InOneThread([bs EXCEPT ![b] = bk], l2, x2, lv)
<1> DEFINE cs == [bs EXCEPT ![b] = bk]
<1>1. Rewrites(bs, cs, b) /\ cs[b] = bk /\ DOMAIN cs = DOMAIN bs
  BY RewritesOne
<1> HIDE DEF cs
<1>2. Knows(cs, l2, x2)
  BY <1>1 DEF Knows, NewPCs, GonePCs
<1>3. Claimed(cs, l2, x2, lv)
  <2>1. Undisturbed(bs, cs, {})
    BY <1>1, WrittenNone
  <2>2. l \notin HerePCs /\ l2 \notin HerePCs /\ l \notin AllocPCs /\ l2 \notin AllocPCs
    BY DEF HerePCs, PlacedPCs, ShrinkPCs, AllocPCs
  <2>3. Claims(l2, x2) = Claims(l, x)
    BY <2>2 DEF Claims
  <2>4. Claimed(bs, l, x, lv)
    BY DEF InOneThread
  <2> QED
    BY <2>1, <2>2, <2>3, <2>4, ClaimsCarry
<1>4. l \notin LinkPCs /\ l2 \notin LinkPCs /\ l2 \in EmptyPCs
  BY DEF LinkPCs, EmptyPCs, OpenPCs, LoadPCs, TestPCs, NewPCs, GonePCs
<1>5. InOneThread(cs, l2, x2, lv)
  BY <1>1, <1>2, <1>3, <1>4, ListOn
<1> QED
  BY <1>5 DEF cs

(* mfree merges the pebble with the one before. *)
LEMMA OneFreeMelt ==
  ASSUME Grounds, NEW t \in Threads, OneInv(t), FreeMelt(t)
  PROVE  OneInv(t)'
<1>1. PICK bs, x, lv, b, a :
        bs = buckets /\ x = loc[t] /\ lv = live /\ b = x.cur /\ a = x.at
  OBVIOUS
<1> DEFINE bk == melt_prev(bs[b], a)
           m  == MeltedInto(bs[b], a)
           x2 == [x EXCEPT !.at = m]
<1>2. /\ pc[t] = "f_melt" /\ b \in DOMAIN bs /\ a \in DOMAIN bs[b].list
      /\ buckets' = [bs EXCEPT ![b] = bk] /\ Goto(t, "f_absorb")
      /\ loc' = [loc EXCEPT ![t] = x2] /\ live' = live
  BY <1>1 DEF FreeMelt, AtHand, Mapped
<1>3. pc'[t] = "f_absorb" /\ loc'[t] = x2
  BY <1>2, Gone DEF Grounds
<1>4. x2.cur = b /\ x2.at = m /\ x2.old = x.old /\ x2.ret = x.ret /\ x2.req = x.req
  BY <1>1 DEF Grounds, ShapeInv, CallsInv, LocalsShape
<1>5. InOneThread(bs, "f_melt", x, lv)
  BY <1>1, <1>2 DEF OneInv
<1>6. HasShape(bs[b]) /\ Tidy(bs[b]) /\ KernelHeap \in DOMAIN bs /\ Pointers(x, lv)
  BY <1>1, <1>2, <1>5, KnownBefore DEF InOneThread, AllTidy
<1>7. a \in FreeAt(bs[b].list) /\ \A y \in Seams(bs[b].list) : a \in {y, bs[b].list[y].next}
  BY <1>1, <1>2, <1>5 DEF InOneThread, Knows, Joined, AtJoint
<1>8. Sound(bs[b].list, bs[b].bytes) /\ Bounded(bs[b])
  BY <1>6 DEF Tidy
<1>9. m \in FreeAt(bk.list) /\ \A y \in Seams(bk.list) : y = m
  BY <1>6, <1>7, <1>8, MeltMoves
<1>10. SameFrame(bk, bs[b])
  BY <1>6, MeltFrame
<1>11. Tidy(bk)
  BY <1>2, <1>6, <1>8, <1>10, MeltSound, MeltBounded DEF Tidy, SameFrame
<1>12. /\ UsedAt(bk.list) = UsedAt(bs[b].list)
       /\ \A y \in UsedAt(bk.list) : bk.list[y].size = bs[b].list[y].size
  BY <1>2, <1>6, <1>8, MeltKeeps
<1> HIDE DEF bk, m, x2
<1>13. \A y \in Seams(bk.list) : AtJoint(bk.list, "f_absorb", x2, y)
  BY <1>4, <1>9 DEF AtJoint
<1>14. InOneThread([bs EXCEPT ![b] = bk], "f_absorb", x2, lv)
  BY <1>1, <1>2, <1>4, <1>5, <1>6, <1>9, <1>10, <1>11, <1>12, <1>13, MergeOn
<1> QED
  BY <1>1, <1>2, <1>3, <1>14 DEF OneInv

(* And with the one behind: now free memory is in one piece again. *)
LEMMA OneFreeAbsorb ==
  ASSUME Grounds, NEW t \in Threads, OneInv(t), FreeAbsorb(t)
  PROVE  OneInv(t)' /\ OneLooks(t)'
<1>1. PICK bs, x, lv, b, a :
        bs = buckets /\ x = loc[t] /\ lv = live /\ b = x.cur /\ a = x.at
  OBVIOUS
<1> DEFINE g  == absorb_next(bs[b], a)
           bk == Unlocked(g)
<1>2. /\ pc[t] = "f_absorb" /\ b \in DOMAIN bs /\ a \in DOMAIN bs[b].list
      /\ buckets' = [bs EXCEPT ![b] = bk] /\ pc'[t] = "f_check"
      /\ loc' = loc /\ live' = live
  BY <1>1, Gone DEF FreeAbsorb, AtHand, Mapped, Grounds
<1>3. InOneThread(bs, "f_absorb", x, lv)
  BY <1>1, <1>2 DEF OneInv
<1>4. HasShape(bs[b]) /\ Tidy(bs[b]) /\ KernelHeap \in DOMAIN bs /\ Pointers(x, lv)
  BY <1>1, <1>2, <1>3, KnownBefore DEF InOneThread, AllTidy
<1>5. a \in FreeAt(bs[b].list) /\ \A y \in Seams(bs[b].list) : y = a
  BY <1>1, <1>2, <1>3 DEF InOneThread, Knows, Joined, AtJoint
<1>6. Sound(bs[b].list, bs[b].bytes) /\ Bounded(bs[b])
  BY <1>4 DEF Tidy
<1>7. Seams(g.list) = {}
  BY <1>4, <1>5, <1>6, AbsorbHeals
<1>8. SameFrame(g, bs[b]) /\ HasShape(g)
  BY <1>4, AbsorbFrame, AbsorbShape
<1>9. Tidy(g)
  BY <1>2, <1>4, <1>6, <1>8, AbsorbSound, AbsorbBounded DEF Tidy, SameFrame
<1>10. /\ UsedAt(g.list) = UsedAt(bs[b].list)
       /\ \A y \in UsedAt(g.list) : g.list[y].size = bs[b].list[y].size
  BY <1>2, <1>4, <1>6, AbsorbKeeps
<1>h. a \in DOMAIN g.list
  BY <1>2, <1>4, <1>6, AbsorbHand
<1> HIDE DEF g
<1>11. SameCore(bk, g) /\ SameEnds(bk, g) /\ Tidy(bk)
  BY <1>8, <1>9, UnlockedFields, UnlockedTidy
<1> HIDE DEF bk
<1>12. bk.list = g.list /\ SameFrame(bk, bs[b])
  BY <1>8, <1>11 DEF SameFrame, SameCore, SameEnds
<1>13. InOneThread([bs EXCEPT ![b] = bk], "f_check", x, lv)
  BY <1>1, <1>2, <1>3, <1>4, <1>7, <1>10, <1>11, <1>12, MergeOn
<1>14. a \in DOMAIN bk.list
  BY <1>h, <1>12
<1>15. Looks([bs EXCEPT ![b] = bk], "f_check", x)
  BY <1>1, <1>2, <1>14 DEF Looks, OpenPCs, LoadPCs, TestPCs
<1> QED
  BY <1>1, <1>2, <1>13, <1>15 DEF OneInv, OneLooks

(* kmalloc splits the pebble it has found, and what it keeps is what the caller
   asked for. *)
LEMMA OneSplitPebble ==
  ASSUME Grounds, NEW t \in Threads, OneInv(t), SplitPebble(t)
  PROVE  OneInv(t)'
<1>1. PICK bs, l, x, lv, b, a :
        bs = buckets /\ l = pc[t] /\ x = loc[t] /\ lv = live /\ b = x.cur /\ a = x.at
  OBVIOUS
<1> DEFINE P  == bs[b].list
           w  == Wanted(x.req)
           s  == split_pebble(P, a, w)
           Q  == Marked(s.list, s.at, w.lflags)
           bk == [bs[b] EXCEPT !.list = Q]
           cs == [bs EXCEPT ![b] = bk]
           x2 == [x EXCEPT !.at = s.at]
           l2 == IF l = "k_split" THEN "k_first" ELSE "n_largest"
<1>2. /\ l \in {"k_split", "n_split"} /\ b \in DOMAIN bs /\ buckets' = cs
      /\ Goto(t, l2) /\ loc' = [loc EXCEPT ![t] = x2] /\ live' = live
  BY <1>1 DEF SplitPebble, AtHand, Mapped, Marked
<1>3. pc'[t] = l2 /\ loc'[t] = x2
  BY <1>2, Gone DEF Grounds
<1>4. x2.cur = b /\ x2.at = s.at /\ x2.old = x.old /\ x2.ret = x.ret /\ x2.req = x.req
  BY <1>1 DEF Grounds, ShapeInv, CallsInv, LocalsShape
<1>5. InOneThread(bs, l, x, lv)
  BY <1>1 DEF OneInv
<1>6. l \in AllocPCs \ HerePCs /\ l \notin LinkPCs /\ l \notin {"f_melt", "f_absorb"}
  BY <1>2 DEF AllocPCs, HerePCs, PlacedPCs, ShrinkPCs, LinkPCs
<1>7. /\ HasShape(bs[b]) /\ Tidy(bs[b]) /\ KernelHeap \in DOMAIN bs /\ Pointers(x, lv)
      /\ bs[b].bytes \in Nat /\ x.req \in RequestShape /\ ProperRequest(x.req) /\ x.ret = NULL
  BY <1>1, <1>2, <1>5, <1>6, KnownBefore DEF InOneThread, AllTidy, HasShape
<1>8. a \in Fitting(bs[b], w) /\ OfKind(bs[b], x.req)
  BY <1>1, <1>2, <1>5 DEF InOneThread, Knows
<1>9. a \in FreeAt(P) /\ P[a].size >= NeededSize(w) /\ a \in DOMAIN P
  BY <1>8 DEF Fitting, FreeAt
<1>10. /\ w.size \in Nat /\ w.size % 64 = 0 /\ w.lflags \in SUBSET PebbleFlags
       /\ w.alignment \in WantedAlignments /\ "IN_USE" \in w.lflags
  BY <1>7, WantedShape DEF Wanted
<1>11. Sound(P, bs[b].bytes)
  BY <1>7 DEF Tidy
<1>12. Sound(s.list, bs[b].bytes) /\ s.at \in DOMAIN s.list
  <2> HIDE DEF w
  <2> QED
    BY <1>7, <1>9, <1>10, <1>11, SplitPebbleSound
<1>13. /\ Placed(P, Q, s.at, w.size)
       /\ "ALIGNED" \in w.lflags => (s.at + PEBBLE_SZ) % w.alignment = 0
  <2> HIDE DEF w
  <2> QED
    BY <1>7, <1>9, <1>10, <1>11, SplitPlaces
<1> HIDE DEF s
<1>14. Sound(Q, bs[b].bytes) /\ DOMAIN Q \subseteq Nat
  <2> HIDE DEF w
  <2>1. Sound(Q, bs[b].bytes)
    BY <1>7, <1>10, <1>12, FlagsSound DEF Marked
  <2> QED
    BY <2>1 DEF Sound, IsList
<1>15. /\ bk.list = Q /\ bk.first = bs[b].first /\ bk.largest = bs[b].largest
       /\ SameFrame(bk, bs[b])
  BY <1>7, ListFields DEF SameFrame
<1>16. s.at \in Nat /\ w.size >= x.req.size /\ (s.at + PEBBLE_SZ) % x.req.alignment = 0
  <2>1. s.at \in Nat
    BY <1>13, <1>14 DEF Placed
  <2> QED
    BY <1>7, <1>13, <2>1, WantedFits
<1> HIDE DEF Q, bk, w, x2, l2
<1>17. Tidy(bk)
  BY <1>7, <1>13, <1>14, <1>15, TidyList DEF SameFrame, Placed
<1>18. Rewrites(bs, cs, b) /\ cs[b] = bk
  BY <1>2, <1>15, RewritesOne
<1> HIDE DEF cs
<1>19. Seams(P) = {}
  BY <1>2, <1>5, <1>6, NoSeams DEF InOneThread
<1>20. Seams(Q) = {} /\ UsedAt(Q) # {} /\ s.at \in UsedAt(Q) \ UsedAt(P)
  BY <1>13, <1>19 DEF Placed
<1>21. l2 \in {"k_first", "n_largest"} /\ l2 \notin LinkPCs
  BY DEF l2, LinkPCs
<1>22. Knows(cs, l2, x2)
  BY <1>2, <1>4, <1>18, <1>21 DEF Knows, NewPCs, GonePCs, Rewrites
<1>23. Claimed(cs, l2, x2, lv)
  <2>1. \A y \in UsedAt(bs[b].list) :
          y \in UsedAt(cs[b].list) /\ cs[b].list[y].size = bs[b].list[y].size
    BY <1>13, <1>15, <1>18 DEF Placed
  <2>2. Undisturbed(bs, cs, {})
    BY <1>18, <2>1, WrittenNone
  <2>3. Here(x2).b = b /\ Here(x2).at = s.at
    BY <1>4 DEF Here
  <2>4. ~InUse(bs, Here(x2))
    BY <1>20, <2>3 DEF InUse
  <2>5. GoodBlock(cs, Here(x2), x2.req)
    <3>1. InUse(cs, Here(x2))
      BY <1>2, <1>15, <1>18, <1>20, <2>3 DEF InUse, Rewrites
    <3>2. Q[s.at].size >= w.size /\ Q[s.at].size \in Nat
      BY <1>13, <1>14 DEF Placed, Sound, IsList, Pebble
    <3>3. Q[s.at].size >= x.req.size
      BY <1>7, <1>10, <1>16, <3>2 DEF ProperRequest
    <3>4. OfKind(cs[b], x.req)
      BY <1>8, <1>15, <1>18 DEF OfKind, SameFrame
    <3> QED
      BY <1>4, <1>15, <1>16, <1>18, <2>3, <3>1, <3>3, <3>4 DEF GoodBlock
  <2>6. Claimed(bs, l, x, lv)
    BY <1>5 DEF InOneThread
  <2> QED
    BY <1>4, <1>6, <1>7, <1>21, <2>2, <2>4, <2>5, <2>6, ClaimsMore
<1>24. InOneThread(cs, l2, x2, lv)
  BY <1>1, <1>4, <1>5, <1>6, <1>7, <1>15, <1>17, <1>18, <1>20, <1>21, <1>22, <1>23, ListOn
<1> QED
  BY <1>1, <1>2, <1>3, <1>24 DEF OneInv

(* realloc makes the block smaller and hands it back. *)
LEMMA OneShrinkSplit ==
  ASSUME Grounds, NEW t \in Threads, OneInv(t), ShrinkSplit(t)
  PROVE  OneInv(t)'
<1>1. PICK bs, x, lv, b, a, n : /\ bs = buckets /\ x = loc[t] /\ lv = live
                                /\ b = x.cur /\ a = x.at /\ n = x.req.size
  OBVIOUS
<1> DEFINE P  == bs[b].list
           Q  == SplitPlain(P, a, n)
           g  == [bs[b] EXCEPT !.list = Q]
           bk == Unlocked(g)
           cs == [bs EXCEPT ![b] = bk]
           k  == Handed(t, [b |-> b, at |-> a])
<1>2. /\ pc[t] = "s_split" /\ b \in DOMAIN bs /\ a \in DOMAIN P /\ buckets' = cs
      /\ Goto(t, "idle") /\ loc' = [loc EXCEPT ![t] = NoLocals] /\ live' = lv \cup {k}
  BY <1>1 DEF ShrinkSplit, AtHand, Mapped, shrink_pebble
<1>3. pc'[t] = "idle" /\ loc'[t] = NoLocals
  BY <1>2, Gone DEF Grounds
<1>4. InOneThread(bs, "s_split", x, lv)
  BY <1>1, <1>2 DEF OneInv
<1>5. "s_split" \in HerePCs /\ "s_split" \in PlacedPCs /\ "s_split" \in ShrinkPCs
  BY DEF HerePCs, PlacedPCs, ShrinkPCs
<1>6. /\ HasShape(bs[b]) /\ Tidy(bs[b]) /\ KernelHeap \in DOMAIN bs /\ Pointers(x, lv)
      /\ bs[b].bytes \in Nat /\ ProperRequest(x.req)
  BY <1>1, <1>2, <1>4, <1>5, KnownBefore DEF InOneThread, AllTidy, HasShape
<1>7. Here(x) = [b |-> b, at |-> a]
  BY <1>1 DEF Here
<1>8. GoodBlock(bs, Here(x), x.req)
  BY <1>4, <1>5 DEF InOneThread, Claimed
<1>9. a \in UsedAt(P) /\ n \in Nat /\ n <= P[a].size
  <2>1. a \in UsedAt(P) /\ P[a].size >= n /\ n \in Nat /\ P[a].size \in Nat
    BY <1>1, <1>2, <1>6, <1>7, <1>8
    DEF GoodBlock, InUse, ProperRequest, Tidy, Sound, IsList, Pebble
  <2> QED
    BY <2>1
<1>10. Sound(P, bs[b].bytes)
  BY <1>6 DEF Tidy
<1>11. Sound(Q, bs[b].bytes)
  BY <1>2, <1>6, <1>9, <1>10, SplitPlainSound
<1>12. Shrunk(P, Q, a, n)
  BY <1>6, <1>9, <1>10, PlainShrinks
<1> HIDE DEF Q
<1>13. /\ g.list = Q /\ g.first = bs[b].first /\ g.largest = bs[b].largest
       /\ SameFrame(g, bs[b]) /\ HasShape(g)
  BY <1>6, ListFields, ListShape DEF SameFrame
<1> HIDE DEF g
<1>14. Tidy(g)
  BY <1>6, <1>11, <1>12, <1>13, TidyList DEF SameFrame, Shrunk
<1>15. SameCore(bk, g) /\ SameEnds(bk, g) /\ Tidy(bk)
  BY <1>13, <1>14, UnlockedFields, UnlockedTidy
<1> HIDE DEF bk
<1>16. bk.list = Q /\ SameFrame(bk, bs[b])
  BY <1>13, <1>15 DEF SameFrame, SameCore, SameEnds
<1>17. Rewrites(bs, cs, b) /\ cs[b] = bk
  BY <1>2, <1>16, RewritesOne
<1> HIDE DEF cs
<1>18. Seams(P) = {}
  BY <1>2, <1>4, NoSeams DEF InOneThread
<1>19. Seams(Q) = {} /\ a \in UsedAt(Q)
  BY <1>9, <1>12, <1>18 DEF Shrunk
<1>20. Knows(cs, "idle", NoLocals)
  BY DEF Knows, NewPCs, GonePCs
<1>21. Claimed(cs, "idle", NoLocals, lv \cup {k})
  <2>1. \A y \in UsedAt(bs[b].list) \ {a} :
          y \in UsedAt(cs[b].list) /\ cs[b].list[y].size = bs[b].list[y].size
    BY <1>12, <1>16, <1>17 DEF Shrunk
  <2>2. Undisturbed(bs, cs, {Here(x)})
    BY <1>7, <1>17, <2>1, WrittenBut
  <2>3. Here(x) \in Claims("s_split", x)
    BY <1>5 DEF Claims
  <2>4. k.p = Here(x) /\ k.req = x.req
    BY <1>1, <1>7 DEF Handed
  <2> HIDE DEF k
  <2>5. GoodBlock(cs, k.p, k.req)
    <3>1. InUse(cs, Here(x))
      BY <1>2, <1>7, <1>16, <1>17, <1>19 DEF InUse, Rewrites
    <3>2. Q[a].size >= x.req.size
      BY <1>1, <1>12 DEF Shrunk
    <3>3. OfKind(cs[b], x.req)
      BY <1>7, <1>8, <1>16, <1>17 DEF GoodBlock, OfKind, SameFrame
    <3>4. (a + PEBBLE_SZ) % x.req.alignment = 0
      BY <1>7, <1>8 DEF GoodBlock
    <3> QED
      BY <1>7, <1>16, <1>17, <2>4, <3>1, <3>2, <3>3, <3>4 DEF GoodBlock
  <2>6. Claimed(bs, "s_split", x, lv)
    BY <1>4 DEF InOneThread
  <2> QED
    BY <1>6, <2>2, <2>3, <2>4, <2>5, <2>6, ClaimsGive
<1>22. InOneThread(cs, "idle", NoLocals, lv \cup {k})
  BY <1>1, <1>4, <1>6, <1>15, <1>16, <1>17, <1>19, <1>20, <1>21, ListOn
  DEF LinkPCs
<1> QED
  BY <1>2, <1>3, <1>22 DEF OneInv

-----------------------------------------------------------------------------
(* The end of mfree *)

(* mfree returns, and realloc with it, if it was realloc that called it. *)
LEMMA OneMfreeReturns ==
  ASSUME Grounds, NEW t \in Threads, OneInv(t), MfreeReturns(t),
         pc[t] \in {"f_check", "u_walk", "r_unmap"}, NEW cs, Undisturbed(buckets, cs, {})
  PROVE  pc'[t] = "idle" /\ loc'[t] = NoLocals /\ Claimed(cs, "idle", NoLocals, live')
<1>1. PICK l, x : l = pc[t] /\ x = loc[t]
  OBVIOUS
<1>2. pc'[t] = "idle" /\ loc'[t] = NoLocals
  BY Gone DEF MfreeReturns, Grounds
<1>3. Claimed(buckets, l, x, live) /\ Pointers(x, live)
  BY <1>1, KnownBefore DEF OneInv, InOneThread
<1>4. CASE x.ret = NULL
  <2>1. live' = live
    BY <1>1, <1>4 DEF MfreeReturns
  <2>2. Claims("idle", NoLocals) \subseteq Claims(l, x) \ {} /\ "idle" \notin HerePCs
    BY NoClaims DEF HerePCs, PlacedPCs, ShrinkPCs
  <2> QED
    BY <1>2, <1>3, <2>1, <2>2, NoClaims, ClaimsCarry
<1>5. CASE x.ret # NULL
  <2>1. PICK k : k = Handed(t, x.ret)
    OBVIOUS
  <2>2. k.p = x.ret /\ k.req = x.req /\ live' = live \cup {k}
    BY <1>1, <1>5, <2>1 DEF MfreeReturns, Handed
  <2>3. IsPointer(k.p)
    BY <1>3, <1>5, <2>2 DEF Pointers, PointerShape
  <2>4. k.p \in Claims(l, x) /\ GoodBlock(buckets, k.p, k.req)
    BY <1>3, <1>5, <2>2 DEF Claims, Claimed
  <2>5. GoodBlock(cs, k.p, k.req)
    BY <2>3, <2>4, GoodStays
  <2>6. Claimed(cs, "idle", NoLocals, live \cup {k})
    BY <1>3, <2>4, <2>5, ClaimsGive
  <2> QED
    BY <1>2, <2>2, <2>6
<1> QED
  BY <1>4, <1>5

(* mfree goes on from one look at the bucket to the next. *)
LEMMA LooksOn ==
  ASSUME NEW bs, NEW l, NEW x, NEW lv, InOneThread(bs, l, x, lv),
         NEW l2, NEW x2, {l, l2} \subseteq {"f_check", "r_prev", "fault"} \cup OpenPCs,
         x2.cur = x.cur, x2.old = x.old, x2.ret = x.ret, x2.req = x.req,
         l2 # "fault" => x.cur \in DOMAIN bs,
         l2 = "r_prev" =>
           UsedAt(bs[x.cur].list) = {} /\ "PERSISTENT" \notin bs[x.cur].lflags
  PROVE  InOneThread(bs, l2, x2, lv)
<1>1. {l, l2} \cap (HerePCs \cup AllocPCs \cup LinkPCs \cup {"f_melt", "f_absorb"}) = {}
      /\ {l, l2} \subseteq EmptyPCs
  BY DEF OpenPCs, LoadPCs, TestPCs, HerePCs, PlacedPCs, ShrinkPCs, AllocPCs, LinkPCs,
         EmptyPCs, NewPCs, GonePCs
<1>2. Claims(l2, x2) = Claims(l, x)
  BY <1>1 DEF Claims
<1>3. l2 \notin PlacedPCs /\ l2 \notin HerePCs
  BY <1>1 DEF HerePCs
<1>4. Claimed(bs, l2, x2, lv)
  BY <1>2, <1>3 DEF Claimed, InOneThread
<1>5. Knows(bs, l2, x2)
  BY DEF Knows, OpenPCs, LoadPCs, TestPCs, NewPCs, GonePCs
<1> QED
  BY <1>1, <1>4, <1>5, MovesOn

(* What mfree looks for is the only pebble, and free: then nothing is in use. *)
LEMMA OnlyPebble ==
  ASSUME NEW bk, Tidy(bk), NEW a \in DOMAIN bk.list,
         PEBBLE_IS_FREE(bk.list[a]), bk.list[a].prev = NULL, bk.list[a].next = NULL
  PROVE  UsedAt(bk.list) = {}
<1> DEFINE P == bk.list
<1>1. DOMAIN P \subseteq Nat
  BY DEF Tidy, Sound, IsList
<1>2. ASSUME NEW c \in DOMAIN P PROVE c = a
  <2>1. a = FirstPebble /\ FirstPebble <= c
    BY DEF Tidy, Sound, ListWellFormed, LinksAgree, Inside
  <2>2. ~(a < c)
    BY DEF Tidy, Sound, ListWellFormed, InOrder
  <2>3. a \in Nat /\ c \in Nat
    BY <1>1
  <2> QED
    BY <2>1, <2>2, <2>3
<1> QED
  BY <1>2 DEF UsedAt

(* And where no two free pebbles lie side by side it finds that whenever none is in use. *)
LEMMA EmptyList ==
  ASSUME NEW bk, Tidy(bk), Seams(bk.list) = {}, UsedAt(bk.list) = {}, NEW f \in DOMAIN bk.list
  PROVE  PEBBLE_IS_FREE(bk.list[f]) /\ bk.list[f].prev = NULL /\ bk.list[f].next = NULL
<1> DEFINE P == bk.list
<1>1. \A a \in DOMAIN P : a \in FreeAt(P)
  BY DEF UsedAt, FreeAt
<1>2. P[f].next = NULL
  <2>1. P[f].next # NULL => P[f].next \in DOMAIN P
    BY DEF Tidy, Sound, ListWellFormed, LinksAgree
  <2> QED
    BY <1>1, <2>1 DEF Seams
<1>3. P[f].prev = NULL
  <2>1. P[f].prev # NULL => P[f].prev \in DOMAIN P /\ P[P[f].prev].next = f
    BY DEF Tidy, Sound, ListWellFormed, LinksAgree
  <2> QED
    BY <1>1, <2>1 DEF Seams
<1> QED
  BY <1>1, <1>2, <1>3 DEF FreeAt

(* mfree has the bucket of the pebble, and its flags. *)
LEMMA OneFreeCheck ==
  ASSUME Grounds, NEW t \in Threads, OneInv(t), OneLooks(t), FreeCheck(t)
  PROVE  OneInv(t)' /\ OneLooks(t)'
<1>1. PICK bs, x, lv, b : bs = buckets /\ x = loc[t] /\ lv = live /\ b = x.cur
  OBVIOUS
<1>2. pc[t] = "f_check" /\ b \in DOMAIN bs /\ buckets' = bs
  BY <1>1 DEF FreeCheck, Mapped
<1>3. InOneThread(bs, "f_check", x, lv) /\ Looks(bs, "f_check", x)
  BY <1>1, <1>2 DEF OneInv, OneLooks
<1>4. Tidy(bs[b]) /\ KernelHeap \in DOMAIN bs
  BY <1>1, <1>2, <1>3, KnownBefore DEF InOneThread, AllTidy
<1>5. Seams(bs[b].list) = {}
  BY <1>2, <1>3, NoSeams DEF InOneThread
<1>6. "f_check" \notin LinkPCs /\ "idle" \notin LinkPCs
  BY DEF LinkPCs
<1>7. CASE "PERSISTENT" \in bs[b].lflags /\ MfreeReturns(t)
  <2>1. pc'[t] = "idle" /\ loc'[t] = NoLocals /\ Claimed(bs, "idle", NoLocals, live')
    BY <1>1, <1>2, <1>7, NothingDisturbed, OneMfreeReturns
  <2>2. Rewrites(bs, bs, b)
    BY <1>2 DEF Rewrites, SameFrame, SameEnds
  <2>3. Knows(bs, "idle", NoLocals)
    BY DEF Knows, NewPCs, GonePCs
  <2>4. PICK lw : lw = live'
    OBVIOUS
  <2>5. InOneThread(bs, "idle", NoLocals, lw)
    BY <1>1, <1>3, <1>4, <1>5, <1>6, <1>7, <2>1, <2>2, <2>3, <2>4, ListOn
  <2>6. Looks(bs, "idle", NoLocals)
    BY DEF Looks, OpenPCs, LoadPCs, TestPCs
  <2> QED
    BY <1>1, <1>2, <2>1, <2>4, <2>5, <2>6 DEF OneInv, OneLooks
<1>8. CASE "PERSISTENT" \notin bs[b].lflags /\ Goto(t, "f_first") /\ UNCHANGED <<loc, live>>
  <2>1. pc'[t] = "f_first"
    BY <1>8, Gone DEF Grounds
  <2>2. InOneThread(bs, "f_first", x, lv)
    BY <1>1, <1>2, <1>3, LooksOn DEF OpenPCs, LoadPCs
  <2>3. Looks(bs, "f_first", x)
    BY <1>1, <1>3, <1>8 DEF Looks, OpenPCs, LoadPCs, TestPCs
  <2> QED
    BY <1>1, <1>2, <1>8, <2>1, <2>2, <2>3 DEF OneInv, OneLooks
<1> QED
  BY <1>1, <1>7, <1>8 DEF FreeCheck

(* It loads bucket->first, or has it. *)
LEMMA OneLoadFirst ==
  ASSUME Grounds, NEW t \in Threads, OneInv(t), OneLooks(t), LoadFirst(t)
  PROVE  OneInv(t)' /\ OneLooks(t)'
<1>1. PICK bs, l, x, lv, b :
        bs = buckets /\ l = pc[t] /\ x = loc[t] /\ lv = live /\ b = x.cur
  OBVIOUS
<1>2. l \in LoadPCs /\ b \in DOMAIN bs /\ buckets' = bs /\ live' = lv
  BY <1>1 DEF LoadFirst, Mapped
<1>3. InOneThread(bs, l, x, lv) /\ Looks(bs, l, x)
  BY <1>1 DEF OneInv, OneLooks
<1>4. bs[b].first \in DOMAIN bs[b].list \cup {NULL}
  BY <1>2, <1>3 DEF InOneThread, AllTidy, Tidy, Bounded
<1>5. PICK l2, x2 : l2 = pc'[t] /\ x2 = loc'[t]
  OBVIOUS
<1>6. l2 = CASE l = "f_first" -> "f_free" [] l = "f_again" -> "f_prev" [] l = "f_last" -> "f_next"
  BY <1>1, <1>5, Gone DEF LoadFirst, Grounds
<1>7. /\ x2.cur = x.cur /\ x2.old = x.old /\ x2.ret = x.ret /\ x2.req = x.req
      /\ \/ bs[b].first # NULL /\ x2.at = bs[b].first
         \/ l # "f_first" /\ x2.at = x.at
  <2>1. CASE bs[b].first # NULL /\ loc' = [loc EXCEPT ![t].at = bs[b].first]
    BY <1>1, <1>5, <2>1 DEF Grounds, ShapeInv, CallsInv, LocalsShape
  <2>2. CASE l # "f_first" /\ loc' = loc
    BY <1>1, <1>5, <2>2
  <2> QED
    BY <1>1, <2>1, <2>2 DEF LoadFirst
<1>8. l2 \in {"f_free", "f_prev", "f_next"} /\ l \in OpenPCs /\ l2 \in OpenPCs
      /\ (l # "f_first" => l \in {"f_again", "f_last"})
  BY <1>2, <1>6 DEF OpenPCs, LoadPCs, TestPCs
<1>9. InOneThread(bs, l2, x2, lv)
  BY <1>1, <1>2, <1>3, <1>7, <1>8, LooksOn
<1>10. Looks(bs, l2, x2)
  <2>1. x2.at = bs[b].first /\ x2.at \in DOMAIN bs[b].list /\ "PERSISTENT" \notin bs[b].lflags
    BY <1>1, <1>3, <1>4, <1>7, <1>8 DEF Looks
  <2>2. l # "f_first" => x.at = bs[b].first /\ PEBBLE_IS_FREE(bs[b].list[x.at])
    BY <1>1, <1>3, <1>8 DEF Looks
  <2>3. l = "f_last" => bs[b].list[x.at].prev = NULL
    BY <1>1, <1>3 DEF Looks
  <2>4. /\ l2 = "f_prev" => l = "f_again"
        /\ l2 = "f_next" => l = "f_last"
    BY <1>2, <1>6 DEF LoadPCs
  <2> QED
    BY <1>1, <1>7, <1>8, <2>1, <2>2, <2>3, <2>4 DEF Looks
<1> QED
  BY <1>2, <1>5, <1>9, <1>10 DEF OneInv, OneLooks

(* It looks at a field of the pebble there. *)
LEMMA OneTestFirst ==
  ASSUME Grounds, NEW t \in Threads, OneInv(t), OneLooks(t), TestFirst(t)
  PROVE  OneInv(t)' /\ OneLooks(t)'
<1>1. PICK bs, l, x, lv, b :
        bs = buckets /\ l = pc[t] /\ x = loc[t] /\ lv = live /\ b = x.cur
  OBVIOUS
<1>2. l \in TestPCs /\ b \in DOMAIN bs /\ buckets' = bs /\ live' = lv
  BY <1>1 DEF TestFirst, Mapped
<1>3. InOneThread(bs, l, x, lv) /\ Looks(bs, l, x)
  BY <1>1 DEF OneInv, OneLooks
<1>4. Tidy(bs[b]) /\ l \in OpenPCs
  BY <1>2, <1>3 DEF InOneThread, AllTidy, OpenPCs
<1>5. /\ x.at \in DOMAIN bs[b].list /\ x.at = bs[b].first /\ "PERSISTENT" \notin bs[b].lflags
      /\ l \in {"f_prev", "f_next"} => PEBBLE_IS_FREE(bs[b].list[x.at])
      /\ l = "f_next" => bs[b].list[x.at].prev = NULL
  BY <1>1, <1>2, <1>3, <1>4 DEF Looks
<1>6. Seams(bs[b].list) = {}
  BY <1>2, <1>3, NoSeams DEF InOneThread, TestPCs
<1>7. PICK l2, x2 : l2 = pc'[t] /\ x2 = loc'[t]
  OBVIOUS
<1>8. AtHand(t)
  BY <1>1, <1>2, <1>5 DEF AtHand, Mapped
<1>9. CASE /\ MayPass(t) /\ loc' = loc
           /\ Goto(t, CASE l = "f_free" -> "f_again" [] l = "f_prev" -> "f_last"
                        [] l = "f_next" -> "r_prev")
  <2>1. l2 = CASE l = "f_free" -> "f_again" [] l = "f_prev" -> "f_last" [] l = "f_next" -> "r_prev"
    BY <1>7, <1>9, Gone DEF Grounds
  <2>2. x2 = x
    BY <1>1, <1>7, <1>9
  <2>3. /\ l = "f_free" => PEBBLE_IS_FREE(bs[b].list[x.at])
        /\ l = "f_prev" => bs[b].list[x.at].prev = NULL
        /\ l = "f_next" => bs[b].list[x.at].next = NULL
    BY <1>1, <1>8, <1>9 DEF MayPass
  <2>4. l = "f_next" => UsedAt(bs[b].list) = {}
    BY <1>4, <1>5, <2>3, OnlyPebble
  <2>5. l2 \in {"r_prev"} \cup OpenPCs
        /\ (l2 = "r_prev" => l = "f_next") /\ (l2 = "f_last" => l = "f_prev")
        /\ l2 \in {"f_again", "f_last", "r_prev"}
    BY <1>2, <2>1 DEF TestPCs, OpenPCs, LoadPCs
  <2>6. InOneThread(bs, l2, x, lv)
    BY <1>1, <1>2, <1>3, <1>4, <1>5, <2>4, <2>5, LooksOn
  <2>7. PEBBLE_IS_FREE(bs[b].list[x.at])
    BY <1>2, <1>5, <2>3 DEF TestPCs
  <2>8. Looks(bs, l2, x)
    BY <1>1, <1>5, <2>3, <2>5, <2>7 DEF Looks, OpenPCs, LoadPCs, TestPCs
  <2> QED
    BY <1>2, <1>7, <2>2, <2>6, <2>8 DEF OneInv, OneLooks
<1>10. CASE MayFail(t) /\ Goto(t, "u_walk") /\ loc' = [loc EXCEPT ![t].at = FirstPebble]
  <2>1. l2 = "u_walk"
    BY <1>7, <1>10, Gone DEF Grounds
  <2>2. /\ x2.cur = x.cur /\ x2.old = x.old /\ x2.ret = x.ret /\ x2.req = x.req
        /\ x2.at = FirstPebble
    BY <1>1, <1>7, <1>10 DEF Grounds, ShapeInv, CallsInv, LocalsShape
  <2>3. InOneThread(bs, l2, x2, lv)
    BY <1>1, <1>2, <1>3, <1>4, <2>1, <2>2, LooksOn DEF OpenPCs
  <2>4. UsedAt(bs[b].list) # {}
    <3>1. ASSUME UsedAt(bs[b].list) = {} PROVE FALSE
      <4>1. /\ PEBBLE_IS_FREE(bs[b].list[x.at])
            /\ bs[b].list[x.at].prev = NULL /\ bs[b].list[x.at].next = NULL
        BY <1>4, <1>5, <1>6, <3>1, EmptyList
      <4>2. MayPass(t)
        BY <1>1, <1>2, <4>1 DEF MayPass, TestPCs
      <4> QED
        BY <1>8, <1>10, <4>2 DEF MayFail
    <3> QED
      BY <3>1
  <2>5. FirstPebble \in DOMAIN bs[b].list
    BY <1>4 DEF Tidy, Sound, ListWellFormed
  <2>6. Looks(bs, l2, x2)
    BY <1>1, <1>5, <2>1, <2>2, <2>4, <2>5 DEF Looks, OpenPCs, LoadPCs, TestPCs
  <2> QED
    BY <1>2, <1>7, <2>3, <2>6 DEF OneInv, OneLooks
<1> QED
  BY <1>1, <1>9, <1>10 DEF TestFirst

(* Or it walks the list for the largest pebble. *)
LEMMA OneWalkLargest ==
  ASSUME Grounds, NEW t \in Threads, OneInv(t), OneLooks(t), WalkLargest(t)
  PROVE  OneInv(t)' /\ OneLooks(t)'
<1>1. PICK bs, x, lv, b, a :
        bs = buckets /\ x = loc[t] /\ lv = live /\ b = x.cur /\ a = x.at
  OBVIOUS
<1>2. pc[t] = "u_walk" /\ b \in DOMAIN bs
  BY <1>1 DEF WalkLargest, Mapped
<1>3. InOneThread(bs, "u_walk", x, lv) /\ Looks(bs, "u_walk", x)
  BY <1>1, <1>2 DEF OneInv, OneLooks
<1>4. /\ HasShape(bs[b]) /\ Tidy(bs[b]) /\ KernelHeap \in DOMAIN bs
      /\ a \in DOMAIN bs[b].list /\ UsedAt(bs[b].list) # {} /\ "PERSISTENT" \notin bs[b].lflags
  BY <1>1, <1>2, <1>3, KnownBefore DEF InOneThread, AllTidy, Looks, OpenPCs
<1> DEFINE n  == bs[b].list[a].next
           bk == bucket_update_largest(bs[b], bs[b].list[a].size)
           cs == [bs EXCEPT ![b] = bk]
<1>5. AtHand(t)
  BY <1>1, <1>2, <1>4 DEF AtHand, Mapped
<1>6. /\ buckets' = cs
      /\ IF n = NULL THEN MfreeReturns(t)
         ELSE loc' = [loc EXCEPT ![t].at = n] /\ pc' = pc /\ live' = live
  BY <1>1, <1>5 DEF WalkLargest
<1>7. bs[b].list[a].size \in Nat
  BY <1>4 DEF Tidy, Sound, IsList, Pebble
<1>8. SameCore(bk, bs[b]) /\ SameEnds(bk, bs[b]) /\ Tidy(bk)
  BY <1>4, <1>7, LargestFields, LargestTidy
<1> HIDE DEF bk
<1>9. bk.list = bs[b].list /\ bk.lflags = bs[b].lflags /\ SameFrame(bk, bs[b])
  BY <1>8 DEF SameCore, SameFrame
<1>10. cs[b] = bk /\ Rewrites(bs, cs, b)
  BY <1>2, <1>9, RewritesOne
<1>11. CASE n # NULL
  <2>1. PICK x2 : x2 = loc'[t]
    OBVIOUS
  <2>2. x2.cur = x.cur /\ x2.old = x.old /\ x2.ret = x.ret /\ x2.req = x.req /\ x2.at = n
    BY <1>1, <1>6, <1>11, <2>1 DEF Grounds, ShapeInv, CallsInv, LocalsShape
  <2>3. InOneThread(bs, "u_walk", x2, lv)
    BY <1>1, <1>2, <1>3, <2>2, LooksOn DEF OpenPCs
  <2>4. InOneThread(cs, "u_walk", x2, lv)
    BY <1>2, <1>4, <1>8, <2>3, OneOn
  <2>5. n \in DOMAIN bs[b].list
    BY <1>4, <1>11 DEF Tidy, Sound, ListWellFormed, LinksAgree
  <2>6. Looks(cs, "u_walk", x2)
    BY <1>1, <1>4, <1>9, <1>10, <2>2, <2>5 DEF Looks, OpenPCs, LoadPCs, TestPCs
  <2>7. pc'[t] = "u_walk" /\ live' = lv
    BY <1>1, <1>2, <1>6, <1>11
  <2> QED
    BY <1>6, <2>1, <2>4, <2>6, <2>7 DEF OneInv, OneLooks
<1>12. CASE n = NULL
  <2>1. Undisturbed(bs, cs, {})
    BY <1>9, <1>10, WrittenNone
  <2> HIDE DEF cs
  <2>2. pc'[t] = "idle" /\ loc'[t] = NoLocals /\ Claimed(cs, "idle", NoLocals, live')
    BY <1>1, <1>2, <1>6, <1>12, <2>1, OneMfreeReturns
  <2>3. Knows(cs, "idle", NoLocals)
    BY DEF Knows, NewPCs, GonePCs
  <2>4. Seams(bs[b].list) = {} /\ "u_walk" \notin LinkPCs /\ "idle" \notin LinkPCs
    BY <1>2, <1>3, NoSeams DEF InOneThread, LinkPCs
  <2>5. PICK lw : lw = live'
    OBVIOUS
  <2>6. InOneThread(cs, "idle", NoLocals, lw)
    BY <1>1, <1>3, <1>4, <1>8, <1>9, <1>10, <2>2, <2>3, <2>4, <2>5, ListOn
  <2>7. Looks(cs, "idle", NoLocals)
    BY DEF Looks, OpenPCs, LoadPCs, TestPCs
  <2> QED
    BY <1>6, <2>2, <2>5, <2>6, <2>7 DEF OneInv, OneLooks
<1> QED
  BY <1>11, <1>12

-----------------------------------------------------------------------------
(* remove_bucket *)

(* The bucket before b now says that what comes after b comes after it. *)
LEMMA UnlinkPrev ==
  ASSUME NEW bs, KernelHeap \in DOMAIN bs, NULL \notin DOMAIN bs, Linked(bs, {}),
         NEW b \in DOMAIN bs, b # KernelHeap, NEW p, p = bs[b].prev,
         NEW cs, DOMAIN cs = DOMAIN bs,
         cs[p].prev = bs[p].prev, cs[p].next = bs[b].next,
         \A c \in DOMAIN bs : c # p => cs[c] = bs[c]
  PROVE  HalfLinked(cs, b)
<1>1. p \in DOMAIN bs /\ bs[p].next = b
  BY DEF Linked, PrevIn
<1>2. \A c \in DOMAIN bs : cs[c].prev = bs[c].prev
  OBVIOUS
<1>3. cs[b].prev = p /\ cs[p].next = cs[b].next
  BY <1>1, <1>2
<1>4. p = b => cs[b].next = b
  BY <1>1, <1>3
<1>5. ASSUME NEW c \in DOMAIN bs \ {b}, c # KernelHeap PROVE PrevIn(cs, {}, c)
  <2>1. bs[c].prev \in DOMAIN bs /\ bs[bs[c].prev].next = c
    BY <1>5 DEF Linked, PrevIn
  <2>2. bs[c].prev # p
    BY <1>1, <1>5, <2>1
  <2> QED
    BY <1>2, <2>1, <2>2 DEF PrevIn
<1>6. ASSUME NEW c \in DOMAIN bs, c # p \/ c = b PROVE NextIn(cs, {}, c)
  <2>1. bs[c].next # NULL => bs[c].next \in DOMAIN bs /\ bs[bs[c].next].prev = c
    BY DEF Linked, NextIn
  <2>2. cs[c].next = bs[c].next
    BY <1>6
  <2> QED
    BY <1>2, <2>1, <2>2 DEF NextIn
<1> QED
  BY <1>1, <1>2, <1>3, <1>4, <1>5, <1>6 DEF HalfLinked, Linked

(* Then the bucket after b: b is cut off. *)
LEMMA UnlinkNext ==
  ASSUME NEW bs, KernelHeap \in DOMAIN bs, NULL \notin DOMAIN bs, NEW b \in DOMAIN bs,
         b # KernelHeap, HalfLinked(bs, b), NEW n, n = bs[b].next, n # KernelHeap,
         NEW cs, DOMAIN cs = DOMAIN bs,
         n # NULL => cs[n].next = bs[n].next /\ cs[n].prev = bs[b].prev,
         \A c \in DOMAIN bs : c # n => cs[c] = bs[c]
  PROVE  Linked(cs, {b})
<1> DEFINE p == bs[b].prev
<1>1. n # NULL => n \in DOMAIN bs /\ bs[n].prev = b
  BY DEF HalfLinked, NextIn
<1>2. p \in DOMAIN bs /\ bs[p].next = n /\ (p = b => n = b)
  BY DEF HalfLinked
<1>3. \A c \in DOMAIN bs : cs[c].next = bs[c].next /\ (c # n => cs[c].prev = bs[c].prev)
  BY <1>1
<1>4. ASSUME NEW c \in DOMAIN bs \ {b}, c # KernelHeap PROVE PrevIn(cs, {b}, c)
  <2>1. CASE c = n
    <3>1. cs[c].prev = p /\ p # b
      BY <1>1, <1>2, <1>4, <2>1
    <3> QED
      BY <1>2, <1>3, <2>1, <3>1 DEF PrevIn
  <2>2. CASE c # n
    <3>1. bs[c].prev \in DOMAIN bs /\ bs[bs[c].prev].next = c
      BY <1>4 DEF HalfLinked, PrevIn
    <3>2. bs[c].prev # b
      BY <2>2, <3>1
    <3> QED
      BY <1>3, <2>2, <3>1, <3>2 DEF PrevIn
  <2> QED
    BY <2>1, <2>2
<1>5. ASSUME NEW c \in DOMAIN bs \ {b} PROVE NextIn(cs, {b}, c)
  <2>1. CASE c = p /\ n # NULL
    <3>1. n # b
      BY <1>1, <1>5, <2>1
    <3> QED
      BY <1>1, <1>2, <1>3, <2>1, <3>1 DEF NextIn
  <2>2. CASE c = p /\ n = NULL
    BY <1>2, <1>3, <2>2 DEF NextIn
  <2>3. CASE c # p
    <3> DEFINE m == bs[c].next
    <3>1. m # NULL => m \in DOMAIN bs /\ bs[m].prev = c
      BY <2>3 DEF HalfLinked, NextIn
    <3>2. m # NULL => m # b /\ m # n
      BY <1>1, <1>5, <2>3, <3>1
    <3> QED
      BY <1>3, <3>1, <3>2 DEF NextIn
  <2> QED
    BY <2>1, <2>2, <2>3
<1>6. cs[KernelHeap].prev = NULL
  BY <1>3 DEF HalfLinked
<1> QED
  BY <1>4, <1>5, <1>6 DEF Linked

(* A step of remove_bucket that writes a link. *)
LEMMA RemoveOn ==
  ASSUME NEW bs, NEW cs, DOMAIN cs = DOMAIN bs, \A c \in DOMAIN bs : SameTidy(cs[c], bs[c]),
         NEW l \in {"r_prev", "r_next"}, NEW l2 \in {"r_next", "r_unmap"}, NEW x, NEW lv,
         InOneThread(bs, l, x, lv), Linkage(cs, l2, x)
  PROVE  InOneThread(cs, l2, x, lv)
<1>1. Still(bs, cs) /\ AllTidy(cs)
  BY SameTidyTidy DEF Still, SameTidy, AllTidy, InOneThread
<1>2. /\ l \in GonePCs /\ l2 \in GonePCs /\ l \in EmptyPCs /\ l2 \in EmptyPCs
      /\ l \notin {"f_melt", "f_absorb"} /\ l2 \notin NewPCs \cup {"k_split", "n_split"}
      /\ l2 \notin {"f_melt", "f_absorb"}
  BY DEF GonePCs, EmptyPCs, OpenPCs, LoadPCs, TestPCs, NewPCs
<1>3. Claimed(bs, l2, x, lv)
  <2>1. /\ l \notin HerePCs \cup AllocPCs \cup PlacedPCs
        /\ l2 \notin HerePCs \cup AllocPCs \cup PlacedPCs
    BY DEF HerePCs, PlacedPCs, AllocPCs, ShrinkPCs
  <2> QED
    BY <2>1, ClaimsSame DEF InOneThread
<1>4. /\ Joined(bs, l2, x) /\ Knows(bs, l2, x) /\ Occupied(bs, l2, x)
  BY <1>2 DEF InOneThread, Joined, AtJoint, Knows, Occupied
<1> QED
  BY <1>1, <1>3, <1>4, StillKeeps DEF InOneThread

(* The bucket before the one that is given back passes over it. *)
LEMMA OneRemovePrev ==
  ASSUME Grounds, NEW t \in Threads, OneInv(t), RemovePrev(t)
  PROVE  OneInv(t)'
<1>1. PICK bs, x, lv, b, p : bs = buckets /\ x = loc[t] /\ lv = live /\ b = x.cur /\ p = bs[b].prev
  OBVIOUS
<1>2. /\ pc[t] = "r_prev" /\ b \in DOMAIN bs
      /\ pc'[t] = "r_next" /\ loc' = loc /\ live' = live
      /\ buckets' = IF p = NULL THEN bs ELSE [bs EXCEPT ![p].next = bs[b].next]
  BY <1>1, Gone DEF RemovePrev, Mapped, Grounds
<1>3. InOneThread(bs, "r_prev", x, lv)
  BY <1>1, <1>2 DEF OneInv
<1>4. /\ KernelHeap \in DOMAIN bs /\ NULL \notin DOMAIN bs /\ b # KernelHeap
      /\ \A c \in DOMAIN bs : HasShape(bs[c])
  BY <1>1, <1>2, KnownBefore DEF Grounds, LockInv, Away, AwayPCs
<1>5. Linked(bs, {})
  BY <1>3 DEF InOneThread, Linkage
<1>6. p \in DOMAIN bs /\ p # NULL
  BY <1>1, <1>2, <1>4, <1>5 DEF Linked, PrevIn
<1> DEFINE bk == [bs[p] EXCEPT !.next = bs[b].next]
           cs == [bs EXCEPT ![p] = bk]
<1>7. SameTidy(bk, bs[p]) /\ bk.next = bs[b].next /\ bk.prev = bs[p].prev
  BY <1>4, <1>6, NextFields
<1>8. buckets' = cs
  BY <1>2, <1>6
<1> HIDE DEF bk
<1>9. DOMAIN cs = DOMAIN bs /\ cs[p] = bk /\ \A c \in DOMAIN bs : c # p => cs[c] = bs[c]
  BY <1>6
<1> HIDE DEF cs
<1>10. HalfLinked(cs, b)
  BY <1>1, <1>2, <1>4, <1>5, <1>7, <1>9, UnlinkPrev
<1>11. \A c \in DOMAIN bs : SameTidy(cs[c], bs[c])
  BY <1>7, <1>9 DEF SameTidy, SameCore
<1>12. Linkage(cs, "r_next", x)
  BY <1>1, <1>10 DEF Linkage
<1>13. InOneThread(cs, "r_next", x, lv)
  BY <1>3, <1>9, <1>11, <1>12, RemoveOn
<1> QED
  BY <1>1, <1>2, <1>8, <1>13 DEF OneInv

(* And so does the bucket behind it. *)
LEMMA OneRemoveNext ==
  ASSUME Grounds, NEW t \in Threads, OneInv(t), RemoveNext(t)
  PROVE  OneInv(t)'
<1>1. PICK bs, x, lv, b, n : bs = buckets /\ x = loc[t] /\ lv = live /\ b = x.cur /\ n = bs[b].next
  OBVIOUS
<1>2. /\ pc[t] = "r_next" /\ b \in DOMAIN bs
      /\ pc'[t] = "r_unmap" /\ loc' = loc /\ live' = live
      /\ buckets' = IF n = NULL THEN bs ELSE [bs EXCEPT ![n].prev = bs[b].prev]
  BY <1>1, Gone DEF RemoveNext, Mapped, Grounds
<1>3. InOneThread(bs, "r_next", x, lv)
  BY <1>1, <1>2 DEF OneInv
<1>4. /\ KernelHeap \in DOMAIN bs /\ NULL \notin DOMAIN bs /\ b # KernelHeap /\ n # KernelHeap
      /\ \A c \in DOMAIN bs : HasShape(bs[c])
  BY <1>1, <1>2, KnownBefore DEF Grounds, LockInv, Away, AwayPCs
<1>5. HalfLinked(bs, b)
  BY <1>1, <1>3 DEF InOneThread, Linkage
<1>6. n # NULL => n \in DOMAIN bs
  BY <1>1, <1>2, <1>5 DEF HalfLinked, NextIn
<1>7. PICK cs : cs = buckets'
  OBVIOUS
<1>8. /\ DOMAIN cs = DOMAIN bs /\ \A c \in DOMAIN bs : c # n => cs[c] = bs[c]
      /\ n # NULL => /\ SameTidy(cs[n], bs[n])
                     /\ cs[n].next = bs[n].next /\ cs[n].prev = bs[b].prev
  <2>1. CASE n = NULL
    BY <1>2, <1>7, <2>1
  <2>2. CASE n # NULL
    <3> DEFINE bk == [bs[n] EXCEPT !.prev = bs[b].prev]
    <3>1. SameTidy(bk, bs[n]) /\ bk.next = bs[n].next /\ bk.prev = bs[b].prev
      BY <1>4, <1>6, <2>2, PrevFields
    <3>2. cs = [bs EXCEPT ![n] = bk]
      BY <1>2, <1>7, <2>2
    <3> HIDE DEF bk
    <3>3. DOMAIN cs = DOMAIN bs /\ cs[n] = bk /\ \A c \in DOMAIN bs : c # n => cs[c] = bs[c]
      BY <1>6, <2>2, <3>2
    <3> QED
      BY <3>1, <3>3
  <2> QED
    BY <2>1, <2>2
<1>9. Linked(cs, {b})
  BY <1>1, <1>2, <1>4, <1>5, <1>8, UnlinkNext
<1>10. \A c \in DOMAIN bs : SameTidy(cs[c], bs[c])
  BY <1>4, <1>8 DEF SameTidy, SameCore
<1>11. Linkage(cs, "r_unmap", x)
  BY <1>1, <1>9 DEF Linkage
<1>12. InOneThread(cs, "r_unmap", x, lv)
  BY <1>3, <1>8, <1>10, <1>11, RemoveOn
<1> QED
  BY <1>1, <1>2, <1>7, <1>12 DEF OneInv

(* mmap_free: the bucket is gone, and nothing that is in use was in it. *)
LEMMA OneRemoveUnmap ==
  ASSUME Grounds, NEW t \in Threads, OneInv(t), RemoveUnmap(t)
  PROVE  OneInv(t)'
<1>1. PICK bs, cs, x, b : bs = buckets /\ cs = buckets' /\ x = loc[t] /\ b = x.cur
  OBVIOUS
<1>2. pc[t] = "r_unmap" /\ MfreeReturns(t) /\ cs = [c \in DOMAIN bs \ {b} |-> bs[c]]
  BY <1>1 DEF RemoveUnmap
<1>3. InOneThread(bs, "r_unmap", x, live)
  BY <1>1, <1>2 DEF OneInv
<1>4. DOMAIN cs = DOMAIN bs \ {b} /\ \A c \in DOMAIN cs : cs[c] = bs[c]
  BY <1>2
<1>5. KernelHeap \in DOMAIN bs /\ b # KernelHeap
  BY <1>1, <1>2, KnownBefore DEF Grounds, LockInv, Away, AwayPCs
<1>6. UsedAt(bs[b].list) = {}
  BY <1>1, <1>3 DEF InOneThread, Knows, GonePCs
<1>7. Undisturbed(bs, cs, {})
  BY <1>4, <1>6 DEF Undisturbed, InUse
<1>8. pc'[t] = "idle" /\ loc'[t] = NoLocals /\ Claimed(cs, "idle", NoLocals, live')
  BY <1>1, <1>2, <1>7, OneMfreeReturns
<1>9. Linked(cs, {})
  <2>1. Linked(bs, {b})
    BY <1>1, <1>3 DEF InOneThread, Linkage
  <2> QED
    BY <1>4, <1>5, <2>1 DEF Linked, PrevIn, NextIn
<1>10. AllTidy(cs) /\ Knows(cs, "idle", NoLocals) /\ Linkage(cs, "idle", NoLocals)
  BY <1>3, <1>4, <1>9 DEF InOneThread, AllTidy, Knows, NewPCs, GonePCs, Linkage
<1>11. Joined(cs, "idle", NoLocals)
  BY <1>3, <1>4 DEF InOneThread, Joined, AtJoint
<1>12. Occupied(cs, "idle", NoLocals)
  BY <1>1, <1>3, <1>4 DEF InOneThread, Occupied
<1> QED
  BY <1>1, <1>8, <1>10, <1>11, <1>12 DEF OneInv, InOneThread

-----------------------------------------------------------------------------
(* Wild addresses *)

(* What a call works on is mapped and has its header, but that first of a bucket that
   may be given back can be NULL when mfree reads through it. *)
LEMMA OnlyFirstIsWild ==
  ASSUME Grounds, NEW t \in Threads, OneInv(t), OneLooks(t), Wild(t)
  PROVE  pc[t] = "f_first" /\ loc[t].cur \in DOMAIN buckets /\ buckets[loc[t].cur].first = NULL
<1>1. PICK bs, l, x, b : bs = buckets /\ l = pc[t] /\ x = loc[t] /\ b = x.cur
  OBVIOUS
<1>2. InOneThread(bs, l, x, live)
  BY <1>1 DEF OneInv
<1>3. /\ KernelHeap \in DOMAIN bs /\ NULL \notin DOMAIN bs
      /\ l \in {"r_prev", "r_next"} => b # KernelHeap
  BY <1>1, KnownBefore DEF Grounds, LockInv, Away, AwayPCs
<1>4. l \notin {"idle", "k_create", "fault"} => b \in DOMAIN bs
  BY <1>1, <1>2 DEF InOneThread, Knows
<1>5. l = "i_link" => (bs[KernelHeap].next # NULL => bs[KernelHeap].next \in DOMAIN bs)
  <2>1. l = "i_link" => Linked(bs, {b})
    BY <1>1, <1>2 DEF InOneThread, Linkage
  <2>2. l = "i_link" => b # KernelHeap
    BY <1>1 DEF Grounds, LockInv, Away, AwayPCs
  <2> QED
    BY <1>3, <2>1, <2>2 DEF Linked, NextIn
<1>6. l = "r_prev" => bs[b].prev \in DOMAIN bs
  BY <1>2, <1>3, <1>4 DEF InOneThread, Linkage, Linked, PrevIn
<1>7. l = "r_next" => (bs[b].next # NULL => bs[b].next \in DOMAIN bs)
  BY <1>1, <1>2, <1>4 DEF InOneThread, Linkage, HalfLinked, NextIn
<1>8. \A c \in Touches(t) : c \in DOMAIN bs
  <2>1. l \in {"i_lock", "i_link"} => Touches(t) = {KernelHeap, b}
    BY <1>1 DEF Touches
  <2>2. l = "r_prev" => Touches(t) = {b, bs[b].prev} \ {NULL}
    BY <1>1, <1>4 DEF Touches, Mapped
  <2>3. l = "r_next" => Touches(t) = {b, bs[b].next} \ {NULL}
    BY <1>1, <1>4 DEF Touches, Mapped
  <2>4. l \in {"idle", "k_create", "r_unmap", "hang", "fault"} => Touches(t) = {}
    BY <1>1 DEF Touches
  <2>5. l \notin {"i_lock", "i_link", "r_prev", "r_next", "idle", "k_create", "r_unmap", "hang",
                  "fault"} => Touches(t) = {b}
    BY <1>1 DEF Touches
  <2> QED
    BY <1>3, <1>4, <1>6, <1>7, <2>1, <2>2, <2>3, <2>4, <2>5
<1>9. l \in HeaderPCs => x.at \in DOMAIN bs[b].list
  <2>1. CASE l \in {"k_split", "n_split"}
    BY <1>1, <1>2, <2>1 DEF InOneThread, Knows, Fitting, FreeAt
  <2>2. CASE l \in {"k_first", "n_first", "f_mark", "s_split"}
    <3>1. Here(x) \in Claims(l, x)
      BY <2>2 DEF Claims, HerePCs, PlacedPCs, ShrinkPCs
    <3>2. InUse(bs, Here(x))
      BY <1>2, <3>1 DEF InOneThread, Claimed
    <3> QED
      BY <1>1, <3>2 DEF InUse, Here, UsedAt
  <2>3. CASE l \in {"f_melt", "f_absorb"}
    BY <1>1, <1>2, <2>3 DEF InOneThread, Knows, FreeAt
  <2> QED
    BY <2>1, <2>2, <2>3 DEF HeaderPCs
<1>10. l \in StalePCs => x.at \in DOMAIN bs[b].list
  BY <1>1 DEF OneLooks, Looks, StalePCs, OpenPCs
<1>11. l \in LoadPCs \ {"f_first"} => bs[b].first \in DOMAIN bs[b].list
  BY <1>1 DEF OneLooks, Looks, OpenPCs, LoadPCs
<1>12. l \in LoadPCs => b \in DOMAIN bs
  BY <1>4 DEF LoadPCs
<1>13. b \in DOMAIN bs => NULL \notin DOMAIN bs[b].list
  <2>1. b \in DOMAIN bs => IsList(bs[b].list)
    BY <1>2 DEF InOneThread, AllTidy, Tidy, Sound
  <2>2. b \in DOMAIN bs => DOMAIN bs[b].list \subseteq Nat
    BY <2>1 DEF IsList
  <2> QED
    BY <2>2, NullAssumption
<1> QED
  BY <1>1, <1>5, <1>8, <1>9, <1>10, <1>11, <1>12, <1>13 DEF Wild, Mapped, AtHand

(* Through that NULL the thread goes no further. *)
LEMMA OneWild ==
  ASSUME Grounds, NEW t \in Threads, OneInv(t), OneLooks(t), Wild(t)
  PROVE  OneInv(t)'
<1>1. pc[t] = "f_first"
  BY OnlyFirstIsWild
<1>2. PICK bs, x, lv : bs = buckets /\ x = loc[t] /\ lv = live
  OBVIOUS
<1>3. pc'[t] = "fault" /\ buckets' = bs /\ loc' = loc /\ live' = lv
  BY <1>2, Gone DEF Wild, Grounds
<1>4. InOneThread(bs, "f_first", x, lv)
  BY <1>1, <1>2 DEF OneInv
<1>5. InOneThread(bs, "fault", x, lv)
  BY <1>4, LooksOn DEF OpenPCs, LoadPCs
<1> QED
  BY <1>2, <1>3, <1>5 DEF OneInv

-----------------------------------------------------------------------------
(* The invariant of one thread *)

(* After malloc_init. *)
LEMMA OneInit ==
  ASSUME Init, Grounds, NEW t \in Threads
  PROVE  OneInv(t)
<1>1. PICK bs, new : bs = buckets /\ new = buckets[KernelHeap]
  OBVIOUS
<1>2. DOMAIN bs = {KernelHeap} /\ bs[KernelHeap] = new
  BY <1>1, InitHeap
<1>3. new.prev = NULL /\ new.next = NULL /\ "PERSISTENT" \in new.lflags
  <2>1. new = create_bucket(HeapBytes, {"VIRTUAL", "PERSISTENT"}, FALSE)
    BY <1>1, InitHeap
  <2> QED
    BY <2>1 DEF create_bucket
<1>4. pc[t] = "idle" /\ loc[t] = NoLocals /\ live = {}
  BY DEF Init
<1>5. AllTidy(bs)
  BY <1>1, <1>2 DEF Grounds, HeapInv, HeapSound, HeapOrder, HeapRecord, AllTidy, Tidy
<1>6. Seams(new.list) = {}
  <2>1. \A u \in Threads : pc[u] = "idle"
    BY DEF Init
  <2> QED
    BY <1>1, <2>1 DEF Grounds, HeapOrder, InPieces, AtSeam, AtHeap, List
<1>7. Joined(bs, "idle", NoLocals) /\ Knows(bs, "idle", NoLocals) /\ Occupied(bs, "idle", NoLocals)
  BY <1>2, <1>3, <1>6 DEF Joined, Knows, NewPCs, GonePCs, Occupied
<1>8. Claimed(bs, "idle", NoLocals, {})
  BY NoClaims DEF Claimed, HerePCs, PlacedPCs, ShrinkPCs
<1>9. Linkage(bs, "idle", NoLocals)
  BY <1>2, <1>3 DEF Linkage, Linked, NextIn
<1> QED
  BY <1>1, <1>4, <1>5, <1>7, <1>8, <1>9 DEF OneInv, InOneThread

(* Every other step goes to where nothing was looked at without a lock. *)
LEMMA LooksElse ==
  ASSUME Grounds, NEW t \in Threads,
         \/ Call(t) \/ SpinLock(t) \/ WalkTry(t) \/ SplitPebble(t) \/ WalkFirst(t) \/ WalkNext(t)
         \/ CreateBucket(t) \/ InsertLink(t) \/ NewTry(t) \/ NewLargest(t) \/ NewFirstStore(t)
         \/ FreeMark(t) \/ FreeMelt(t) \/ RemovePrev(t) \/ RemoveNext(t) \/ RemoveUnmap(t)
         \/ ShrinkSplit(t) \/ Wild(t)
  PROVE  OneLooks(t)'
<1> DEFINE Else == {"idle", "k_lock", "k_try", "k_split", "k_first", "k_next", "k_create",
                    "i_lock", "i_link", "n_lock", "n_try", "n_split", "n_largest", "n_first",
                    "f_lock", "f_mark", "f_melt", "f_absorb", "r_next", "r_unmap",
                    "s_lock", "s_split", "hang", "fault"}
<1>1. \A l : Goto(t, l) => pc'[t] = l
  BY Gone DEF Grounds
<1>2. \A p : KmallocReturns(t, p) => pc'[t] \in Else
  BY <1>1 DEF KmallocReturns
<1>3. MfreeReturns(t) => pc'[t] \in Else
  BY <1>1 DEF MfreeReturns
<1>4. SpinLock(t) => pc'[t] \in Else
  BY <1>1 DEF SpinLock, LockPCs, AfterLock
<1>5. Call(t) => pc'[t] \in Else
  BY <1>1 DEF Call, Kmalloc, Mfree, ReallocShrink, ReallocGrow, StartKmalloc
<1>6. WalkTry(t) \/ NewTry(t) => pc'[t] \in Else
  BY <1>1, <1>2 DEF WalkTry, NewTry, Found, FoundNever
<1>7. SplitPebble(t) \/ WalkFirst(t) \/ WalkNext(t) \/ CreateBucket(t) \/ InsertLink(t)
        \/ NewLargest(t) \/ NewFirstStore(t) => pc'[t] \in Else
  BY <1>1, <1>2 DEF SplitPebble, WalkFirst, WalkNext, CreateBucket, InsertLink, NewLargest,
                    NewFirstStore
<1>8. FreeMark(t) \/ FreeMelt(t) \/ RemovePrev(t) \/ RemoveNext(t) \/ RemoveUnmap(t)
        \/ ShrinkSplit(t) \/ Wild(t) => pc'[t] \in Else
  BY <1>1, <1>3 DEF FreeMark, FreeMelt, RemovePrev, RemoveNext, RemoveUnmap, ShrinkSplit, Wild
<1>9. pc'[t] \in Else
  BY <1>4, <1>5, <1>6, <1>7, <1>8
<1> QED
  BY <1>9 DEF OneLooks, Looks, OpenPCs, LoadPCs, TestPCs

(* Every step of the thread keeps it. *)
LEMMA OneSteps ==
  ASSUME Grounds, NEW t \in Threads, OneInv(t), OneLooks(t), Step(t) \/ Call(t)
  PROVE  OneInv(t)' /\ OneLooks(t)'
  BY LooksElse, OneNewFirstStore, OneLoadFirst, OneTestFirst, OneWalkLargest, OneSpinLock, OneWalkTry, OneSplitPebble, OneWalkFirst, OneWalkNext, OneCreateBucket,
     OneInsertLink, OneNewTry, OneNewLargest, OneNewFirst, OneFreeMark, OneFreeMelt,
     OneFreeAbsorb, OneFreeCheck, OneRemovePrev, OneRemoveNext, OneRemoveUnmap,
     OneShrinkSplit, OneWild, OneKmalloc, OneMfree, OneReallocShrink, OneReallocGrow
     DEF Step, Call

(* The inductive invariant when one thread uses the heap. *)
THEOREM OneThreadInvariant ==
  ASSUME NEW t, Threads = {t}
  PROVE  Spec => [](Grounds /\ OneInv(t) /\ OneLooks(t))
<1>1. Init /\ Grounds => OneInv(t) /\ OneLooks(t)
  <2>1. Init => OneLooks(t)
    BY DEF Init, OneLooks, Looks, OpenPCs, LoadPCs, TestPCs
  <2> QED
    BY <2>1, OneInit
<1>2. Grounds /\ OneInv(t) /\ OneLooks(t) /\ [Next]_vars => OneInv(t)' /\ OneLooks(t)'
  <2> SUFFICES ASSUME Grounds, OneInv(t), OneLooks(t), [Next]_vars
               PROVE  OneInv(t)' /\ OneLooks(t)'
    OBVIOUS
  <2>1. CASE Next
    BY <2>1, OneSteps DEF Next
  <2>2. CASE UNCHANGED vars
    BY <2>2 DEF vars, OneInv, OneLooks
  <2> QED
    BY <2>1, <2>2
<1>3. Spec => []Grounds
  BY HeapOrderInvariant DEF Grounds
<1> QED
  BY <1>1, <1>2, <1>3, PTL DEF Spec

-----------------------------------------------------------------------------
(* What it says of every bucket *)

(* When one thread uses the heap the pebbles of every bucket lie in the bucket one behind
   the other and prev and next agree, at every step of kmalloc, mfree and realloc
   (split_pebble, melt_prev and absorb_next, malloc.cpp). *)
THEOREM OneListsWellFormed ==
  ASSUME NEW t, Threads = {t}
  PROVE  Spec => []ListsWellFormed
<1>1. OneInv(t) => ListsWellFormed
  BY DEF OneInv, InOneThread, AllTidy, Tidy, Sound, ListsWellFormed
<1> QED
  BY <1>1, OneThreadInvariant, PTL

(* bucket->first of every bucket is NULL or a pebble: kmalloc sets it to the pebble after
   the one it gives out, and no merge leaves it in a header that was absorbed. *)
THEOREM OneFirstIsPebble ==
  ASSUME NEW t, Threads = {t}
  PROVE  Spec => []FirstIsPebble
<1>1. OneInv(t) => FirstIsPebble
  BY DEF OneInv, InOneThread, AllTidy, Tidy, Bounded, FirstIsPebble, FirstIn
<1> QED
  BY <1>1, OneThreadInvariant, PTL

(* No free pebble of any bucket is larger than largest says, so the checks of kmalloc
   pass over no bucket that has room. *)
THEOREM OneLargestBounds ==
  ASSUME NEW t, Threads = {t}
  PROVE  Spec => [](\A b \in DOMAIN buckets : LargestIn(b))
<1>1. OneInv(t) => \A b \in DOMAIN buckets : LargestIn(b)
  BY DEF OneInv, InOneThread, AllTidy, Tidy, Bounded, LargestIn, FreeAt
<1> QED
  BY <1>1, OneThreadInvariant, PTL

(* In no bucket whose lock is free do two free pebbles lie side by side. *)
THEOREM OneCoalesced ==
  ASSUME NEW t, Threads = {t}
  PROVE  Spec => []Coalesced
<1>1. ASSUME OneInv(t) PROVE Coalesced
  <2> SUFFICES ASSUME NEW b \in DOMAIN buckets, ~Holds(t, b),
                      NEW a \in Seams(buckets[b].list)
               PROVE  FALSE
    BY DEF Coalesced, CoalescedIn, Seams
  <2>1. b = loc[t].cur /\ pc[t] \in {"f_melt", "f_absorb"}
    BY <1>1 DEF OneInv, InOneThread, Joined, AtJoint
  <2> QED
    BY <2>1 DEF Holds, CriticalPCs, LockOf
<1> QED
  BY <1>1, OneThreadInvariant, PTL

(* What a caller holds is in use, of the size, alignment and kind asked for, and nobody
   else's, in whichever bucket it lies: no bucket is given back under it, and realloc
   moves it as a whole (kmalloc, mfree, realloc and remove_bucket). *)
THEOREM OneBlocksUsable ==
  ASSUME NEW t, Threads = {t}
  PROVE  Spec => []BlocksUsable
<1>1. ASSUME OneInv(t) PROVE BlocksUsable
  <2>1. ASSUME NEW k \in live PROVE Usable(k)
    <3>1. GoodBlock(buckets, k.p, k.req) /\ \A m \in live : m.p = k.p => m = k
      BY <1>1 DEF OneInv, InOneThread, Claimed
    <3> QED
      BY <3>1 DEF Usable, GoodBlock, InUse, UsedAt, OfKind, Mapped
  <2> QED
    BY <2>1 DEF BlocksUsable
<1> QED
  BY <1>1, OneThreadInvariant, PTL

(* The bucket kmalloc makes has room for the pebble it was made for (the size create_bucket
   is called with, and place_pebble). *)
THEOREM OneNewBucketFits ==
  ASSUME NEW t, Threads = {t}
  PROVE  Spec => []NewBucketFits
<1>1. OneInv(t) => NewBucketFits
  BY DEF OneInv, InOneThread, Knows, NewPCs, NewBucketFits
<1> QED
  BY <1>1, OneThreadInvariant, PTL

(* Between two calls the buckets are one list that starts at kernel_heap, linked both
   ways, and every bucket that can be given back holds a block (insert_bucket and
   remove_bucket). *)
THEOREM OneBucketListWhole ==
  ASSUME NEW t, Threads = {t}
  PROVE  Spec => []BucketListWhole
<1>1. ASSUME Grounds, OneInv(t) PROVE BucketListWhole
  <2> SUFFICES ASSUME Quiet
               PROVE  /\ Mapped(KernelHeap) /\ buckets[KernelHeap].prev = NULL
                      /\ \A b \in DOMAIN buckets :
                           /\ b # KernelHeap => PrevIn(buckets, {}, b)
                           /\ NextIn(buckets, {}, b)
                           /\ "PERSISTENT" \in buckets[b].lflags \/ UsedAt(buckets[b].list) # {}
    BY DEF BucketListWhole, PrevIn, NextIn, UsedAt, Mapped
  <2>1. pc[t] = "idle"
    BY DEF Quiet
  <2>2. Linked(buckets, {})
    BY <1>1, <2>1 DEF OneInv, InOneThread, Linkage
  <2>3. Occupied(buckets, "idle", loc[t])
    BY <1>1, <2>1 DEF OneInv, InOneThread
  <2>4. "idle" \notin EmptyPCs
    BY DEF EmptyPCs, OpenPCs, LoadPCs, TestPCs, NewPCs, GonePCs
  <2> QED
    BY <1>1, <2>2, <2>3, <2>4 DEF Linked, Occupied, Grounds, LockInv, Mapped
<1> QED
  BY <1>1, OneThreadInvariant, PTL

(* One thread runs into no address where nothing is, but for one: mfree follows first of
   the bucket to see whether it is empty, and kmalloc may have left NULL there. *)
THEOREM OneWildAtFirst ==
  ASSUME NEW t, Threads = {t}
  PROVE  Spec => [][Wild(t) => pc[t] = "f_first" /\ buckets[loc[t].cur].first = NULL]_vars
<1>1. Grounds /\ OneInv(t) /\ OneLooks(t) =>
        (Wild(t) => pc[t] = "f_first" /\ buckets[loc[t].cur].first = NULL)
  BY OnlyFirstIsWild
<1> QED
  BY <1>1, OneThreadInvariant, PTL

-----------------------------------------------------------------------------
(* Who has the pebbles in use *)

(* Those that a call has, and those of the callers. *)
Owners(l, x, lv) == Claims(l, x) \cup {k.p : k \in lv}

(* The pebbles in use that nobody has, and so nobody can give back. *)
Orphans(bs, l, x, lv) == {p \in Pointer : InUse(bs, p) /\ p \notin Owners(l, x, lv)}
OrphansOf(t) == Orphans(buckets, pc[t], loc[t], live)

(* Only realloc has an old block, and a thread that makes no call will return
   none. *)
CallFits(l, x) == (l = "idle" => x.ret = NULL) /\ (x.old # NULL => x.op = "realloc")

(* The call goes on, and has what it had. *)
LEMMA HasStill ==
  ASSUME NEW l, NEW x, NEW lv, NEW l2, NEW x2,
         x2.old = x.old, x2.ret = x.ret, x2.op = x.op, CallFits(l, x), l2 # "idle",
         l \in AllocPCs => l2 \in AllocPCs,
         l \in HerePCs => l2 \in HerePCs /\ Here(x2) = Here(x)
  PROVE  Owners(l, x, lv) \subseteq Owners(l2, x2, lv) /\ CallFits(l2, x2)
  BY DEF Owners, Claims, CallFits

(* What a step of the thread, to l2 with the locals x2, leaves to the callers
   lv2: nobody loses a pebble, but those in X. *)
Hands(l, x, lv, l2, x2, lv2, X) ==
  Owners(l, x, lv) \subseteq Owners(l2, x2, lv2) \cup X /\ CallFits(l2, x2)

HandsOn(t, X) == Hands(pc[t], loc[t], live, pc'[t], loc'[t], live', X)

(* The step goes to l2 and leaves the locals alone. *)
LEMMA HandsGo ==
  ASSUME ShapeInv, NEW t \in Threads, CallFits(pc[t], loc[t]), NEW l2, Goto(t, l2),
         loc' = loc, live' = live, l2 # "idle",
         pc[t] \in AllocPCs => l2 \in AllocPCs, pc[t] \in HerePCs => l2 \in HerePCs
  PROVE  HandsOn(t, {})
<1>1. pc'[t] = l2
  BY Gone
<1> QED
  BY <1>1, HasStill DEF HandsOn, Hands

(* The step goes to l2 and on to another bucket or pebble. *)
LEMMA HandsMove ==
  ASSUME ShapeInv, NEW t \in Threads, CallFits(pc[t], loc[t]), NEW l2, Goto(t, l2),
         NEW x2, loc' = [loc EXCEPT ![t] = x2], live' = live, l2 # "idle",
         x2.old = loc[t].old, x2.ret = loc[t].ret, x2.op = loc[t].op,
         pc[t] \in AllocPCs => l2 \in AllocPCs, pc[t] \notin HerePCs
  PROVE  HandsOn(t, {})
<1>1. pc'[t] = l2 /\ loc'[t] = x2
  BY Gone
<1> QED
  BY <1>1, HasStill DEF HandsOn, Hands

(* The place a call is at is apart from what it has. *)
LEMMA CursorFields ==
  ASSUME ShapeInv, NEW t \in Threads
  PROVE  /\ \A a : LET x2 == [loc[t] EXCEPT !.at = a]
                   IN  x2.old = loc[t].old /\ x2.ret = loc[t].ret /\ x2.op = loc[t].op
         /\ \A b : LET x2 == [loc[t] EXCEPT !.cur = b]
                   IN  x2.old = loc[t].old /\ x2.ret = loc[t].ret /\ x2.op = loc[t].op
  BY DEF ShapeInv, CallsInv, LocalsShape

(* A pebble in use has an address. *)
LEMMA UsedPointer ==
  ASSUME Grounds, NEW t \in Threads, OneInv(t), NEW p, InUse(buckets, p), IsPointer(p)
  PROVE  p \in Pointer /\ p # NULL
<1>1. p.b \in DOMAIN buckets /\ p.at \in UsedAt(buckets[p.b].list) /\ AllTidy(buckets)
  BY DEF InUse, OneInv, InOneThread
<1>2. p.at \in Nat
  BY <1>1 DEF AllTidy, Tidy, Sound, IsList, UsedAt
<1> QED
  BY <1>2, HeapAssumptions DEF BucketAssumption, IsPointer, Pointer

(* kmalloc returns: to realloc, or to its caller. *)
LEMMA HandsKmalloc ==
  ASSUME Grounds, NEW t \in Threads, CallFits(pc[t], loc[t]), NEW p, KmallocReturns(t, p),
         pc[t] \in AllocPCs, pc[t] \in HerePCs => p # NULL /\ p = Here(loc[t])
  PROVE  HandsOn(t, {})
<1>1. PICK l, x : l = pc[t] /\ x = loc[t]
  OBVIOUS
<1>2. x.ret = NULL /\ ShapeInv /\ PointerShape(x.old)
  BY <1>1, KnownBefore DEF Grounds, Pointers
<1>3. CASE x.op = "realloc" /\ x.old # NULL
  <2> DEFINE x2 == [x EXCEPT !.cur = x.old.b, !.at = x.old.at, !.ret = p]
  <2>1. Goto(t, "f_lock") /\ loc' = [loc EXCEPT ![t] = x2] /\ live' = live
    BY <1>1, <1>3 DEF KmallocReturns
  <2>2. pc'[t] = "f_lock" /\ loc'[t] = x2
    BY <1>2, <2>1, Gone
  <2>3. x2.cur = x.old.b /\ x2.at = x.old.at /\ x2.ret = p /\ x2.op = x.op
    BY <1>1, <1>2 DEF ShapeInv, CallsInv, LocalsShape
  <2> HIDE DEF x2
  <2>4. Here(x2) = x.old
    BY <1>2, <1>3, <2>3 DEF Here, PointerShape, IsPointer
  <2>5. "f_lock" \in HerePCs
    BY DEF HerePCs
  <2>6. Claims(l, x) \subseteq Claims("f_lock", x2)
    BY <1>1, <1>2, <2>3, <2>4, <2>5 DEF Claims
  <2> QED
    BY <1>1, <1>3, <2>1, <2>2, <2>3, <2>6 DEF HandsOn, Hands, Owners, CallFits
<1>4. CASE x.old = NULL
  <2>1. /\ Goto(t, "idle") /\ loc' = [loc EXCEPT ![t] = NoLocals]
        /\ live' = IF p = NULL THEN live ELSE live \cup {Handed(t, p)}
    BY <1>1, <1>4 DEF KmallocReturns
  <2>2. pc'[t] = "idle" /\ loc'[t] = NoLocals
    BY <1>2, <2>1, Gone
  <2>3. Claims(l, x) \subseteq IF l \in HerePCs THEN {p} ELSE {}
    BY <1>1, <1>2, <1>4 DEF Claims
  <2>4. Handed(t, p).p = p
    BY DEF Handed
  <2>5. Owners(l, x, live) \subseteq {k.p : k \in live'}
    BY <1>1, <2>1, <2>3, <2>4 DEF Owners
  <2> QED
    BY <1>1, <2>2, <2>5, NoClaims DEF HandsOn, Hands, Owners, CallFits
<1> QED
  BY <1>1, <1>3, <1>4 DEF CallFits

(* mfree returns, or realloc, with the block kmalloc gave it. *)
LEMMA HandsMfree ==
  ASSUME ShapeInv, NEW t \in Threads, MfreeReturns(t),
         pc[t] \in {"f_check", "u_walk", "r_unmap"}
  PROVE  HandsOn(t, {})
<1>1. PICK l, x : l = pc[t] /\ x = loc[t]
  OBVIOUS
<1>2. pc'[t] = "idle" /\ loc'[t] = NoLocals
  BY Gone DEF MfreeReturns
<1>3. Claims(l, x) = IF x.ret # NULL THEN {x.ret} ELSE {}
  BY <1>1 DEF Claims, HerePCs, PlacedPCs, ShrinkPCs, AllocPCs
<1>4. Handed(t, x.ret).p = x.ret
  BY DEF Handed
<1>5. live' = IF x.ret = NULL THEN live ELSE live \cup {Handed(t, x.ret)}
  BY <1>1 DEF MfreeReturns
<1>6. Owners(l, x, live) \subseteq {k.p : k \in live'}
  BY <1>3, <1>4, <1>5 DEF Owners
<1> QED
  BY <1>1, <1>2, <1>6, NoClaims DEF HandsOn, Hands, Owners, CallFits

(* A call begins, with a block of its caller's or with none. *)
LEMMA HandsBegin ==
  ASSUME ShapeInv, NEW t \in Threads, pc[t] = "idle", CallFits(pc[t], loc[t]),
         NEW l2, Goto(t, l2), NEW x2, loc' = [loc EXCEPT ![t] = x2], l2 # "idle",
         x2.old # NULL => x2.op = "realloc",
         \/ live' = live
         \/ \E k \in live : live' = live \ {k} /\ k.p \in Claims(l2, x2)
  PROVE  HandsOn(t, {})
<1>1. pc'[t] = l2 /\ loc'[t] = x2
  BY Gone
<1>2. Claims("idle", loc[t]) = {}
  BY DEF Claims, CallFits, HerePCs, PlacedPCs, ShrinkPCs, AllocPCs
<1>3. {k.p : k \in live} \subseteq Owners(l2, x2, live')
  BY DEF Owners
<1> QED
  BY <1>1, <1>2, <1>3 DEF HandsOn, Hands, Owners, CallFits

(* kmalloc begins, for its caller or for realloc. *)
LEMMA HandsStart ==
  ASSUME ShapeInv, NEW t \in Threads, pc[t] = "idle", CallFits(pc[t], loc[t]),
         NEW op, NEW req, NEW old, StartKmalloc(t, op, req, old),
         old # NULL => op = "realloc",
         live' = live \/ \E k \in live : live' = live \ {k} /\ old = k.p /\ k.p # NULL
  PROVE  HandsOn(t, {})
<1> DEFINE x2 == [NoLocals EXCEPT !.op = op, !.req = req, !.cur = KernelHeap, !.old = old]
<1>1. Goto(t, "k_lock") /\ loc' = [loc EXCEPT ![t] = x2]
  BY DEF StartKmalloc
<1>2. x2.old = old /\ x2.op = op
  BY DEF NoLocals
<1> HIDE DEF x2
<1>3. old # NULL => old \in Claims("k_lock", x2)
  BY <1>2 DEF Claims, AllocPCs
<1>4. x2.old # NULL => x2.op = "realloc"
  BY <1>2
<1>5. live' = live \/ \E k \in live : live' = live \ {k} /\ k.p \in Claims("k_lock", x2)
  BY <1>3
<1> QED
  BY <1>1, <1>4, <1>5, HandsBegin

(* The steps, one by one: only mfree lets go of a pebble in use, and then it is free. *)
LEMMA HandsStep ==
  ASSUME Grounds, NEW t \in Threads, OneInv(t), OneLooks(t), CallFits(pc[t], loc[t]),
         Step(t), ~ShrinkSplit(t)
  PROVE  HandsOn(t, IF FreeMark(t) THEN {Here(loc[t])} ELSE {})
<1> DEFINE X == IF FreeMark(t) THEN {Here(loc[t])} ELSE {}
<1> HIDE DEF X
<1> SUFFICES HandsOn(t, X)
  BY DEF X
<1>0. ShapeInv
  BY DEF Grounds
<1>1. ASSUME HandsOn(t, {}) PROVE HandsOn(t, X)
  BY <1>1 DEF HandsOn, Hands
<1>2. CASE SpinLock(t)
  <2>1. pc[t] \in LockPCs /\ Goto(t, AfterLock(pc[t])) /\ loc' = loc /\ live' = live
    BY <1>2 DEF SpinLock
  <2>2. /\ AfterLock(pc[t]) # "idle"
        /\ pc[t] \in AllocPCs => AfterLock(pc[t]) \in AllocPCs
        /\ pc[t] \in HerePCs => AfterLock(pc[t]) \in HerePCs
    BY <2>1 DEF LockPCs, AfterLock, AllocPCs, HerePCs, PlacedPCs, ShrinkPCs
  <2> QED
    BY <1>0, <1>1, <2>1, <2>2, HandsGo
<1>3. ASSUME NEW l2 \in {"k_split", "n_split"}, Found(t, l2), pc[t] \in {"k_try", "n_try"}
      PROVE  HandsOn(t, X)
  <2> DEFINE x2 == [loc[t] EXCEPT !.at = FirstFound(buckets[loc[t].cur], Wanted(loc[t].req))]
  <2>1. Goto(t, l2) /\ loc' = [loc EXCEPT ![t] = x2] /\ live' = live
    BY <1>3 DEF Found
  <2>2. x2.old = loc[t].old /\ x2.ret = loc[t].ret /\ x2.op = loc[t].op
    BY <1>0, CursorFields
  <2> HIDE DEF x2
  <2>3. l2 # "idle" /\ l2 \in AllocPCs /\ pc[t] \notin HerePCs
    BY <1>3 DEF AllocPCs, HerePCs, PlacedPCs, ShrinkPCs
  <2> QED
    BY <1>0, <1>1, <2>1, <2>2, <2>3, HandsMove
<1>4. ASSUME NEW l, NEW l2, pc[t] = l, Goto(t, l2), loc' = loc, live' = live,
             \/ l = "k_try" /\ l2 \in {"hang", "k_next"}
             \/ l = "n_try" /\ l2 = "hang"
             \/ l = "i_link" /\ l2 = "n_lock"
             \/ l = "n_largest" /\ l2 = "n_first"
             \/ l = "f_absorb" /\ l2 = "f_check"
             \/ l = "f_check" /\ l2 = "f_first"
             \/ l \in OpenPCs /\ l2 \in OpenPCs \cup {"r_prev", "fault"}
             \/ l = "r_prev" /\ l2 = "r_next"
             \/ l = "r_next" /\ l2 = "r_unmap"
      PROVE  HandsOn(t, X)
  <2>1. /\ l2 # "idle" /\ (l \in AllocPCs => l2 \in AllocPCs)
        /\ (l \in HerePCs => l2 \in HerePCs)
    BY <1>4 DEF AllocPCs, HerePCs, PlacedPCs, ShrinkPCs, OpenPCs, LoadPCs, TestPCs
  <2> QED
    BY <1>0, <1>1, <1>4, <2>1, HandsGo
<1>5. CASE WalkTry(t)
  BY <1>3, <1>4, <1>5 DEF WalkTry, FoundNever
<1>6. CASE NewTry(t)
  <2>1. CASE KmallocReturns(t, NULL)
    <3>1. pc[t] \in AllocPCs /\ pc[t] \notin HerePCs
      BY <1>6 DEF NewTry, AllocPCs, HerePCs, PlacedPCs, ShrinkPCs
    <3> QED
      BY <1>1, <2>1, <3>1, HandsKmalloc
  <2> QED
    BY <1>3, <1>4, <1>6, <2>1 DEF NewTry, FoundNever
<1>7. CASE SplitPebble(t)
  <2> DEFINE x2 == [loc[t] EXCEPT !.at = split_pebble(buckets[loc[t].cur].list, loc[t].at,
                                                      Wanted(loc[t].req)).at]
             l2 == IF pc[t] = "k_split" THEN "k_first" ELSE "n_largest"
  <2>1. Goto(t, l2) /\ loc' = [loc EXCEPT ![t] = x2] /\ live' = live
    BY <1>7 DEF SplitPebble
  <2>2. x2.old = loc[t].old /\ x2.ret = loc[t].ret /\ x2.op = loc[t].op
    BY <1>0, CursorFields
  <2> HIDE DEF x2
  <2>3. l2 # "idle" /\ l2 \in AllocPCs /\ pc[t] \notin HerePCs
    BY <1>7 DEF SplitPebble, AllocPCs, HerePCs, PlacedPCs, ShrinkPCs
  <2> HIDE DEF l2
  <2> QED
    BY <1>0, <1>1, <2>1, <2>2, <2>3, HandsMove
<1>8. CASE WalkFirst(t) \/ NewFirstStore(t)
  <2>1. PICK p : KmallocReturns(t, p) /\ p = Here(loc[t])
    BY <1>8 DEF WalkFirst, NewFirstStore, Here
  <2>2. pc[t] \in AllocPCs /\ pc[t] \in HerePCs
    BY <1>8 DEF WalkFirst, NewFirstStore, AllocPCs, HerePCs, PlacedPCs
  <2>3. p # NULL
    <3>1. InUse(buckets, Here(loc[t]))
      BY <2>2 DEF OneInv, InOneThread, Claimed, Claims
    <3>2. IsPointer(Here(loc[t]))
      BY <3>1, KnownBefore DEF InUse, Here, IsPointer
    <3> QED
      BY <2>1, <3>1, <3>2, UsedPointer
  <2> QED
    BY <1>1, <2>1, <2>2, <2>3, HandsKmalloc
<1>9. CASE WalkNext(t)
  <2> DEFINE n == buckets[loc[t].cur].next
             x2 == [loc[t] EXCEPT !.cur = n]
             l2 == IF n = NULL THEN "k_create" ELSE "k_lock"
  <2>1. Goto(t, l2) /\ loc' = [loc EXCEPT ![t] = x2] /\ live' = live
    BY <1>9 DEF WalkNext
  <2>2. x2.old = loc[t].old /\ x2.ret = loc[t].ret /\ x2.op = loc[t].op
    BY <1>0, CursorFields
  <2> HIDE DEF x2
  <2>3. l2 # "idle" /\ l2 \in AllocPCs /\ pc[t] \notin HerePCs
    BY <1>9 DEF WalkNext, AllocPCs, HerePCs, PlacedPCs, ShrinkPCs
  <2> HIDE DEF l2
  <2> QED
    BY <1>0, <1>1, <2>1, <2>2, <2>3, HandsMove
<1>10. CASE CreateBucket(t)
  <2>1. pc[t] \in AllocPCs /\ pc[t] \notin HerePCs
    BY <1>10 DEF CreateBucket, AllocPCs, HerePCs, PlacedPCs, ShrinkPCs
  <2>2. CASE KmallocReturns(t, NULL)
    BY <1>1, <2>1, <2>2, HandsKmalloc
  <2>3. ASSUME NEW b, loc' = [loc EXCEPT ![t].cur = b], Goto(t, "i_lock"), live' = live
        PROVE  HandsOn(t, X)
    <3> DEFINE x2 == [loc[t] EXCEPT !.cur = b]
    <3>1. loc' = [loc EXCEPT ![t] = x2]
      BY <2>3
    <3>2. x2.old = loc[t].old /\ x2.ret = loc[t].ret /\ x2.op = loc[t].op
      BY <1>0, CursorFields
    <3> HIDE DEF x2
    <3>3. "i_lock" # "idle" /\ "i_lock" \in AllocPCs
      BY DEF AllocPCs
    <3> QED
      BY <1>0, <1>1, <2>1, <2>3, <3>1, <3>2, <3>3, HandsMove
  <2> QED
    BY <1>10, <2>2, <2>3 DEF CreateBucket
<1>11. CASE InsertLink(t) \/ NewLargest(t) \/ FreeAbsorb(t) \/ RemovePrev(t) \/ RemoveNext(t)
  BY <1>4, <1>11 DEF InsertLink, NewLargest, FreeAbsorb, RemovePrev, RemoveNext
<1>12. CASE FreeMark(t)
  <2>1. pc[t] = "f_mark" /\ pc'[t] = "f_melt" /\ loc' = loc /\ live' = live
    BY <1>0, <1>12, Gone DEF FreeMark
  <2>2. X = {Here(loc[t])}
    BY <1>12 DEF X
  <2>3. Claims("f_mark", loc[t]) \subseteq Claims("f_melt", loc[t]) \cup X
    BY <2>2 DEF Claims, AllocPCs
  <2>4. Hands("f_mark", loc[t], live, "f_melt", loc[t], live, X)
    BY <2>1, <2>3 DEF Hands, Owners, CallFits
  <2> QED
    BY <2>1, <2>4 DEF HandsOn
<1>13. CASE FreeMelt(t)
  <2> DEFINE x2 == [loc[t] EXCEPT !.at = MeltedInto(buckets[loc[t].cur], loc[t].at)]
  <2>1. pc[t] = "f_melt" /\ Goto(t, "f_absorb") /\ loc' = [loc EXCEPT ![t] = x2] /\ live' = live
    BY <1>13 DEF FreeMelt
  <2>2. x2.old = loc[t].old /\ x2.ret = loc[t].ret /\ x2.op = loc[t].op
    BY <1>0, CursorFields
  <2> HIDE DEF x2
  <2>3. "f_absorb" # "idle" /\ "f_melt" \notin AllocPCs /\ "f_melt" \notin HerePCs
    BY DEF AllocPCs, HerePCs, PlacedPCs, ShrinkPCs
  <2> QED
    BY <1>0, <1>1, <2>1, <2>2, <2>3, HandsMove
<1>14. CASE FreeCheck(t)
  <2>1. pc[t] = "f_check"
    BY <1>14 DEF FreeCheck
  <2>2. CASE MfreeReturns(t)
    BY <1>0, <1>1, <2>1, <2>2, HandsMfree
  <2> QED
    BY <1>4, <1>14, <2>1, <2>2 DEF FreeCheck
<1>15. CASE RemoveUnmap(t)
  BY <1>0, <1>1, <1>15, HandsMfree DEF RemoveUnmap
<1>16. CASE Wild(t)
  <2>1. pc[t] = "f_first"
    BY <1>16, OnlyFirstIsWild
  <2> QED
    BY <1>4, <1>16, <2>1 DEF Wild, OpenPCs, LoadPCs
<1>17. CASE NewFirst(t)
  <2> DEFINE x2 == [loc[t] EXCEPT !.reg = buckets[loc[t].cur].list[loc[t].at].next]
  <2>1. pc[t] = "n_first" /\ Goto(t, "n_store") /\ loc' = [loc EXCEPT ![t] = x2] /\ live' = live
    BY <1>17 DEF NewFirst
  <2>2. pc'[t] = "n_store" /\ loc'[t] = x2
    BY <1>0, <2>1, Gone
  <2>3. x2.old = loc[t].old /\ x2.ret = loc[t].ret /\ x2.op = loc[t].op /\ Here(x2) = Here(loc[t])
    BY <1>0 DEF ShapeInv, CallsInv, LocalsShape, Here
  <2> HIDE DEF x2
  <2>4. {"n_first", "n_store"} \subseteq AllocPCs \cap HerePCs
    BY DEF AllocPCs, HerePCs, PlacedPCs
  <2>5. Owners(pc[t], loc[t], live) \subseteq Owners("n_store", x2, live) /\ CallFits("n_store", x2)
    BY <2>1, <2>3, <2>4, HasStill
  <2>6. HandsOn(t, {})
    BY <2>1, <2>2, <2>5 DEF HandsOn, Hands
  <2> QED
    BY <1>1, <2>6
<1>18. ASSUME NEW l2 \in OpenPCs, pc[t] \in OpenPCs, Goto(t, l2), NEW n,
              loc' = [loc EXCEPT ![t].at = n], live' = live
       PROVE  HandsOn(t, X)
  <2> DEFINE x2 == [loc[t] EXCEPT !.at = n]
  <2>1. loc' = [loc EXCEPT ![t] = x2]
    BY <1>18
  <2>2. x2.old = loc[t].old /\ x2.ret = loc[t].ret /\ x2.op = loc[t].op
    BY <1>0, CursorFields
  <2> HIDE DEF x2
  <2>3. l2 # "idle" /\ pc[t] \notin AllocPCs /\ pc[t] \notin HerePCs
    BY <1>18 DEF OpenPCs, LoadPCs, TestPCs, AllocPCs, HerePCs, PlacedPCs, ShrinkPCs
  <2> QED
    BY <1>0, <1>1, <1>18, <2>1, <2>2, <2>3, HandsMove
<1>19. CASE LoadFirst(t)
  <2>1. PICK l2 : Goto(t, l2) /\ l2 \in OpenPCs
    BY <1>19 DEF LoadFirst, LoadPCs, TestPCs, OpenPCs
  <2>2. pc[t] \in OpenPCs /\ live' = live
        /\ (loc' = loc \/ loc' = [loc EXCEPT ![t].at = buckets[loc[t].cur].first])
    BY <1>19 DEF LoadFirst, OpenPCs
  <2> QED
    BY <1>4, <1>18, <2>1, <2>2
<1>20. CASE TestFirst(t)
  <2>1. pc[t] \in OpenPCs /\ live' = live
    BY <1>20 DEF TestFirst, OpenPCs
  <2>2. CASE Goto(t, "u_walk") /\ loc' = [loc EXCEPT ![t].at = FirstPebble]
    BY <1>18, <2>1, <2>2 DEF OpenPCs
  <2>3. CASE loc' = loc /\ Goto(t, CASE pc[t] = "f_free" -> "f_again"
                                     [] pc[t] = "f_prev" -> "f_last"
                                     [] pc[t] = "f_next" -> "r_prev")
    <3>1. PICK l2 : Goto(t, l2) /\ l2 \in OpenPCs \cup {"r_prev"}
      BY <1>20, <2>3 DEF TestFirst, LoadPCs, TestPCs, OpenPCs
    <3> QED
      BY <1>4, <2>1, <2>3, <3>1
  <2> QED
    BY <1>20, <2>2, <2>3 DEF TestFirst
<1>21. CASE WalkLargest(t)
  <2>1. pc[t] = "u_walk" /\ "u_walk" \in OpenPCs
    BY <1>21 DEF WalkLargest, OpenPCs
  <2>2. CASE MfreeReturns(t)
    BY <1>0, <1>1, <2>1, <2>2, HandsMfree
  <2>3. ASSUME NEW n, loc' = [loc EXCEPT ![t].at = n], pc' = pc, live' = live
        PROVE  HandsOn(t, X)
    <3>1. Goto(t, "u_walk")
      BY <1>0, <2>1, <2>3 DEF Goto, ShapeInv, CallsInv
    <3> QED
      BY <1>18, <2>1, <2>3, <3>1
  <2> QED
    BY <1>21, <2>2, <2>3 DEF WalkLargest
<1> QED
  BY <1>2, <1>5, <1>6, <1>7, <1>8, <1>9, <1>10, <1>11, <1>12, <1>13, <1>14, <1>15, <1>16,
     <1>17, <1>19, <1>20, <1>21
  DEF Step

(* The calls take what they are given. *)
LEMMA HandsCall ==
  ASSUME Grounds, NEW t \in Threads, OneInv(t), CallFits(pc[t], loc[t]), Call(t)
  PROVE  HandsOn(t, {})
<1>0. ShapeInv /\ \A k \in live : IsPointer(k.p) /\ k.p # NULL
  <2>1. ASSUME NEW k \in live PROVE IsPointer(k.p) /\ k.p # NULL
    <3>1. InUse(buckets, k.p)
      BY DEF OneInv, InOneThread, Claimed, GoodBlock
    <3> QED
      BY <3>1, KnownBefore, UsedPointer
  <2> QED
    BY <2>1 DEF Grounds
<1>1. CASE Kmalloc(t)
  BY <1>0, <1>1, HandsStart DEF Kmalloc
<1>2. ASSUME NEW k \in live, NEW l2 \in {"f_lock", "s_lock"}, NEW x2, pc[t] = "idle",
             live' = live \ {k}, Goto(t, l2), loc' = [loc EXCEPT ![t] = x2],
             x2.cur = k.p.b, x2.at = k.p.at, x2.old # NULL => x2.op = "realloc"
      PROVE  HandsOn(t, {})
  <2>1. Here(x2) = k.p
    BY <1>0, <1>2 DEF Here, IsPointer
  <2>2. k.p \in Claims(l2, x2) /\ l2 # "idle"
    BY <1>2, <2>1 DEF Claims, HerePCs, PlacedPCs, ShrinkPCs
  <2> QED
    BY <1>0, <1>2, <2>2, HandsBegin
<1>3. CASE Mfree(t)
  <2>1. PICK k \in live : live' = live \ {k} /\ loc' = [loc EXCEPT ![t] =
          [NoLocals EXCEPT !.op = "mfree", !.cur = k.p.b, !.at = k.p.at]]
    BY <1>3 DEF Mfree
  <2> DEFINE x2 == [NoLocals EXCEPT !.op = "mfree", !.cur = k.p.b, !.at = k.p.at]
  <2>2. x2.cur = k.p.b /\ x2.at = k.p.at /\ x2.old = NULL
    BY DEF NoLocals
  <2>3. loc' = [loc EXCEPT ![t] = x2]
    BY <2>1
  <2> HIDE DEF x2
  <2> QED
    BY <1>2, <1>3, <2>1, <2>2, <2>3 DEF Mfree
<1>4. CASE ReallocShrink(t)
  <2>1. PICK k \in live, size \in ReallocSizes : live' = live \ {k} /\ loc' = [loc EXCEPT ![t] =
          [NoLocals EXCEPT !.op = "realloc", !.cur = k.p.b, !.at = k.p.at,
                           !.req = [k.req EXCEPT !.size = size]]]
    BY <1>4 DEF ReallocShrink
  <2> DEFINE x2 == [NoLocals EXCEPT !.op = "realloc", !.cur = k.p.b, !.at = k.p.at,
                                    !.req = [k.req EXCEPT !.size = size]]
  <2>2. x2.cur = k.p.b /\ x2.at = k.p.at /\ x2.old = NULL
    BY DEF NoLocals
  <2>3. loc' = [loc EXCEPT ![t] = x2]
    BY <2>1
  <2> HIDE DEF x2
  <2> QED
    BY <1>2, <1>4, <2>1, <2>2, <2>3 DEF ReallocShrink
<1>5. CASE ReallocGrow(t)
  <2>0. PICK k \in live :
          /\ live' = live \ {k}
          /\ \E req : \/ /\ Goto(t, "f_lock")
                         /\ loc' = [loc EXCEPT ![t] =
                              [NoLocals EXCEPT !.op = "realloc", !.req = req, !.old = k.p,
                                               !.cur = k.p.b, !.at = k.p.at]]
                      \/ StartKmalloc(t, "realloc", req, k.p)
    BY <1>5 DEF ReallocGrow
  <2>1. PICK req :
          /\ live' = live \ {k}
          /\ \/ /\ Goto(t, "f_lock")
                /\ loc' = [loc EXCEPT ![t] =
                     [NoLocals EXCEPT !.op = "realloc", !.req = req, !.old = k.p,
                                      !.cur = k.p.b, !.at = k.p.at]]
             \/ StartKmalloc(t, "realloc", req, k.p)
    BY <2>0
  <2>2. CASE StartKmalloc(t, "realloc", req, k.p)
    BY <1>0, <1>5, <2>1, <2>2, HandsStart DEF ReallocGrow
  <2> DEFINE x2 == [NoLocals EXCEPT !.op = "realloc", !.req = req, !.old = k.p,
                                    !.cur = k.p.b, !.at = k.p.at]
  <2>3. CASE Goto(t, "f_lock") /\ loc' = [loc EXCEPT ![t] = x2]
    <3>1. x2.cur = k.p.b /\ x2.at = k.p.at /\ x2.op = "realloc"
      BY DEF NoLocals
    <3> HIDE DEF x2
    <3> QED
      BY <1>2, <1>5, <2>1, <2>3, <3>1 DEF ReallocGrow
  <2> QED
    BY <2>1, <2>2, <2>3
<1> QED
  BY <1>1, <1>3, <1>4, <1>5 DEF Call

(* The lists of all buckets are as they were, but for what is split, marked and merged. *)
LEMMA ListsStay ==
  ASSUME ShapeInv, LockInv, NEW t \in Threads, Step(t) \/ Call(t),
         ~WritesList(t), ~CreateBucket(t), ~RemoveUnmap(t)
  PROVE  /\ DOMAIN buckets' = DOMAIN buckets
         /\ \A c \in DOMAIN buckets : buckets'[c].list = buckets[c].list
<1> DEFINE b == loc[t].cur
           Stay == /\ DOMAIN buckets' = DOMAIN buckets
                   /\ \A c \in DOMAIN buckets : buckets'[c].list = buckets[c].list
<1> SUFFICES Stay
  OBVIOUS
<1>0. \A c \in DOMAIN buckets : HasShape(buckets[c])
  BY DEF ShapeInv, BucketsInv
<1>1. CASE buckets' = buckets
  BY <1>1
<1>2. ASSUME NEW c, NEW bk, buckets' = [buckets EXCEPT ![c] = bk],
             c \in DOMAIN buckets => bk.list = buckets[c].list
      PROVE  Stay
  BY <1>2
<1>3. CASE SpinLock(t)
  <2>1. PICK c \in DOMAIN buckets : buckets' = [buckets EXCEPT ![c].spinlock = 1]
    BY <1>3 DEF SpinLock, Mapped
  <2> DEFINE bk == [buckets[c] EXCEPT !.spinlock = 1]
  <2>2. bk.list = buckets[c].list
    BY <1>0 DEF HasShape
  <2> QED
    BY <1>2, <2>1, <2>2
<1>4. CASE WalkTry(t)
  <2>1. CASE buckets' = [buckets EXCEPT ![b] = Unlocked(@)]
    <3>1. b \in DOMAIN buckets => Unlocked(buckets[b]).list = buckets[b].list
      BY <1>0, UnlockedShape
    <3> QED
      BY <1>2, <2>1, <3>1
  <2> QED
    BY <1>1, <1>4, <2>1 DEF WalkTry, Found, FoundNever
<1>5. CASE WalkFirst(t)
  <2> DEFINE n == Wanted(loc[t].req).size
             s == [buckets[b] EXCEPT !.first = buckets[b].list[loc[t].at].next]
             bk == Unlocked(bucket_update_largest(s, n))
  <2>1. buckets' = [buckets EXCEPT ![b] = bk] /\ b \in DOMAIN buckets
    BY <1>5 DEF WalkFirst, AtHand, Mapped
  <2>2. HasShape(s) /\ s.list = buckets[b].list
    BY <1>0, <2>1 DEF HasShape
  <2> HIDE DEF s, n
  <2>3. HasShape(bucket_update_largest(s, n)) /\ bucket_update_largest(s, n).list = s.list
    BY <2>2, UpdateLargestShape
  <2>4. bk.list = buckets[b].list
    BY <2>2, <2>3, UnlockedShape
  <2> HIDE DEF bk
  <2> QED
    BY <1>2, <2>1, <2>4
<1>6. ASSUME NEW n, b \in DOMAIN buckets,
             buckets' = [buckets EXCEPT ![b] = Unlocked(bucket_update_largest(@, n))]
      PROVE  Stay
  <2> DEFINE s == bucket_update_largest(buckets[b], n)
  <2>1. HasShape(s) /\ s.list = buckets[b].list
    BY <1>0, <1>6, UpdateLargestShape
  <2> HIDE DEF s
  <2>2. Unlocked(s).list = buckets[b].list
    BY <2>1, UnlockedShape
  <2> QED
    BY <1>2, <1>6, <2>2 DEF s
<1>7. CASE NewTry(t)
  BY <1>1, <1>6, <1>7 DEF NewTry, Found, FoundNever, Mapped
<1>8. CASE NewLargest(t)
  BY <1>6, <1>8 DEF NewLargest, Mapped
<1>9. CASE NewFirstStore(t)
  <2> DEFINE bk == [buckets[b] EXCEPT !.first = loc[t].reg]
  <2>1. buckets' = [buckets EXCEPT ![b] = bk] /\ b \in DOMAIN buckets
    BY <1>9 DEF NewFirstStore, Mapped
  <2>2. bk.list = buckets[b].list
    BY <1>0, <2>1 DEF HasShape
  <2> HIDE DEF bk
  <2> QED
    BY <1>2, <2>1, <2>2
<1>10. CASE InsertLink(t)
  <2> DEFINE n == buckets[KernelHeap].next
  <2>1. /\ buckets' = [x \in DOMAIN buckets |->
             CASE x = b          -> [buckets[b] EXCEPT !.next = n, !.prev = KernelHeap]
               [] x = KernelHeap -> Unlocked([buckets[x] EXCEPT !.next = b])
               [] x = n          -> [buckets[x] EXCEPT !.prev = b]
               [] OTHER          -> buckets[x]]
    BY <1>10 DEF InsertLink
  <2>2. ASSUME NEW c \in DOMAIN buckets
        PROVE  /\ [buckets[c] EXCEPT !.next = n, !.prev = KernelHeap].list = buckets[c].list
               /\ Unlocked([buckets[c] EXCEPT !.next = b]).list = buckets[c].list
               /\ [buckets[c] EXCEPT !.prev = b].list = buckets[c].list
    <3>1. HasShape(buckets[c])
      BY <1>0
    <3> QED
      BY <3>1 DEF HasShape, Unlocked
  <2>3. ASSUME NEW c \in DOMAIN buckets PROVE buckets'[c].list = buckets[c].list
    <3>1. CASE c = b
      BY <2>1, <2>2, <3>1
    <3>2. CASE c # b /\ c = KernelHeap
      BY <2>1, <2>2, <3>2
    <3>3. CASE c # b /\ c # KernelHeap /\ c = n
      BY <2>1, <2>2, <3>3
    <3>4. CASE c \notin {b, KernelHeap, n}
      BY <2>1, <3>4
    <3> QED
      BY <3>1, <3>2, <3>3, <3>4
  <2>4. DOMAIN buckets' = DOMAIN buckets
    BY <2>1
  <2> QED
    BY <2>3, <2>4
<1>11. CASE WalkLargest(t)
  <2> DEFINE n  == buckets[b].list[loc[t].at].size
             bk == bucket_update_largest(buckets[b], n)
  <2>1. b \in DOMAIN buckets /\ (buckets' = buckets \/ buckets' = [buckets EXCEPT ![b] = bk])
    BY <1>11 DEF WalkLargest, Mapped
  <2> HIDE DEF n
  <2>2. bk.list = buckets[b].list
    BY <1>0, <2>1, UpdateLargestShape
  <2> HIDE DEF bk
  <2> QED
    BY <1>1, <1>2, <2>1, <2>2
<1>12. CASE RemovePrev(t)
  <2> DEFINE p == buckets[b].prev
             bk == [buckets[p] EXCEPT !.next = buckets[b].next]
  <2>1. p \in DOMAIN buckets => bk.list = buckets[p].list
    BY <1>0 DEF HasShape
  <2>2. buckets' = buckets \/ buckets' = [buckets EXCEPT ![p] = bk]
    BY <1>12 DEF RemovePrev
  <2> HIDE DEF bk
  <2> QED
    BY <1>1, <1>2, <2>1, <2>2
<1>13. CASE RemoveNext(t)
  <2> DEFINE n == buckets[b].next
             bk == [buckets[n] EXCEPT !.prev = buckets[b].prev]
  <2>1. n \in DOMAIN buckets => bk.list = buckets[n].list
    BY <1>0 DEF HasShape
  <2>2. buckets' = buckets \/ buckets' = [buckets EXCEPT ![n] = bk]
    BY <1>13 DEF RemoveNext
  <2> HIDE DEF bk
  <2> QED
    BY <1>1, <1>2, <2>1, <2>2
<1>14. CASE \/ WalkNext(t) \/ NewFirst(t) \/ FreeCheck(t) \/ LoadFirst(t) \/ TestFirst(t)
            \/ Wild(t) \/ Call(t)
  BY <1>1, <1>14 DEF WalkNext, NewFirst, FreeCheck, LoadFirst, TestFirst, Wild, Call, Kmalloc,
     Mfree, ReallocShrink, ReallocGrow
<1> QED
  BY <1>3, <1>4, <1>5, <1>7, <1>8, <1>9, <1>10, <1>11, <1>12, <1>13, <1>14
  DEF Step, WritesList

(* What is in use in the bucket written was in use before, and it is not at a if a is not
   in use any more. *)
LEMMA UsedBack ==
  ASSUME NEW bs, NEW cs, NEW b, Rewrites(bs, cs, b),
         UsedAt(cs[b].list) \subseteq UsedAt(bs[b].list), NEW p, InUse(cs, p)
  PROVE  InUse(bs, p)
<1>1. CASE p.b = b
  BY <1>1 DEF InUse, Rewrites
<1>2. CASE p.b # b
  BY <1>2 DEF InUse, Rewrites
<1> QED
  BY <1>1, <1>2

(* A pebble in use was in use, or it is the one that kmalloc has just placed.  It is not
   the one mfree has marked. *)
UsedOn(t) ==
  \A p \in Pointer : InUse(buckets', p) =>
    \/ InUse(buckets, p) /\ (FreeMark(t) => p # Here(loc[t]))
    \/ p \in Claims(pc'[t], loc'[t])

(* mfree puts its pebble out of use. *)
LEMMA UsedFreeMark ==
  ASSUME Grounds, NEW t \in Threads, OneInv(t), FreeMark(t)
  PROVE  UsedOn(t)
<1>1. PICK bs, x, b, a : bs = buckets /\ x = loc[t] /\ b = x.cur /\ a = x.at
  OBVIOUS
<1> DEFINE P  == bs[b].list
           Q  == Marked(P, a, {})
           bk == [bs[b] EXCEPT !.list = Q]
           cs == [bs EXCEPT ![b] = bk]
<1>2. b \in DOMAIN bs /\ a \in DOMAIN P /\ buckets' = cs
  BY <1>1 DEF FreeMark, AtHand, Mapped, Marked
<1>3. HasShape(bs[b]) /\ IsList(P)
  BY <1>1, <1>2, KnownBefore DEF OneInv, InOneThread, AllTidy, Tidy, Sound
<1>4. UsedAt(Q) = UsedAt(P) \ {a}
  BY <1>2, <1>3, MarkFree
<1>5. bk.list = Q /\ SameFrame(bk, bs[b])
  BY <1>3, ListFields DEF SameFrame
<1> HIDE DEF bk, Q
<1>6. Rewrites(bs, cs, b) /\ cs[b] = bk
  BY <1>2, <1>5, RewritesOne
<1> HIDE DEF cs
<1>7. ASSUME NEW p \in Pointer, InUse(cs, p) PROVE InUse(bs, p) /\ p # Here(x)
  <2>1. InUse(bs, p)
    BY <1>4, <1>5, <1>6, <1>7, UsedBack
  <2>2. p.b = b => p.at # a
    BY <1>4, <1>5, <1>6, <1>7 DEF InUse
  <2>3. Here(x).b = b /\ Here(x).at = a
    BY <1>1 DEF Here
  <2> QED
    BY <2>1, <2>2, <2>3
<1> QED
  BY <1>1, <1>2, <1>7 DEF UsedOn

(* A merge puts no pebble to use. *)
LEMMA UsedMerge ==
  ASSUME Grounds, NEW t \in Threads, OneInv(t), FreeMelt(t) \/ FreeAbsorb(t)
  PROVE  UsedOn(t)
<1>1. PICK bs, b, a : bs = buckets /\ b = loc[t].cur /\ a = loc[t].at
  OBVIOUS
<1>2. b \in DOMAIN bs /\ a \in DOMAIN bs[b].list /\ pc[t] \in {"f_melt", "f_absorb"}
  BY <1>1 DEF FreeMelt, FreeAbsorb, AtHand, Mapped
<1>3. HasShape(bs[b]) /\ Sound(bs[b].list, bs[b].bytes)
  BY <1>1, <1>2, KnownBefore DEF OneInv, InOneThread, AllTidy, Tidy
<1>4. PICK bk : /\ buckets' = [bs EXCEPT ![b] = bk] /\ SameFrame(bk, bs[b])
                /\ UsedAt(bk.list) = UsedAt(bs[b].list)
  <2>1. CASE FreeMelt(t)
    <3> DEFINE bk == melt_prev(bs[b], a)
    <3>1. buckets' = [bs EXCEPT ![b] = bk]
      BY <1>1, <2>1 DEF FreeMelt
    <3>2. SameFrame(bk, bs[b]) /\ UsedAt(bk.list) = UsedAt(bs[b].list)
      BY <1>2, <1>3, MeltFrame, MeltKeeps
    <3> HIDE DEF bk
    <3> QED
      BY <3>1, <3>2
  <2>2. CASE FreeAbsorb(t)
    <3> DEFINE g  == absorb_next(bs[b], a)
               bk == Unlocked(g)
    <3>1. buckets' = [bs EXCEPT ![b] = bk]
      BY <1>1, <2>2 DEF FreeAbsorb
    <3>2. /\ SameFrame(g, bs[b]) /\ HasShape(g)
          /\ UsedAt(g.list) = UsedAt(bs[b].list)
      BY <1>2, <1>3, AbsorbFrame, AbsorbShape, AbsorbKeeps
    <3> HIDE DEF g
    <3>3. SameCore(bk, g) /\ SameEnds(bk, g)
      BY <3>2, UnlockedFields
    <3> HIDE DEF bk
    <3>4. SameFrame(bk, bs[b]) /\ UsedAt(bk.list) = UsedAt(bs[b].list)
      BY <3>2, <3>3 DEF SameFrame, SameCore, SameEnds
    <3> QED
      BY <3>1, <3>4
  <2> QED
    BY <2>1, <2>2
<1>5. PICK cs : cs = buckets' /\ Rewrites(bs, cs, b) /\ cs[b] = bk
  BY <1>2, <1>4, RewritesOne
<1>6. ~FreeMark(t)
  BY <1>2 DEF FreeMark
<1>7. ASSUME NEW p \in Pointer, InUse(cs, p) PROVE InUse(bs, p)
  BY <1>4, <1>5, <1>7, UsedBack
<1> QED
  BY <1>1, <1>5, <1>6, <1>7 DEF UsedOn

(* split_pebble puts one to use, and the call has it. *)
LEMMA UsedSplit ==
  ASSUME Grounds, NEW t \in Threads, OneInv(t), SplitPebble(t)
  PROVE  UsedOn(t)
<1>1. PICK bs, l, x, b, a :
        bs = buckets /\ l = pc[t] /\ x = loc[t] /\ b = x.cur /\ a = x.at
  OBVIOUS
<1> DEFINE P  == bs[b].list
           w  == Wanted(x.req)
           s  == split_pebble(P, a, w)
           Q  == Marked(s.list, s.at, w.lflags)
           bk == [bs[b] EXCEPT !.list = Q]
           cs == [bs EXCEPT ![b] = bk]
           x2 == [x EXCEPT !.at = s.at]
           l2 == IF l = "k_split" THEN "k_first" ELSE "n_largest"
<1>2. /\ l \in {"k_split", "n_split"} /\ b \in DOMAIN bs /\ buckets' = cs
      /\ Goto(t, l2) /\ loc' = [loc EXCEPT ![t] = x2]
  BY <1>1 DEF SplitPebble, AtHand, Mapped, Marked
<1>3. pc'[t] = l2 /\ loc'[t] = x2
  BY <1>2, Gone DEF Grounds
<1>4. x2.cur = b /\ x2.at = s.at
  BY <1>1 DEF Grounds, ShapeInv, CallsInv, LocalsShape
<1>5. InOneThread(bs, l, x, live)
  BY <1>1 DEF OneInv
<1>6. l \in AllocPCs
  BY <1>2 DEF AllocPCs
<1>7. /\ HasShape(bs[b]) /\ Sound(P, bs[b].bytes) /\ bs[b].bytes \in Nat
      /\ x.req \in RequestShape /\ ProperRequest(x.req)
  BY <1>1, <1>2, <1>5, <1>6, KnownBefore DEF InOneThread, AllTidy, Tidy, HasShape
<1>8. a \in Fitting(bs[b], w)
  BY <1>1, <1>2, <1>5 DEF InOneThread, Knows
<1>9. a \in FreeAt(P) /\ P[a].size >= NeededSize(w)
  BY <1>8 DEF Fitting
<1>10. /\ w.size \in Nat /\ w.size % 64 = 0 /\ w.lflags \in SUBSET PebbleFlags
       /\ w.alignment \in WantedAlignments /\ "IN_USE" \in w.lflags
  BY <1>7, WantedShape DEF Wanted
<1>11. Placed(P, Q, s.at, w.size)
  <2> HIDE DEF w
  <2> QED
    BY <1>7, <1>9, <1>10, SplitPlaces
<1>12. bk.list = Q /\ SameFrame(bk, bs[b])
  BY <1>7, ListFields DEF SameFrame
<1> HIDE DEF s, Q, bk, w, x2
<1>13. Rewrites(bs, cs, b) /\ cs[b] = bk
  BY <1>2, <1>12, RewritesOne
<1> HIDE DEF cs
<1>14. ~FreeMark(t)
  BY <1>1, <1>2 DEF FreeMark
<1>15. ASSUME NEW p \in Pointer, InUse(cs, p) PROVE InUse(bs, p) \/ p \in Claims(l2, x2)
  <2>1. CASE p.b = b /\ p.at = s.at
    <3>1. p = Here(x2)
      BY <1>4, <2>1 DEF Here, Pointer
    <3>2. l2 \in HerePCs
      BY DEF HerePCs, PlacedPCs
    <3> QED
      BY <3>1, <3>2 DEF Claims
  <2>2. CASE p.b = b /\ p.at # s.at
    <3>1. p.at \in UsedAt(Q)
      BY <1>12, <1>13, <1>15, <2>2 DEF InUse
    <3>2. p.at \in UsedAt(P)
      BY <1>11, <2>2, <3>1 DEF Placed
    <3> QED
      BY <1>2, <2>2, <3>2 DEF InUse
  <2>3. CASE p.b # b
    BY <1>13, <1>15, <2>3 DEF InUse, Rewrites
  <2> QED
    BY <2>1, <2>2, <2>3
<1> HIDE DEF l2
<1> QED
  BY <1>1, <1>2, <1>3, <1>14, <1>15 DEF UsedOn

(* Nothing is in use in a new bucket. *)
LEMMA UsedCreate ==
  ASSUME Grounds, NEW t \in Threads, OneInv(t), CreateBucket(t)
  PROVE  UsedOn(t)
<1>1. ~FreeMark(t)
  BY DEF CreateBucket, FreeMark
<1>2. CASE buckets' = buckets
  BY <1>1, <1>2 DEF UsedOn
<1>3. ASSUME NEW b \in BucketIds \ DOMAIN buckets, NEW low \in BOOLEAN,
             buckets' = [c \in DOMAIN buckets \cup {b} |->
               IF c = b THEN create_bucket(NewBucketSize(loc[t].req), loc[t].req.flags, low)
               ELSE buckets[c]]
      PROVE  UsedOn(t)
  <2> DEFINE nb == create_bucket(NewBucketSize(loc[t].req), loc[t].req.flags, low)
  <2>1. PICK bs, cs : bs = buckets /\ cs = buckets'
    OBVIOUS
  <2>2. /\ DOMAIN cs = DOMAIN bs \cup {b} /\ cs[b] = nb
        /\ \A c \in DOMAIN bs : cs[c] = bs[c]
    BY <1>3, <2>1
  <2>3. UsedAt(nb.list) = {}
    <3>1. pc[t] = "k_create"
      BY DEF CreateBucket
    <3>2. PICK size \in Nat, flags \in SUBSET MallocFlags :
            size = NewBucketSize(loc[t].req) /\ flags = loc[t].req.flags
      BY <3>1, KnownBefore, NewBucketSizeNat DEF RequestShape
    <3>3. nb = create_bucket(size, flags, low)
      BY <3>2
    <3> HIDE DEF nb
    <3> QED
      BY <3>3, NewBucketTidy
  <2> HIDE DEF nb
  <2>4. ASSUME NEW p \in Pointer, InUse(cs, p) PROVE InUse(bs, p)
    BY <2>2, <2>3, <2>4 DEF InUse
  <2> QED
    BY <1>1, <2>1, <2>4 DEF UsedOn
<1> QED
  BY <1>2, <1>3 DEF CreateBucket

(* What is left when a bucket is given back was there before. *)
LEMMA UsedUnmap ==
  ASSUME NEW t \in Threads, RemoveUnmap(t)
  PROVE  UsedOn(t)
<1>1. ~FreeMark(t)
  BY DEF RemoveUnmap, FreeMark
<1>2. PICK bs, cs, b : bs = buckets /\ cs = buckets' /\ b = loc[t].cur
  OBVIOUS
<1>3. cs = [c \in DOMAIN bs \ {b} |-> bs[c]]
  BY <1>2 DEF RemoveUnmap
<1>4. ASSUME NEW p \in Pointer, InUse(cs, p) PROVE InUse(bs, p)
  BY <1>3, <1>4 DEF InUse
<1> QED
  BY <1>1, <1>2, <1>4 DEF UsedOn

(* Of every step but that of a shrinking realloc. *)
LEMMA UsedSteps ==
  ASSUME Grounds, NEW t \in Threads, OneInv(t), Step(t) \/ Call(t), ~ShrinkSplit(t)
  PROVE  UsedOn(t)
<1>1. CASE WritesList(t)
  BY <1>1, UsedFreeMark, UsedMerge, UsedSplit DEF WritesList
<1>2. CASE CreateBucket(t) \/ RemoveUnmap(t)
  BY <1>2, UsedCreate, UsedUnmap
<1>3. CASE ~WritesList(t) /\ ~CreateBucket(t) /\ ~RemoveUnmap(t)
  <2>1. /\ DOMAIN buckets' = DOMAIN buckets
        /\ \A c \in DOMAIN buckets : buckets'[c].list = buckets[c].list
    BY <1>3, ListsStay DEF Grounds
  <2>2. ~FreeMark(t)
    BY <1>3 DEF WritesList
  <2> QED
    BY <2>1, <2>2 DEF UsedOn, InUse
<1> QED
  BY <1>1, <1>2, <1>3

(* So no step but that of a shrinking realloc loses a pebble. *)
LEMMA LeaksOnly ==
  ASSUME Grounds, NEW t \in Threads, OneInv(t), OneLooks(t), CallFits(pc[t], loc[t]),
         Step(t) \/ Call(t), ~ShrinkSplit(t)
  PROVE  OrphansOf(t)' \subseteq OrphansOf(t) /\ CallFits(pc'[t], loc'[t])
<1> DEFINE X == IF FreeMark(t) THEN {Here(loc[t])} ELSE {}
<1>1. HandsOn(t, X)
  <2>1. CASE Step(t)
    BY <2>1, HandsStep
  <2>2. CASE Call(t)
    BY <2>2, HandsCall DEF HandsOn, Hands
  <2> QED
    BY <2>1, <2>2
<1>2. UsedOn(t)
  BY UsedSteps
<1>3. ASSUME NEW p \in Pointer, InUse(buckets', p), p \notin Owners(pc'[t], loc'[t], live')
      PROVE  InUse(buckets, p) /\ p \notin Owners(pc[t], loc[t], live)
  BY <1>1, <1>2, <1>3 DEF HandsOn, Hands, UsedOn, Owners
<1>4. OrphansOf(t)' = Orphans(buckets', pc'[t], loc'[t], live')
  BY DEF OrphansOf, Orphans
<1> QED
  BY <1>1, <1>3, <1>4 DEF HandsOn, Hands, OrphansOf, Orphans

(* Only realloc to a smaller size goes to make a block smaller. *)
LEMMA NeverShrinks ==
  ASSUME ShapeInv, NEW t \in Threads,
         Step(t) \/ Call(t), ~ReallocShrink(t), pc[t] \notin ShrinkPCs
  PROVE  pc'[t] \notin ShrinkPCs
<1>1. ~ShrinkSplit(t)
  BY DEF ShrinkSplit, ShrinkPCs
<1>2. ASSUME NEW l, Goto(t, l), l \notin ShrinkPCs PROVE pc'[t] \notin ShrinkPCs
  BY <1>2, Gone
<1>3. ASSUME NEW p, KmallocReturns(t, p) \/ MfreeReturns(t) PROVE pc'[t] \notin ShrinkPCs
  BY <1>2, <1>3 DEF KmallocReturns, MfreeReturns, ShrinkPCs
<1>4. CASE SpinLock(t)
  BY <1>2, <1>4 DEF SpinLock, LockPCs, AfterLock, ShrinkPCs
<1>5. CASE WalkTry(t) \/ SplitPebble(t) \/ WalkFirst(t) \/ WalkNext(t) \/ InsertLink(t)
  BY <1>2, <1>3, <1>5 DEF WalkTry, Found, FoundNever, SplitPebble, WalkFirst, WalkNext,
     InsertLink, ShrinkPCs
<1>6. CASE CreateBucket(t) \/ NewTry(t) \/ NewLargest(t) \/ NewFirst(t) \/ NewFirstStore(t)
  BY <1>2, <1>3, <1>6 DEF CreateBucket, NewTry, Found, FoundNever, NewLargest, NewFirst,
     NewFirstStore, ShrinkPCs
<1>7. CASE FreeMark(t) \/ FreeMelt(t) \/ FreeAbsorb(t) \/ FreeCheck(t)
  BY <1>2, <1>3, <1>7 DEF FreeMark, FreeMelt, FreeAbsorb, FreeCheck, ShrinkPCs
<1>10. CASE LoadFirst(t) \/ TestFirst(t) \/ WalkLargest(t)
  BY <1>2, <1>3, <1>10 DEF LoadFirst, TestFirst, WalkLargest, LoadPCs, TestPCs, ShrinkPCs
<1>8. CASE RemovePrev(t) \/ RemoveNext(t) \/ RemoveUnmap(t) \/ Wild(t)
  BY <1>2, <1>3, <1>8 DEF RemovePrev, RemoveNext, RemoveUnmap, Wild, ShrinkPCs
<1>9. CASE Kmalloc(t) \/ Mfree(t) \/ ReallocGrow(t)
  BY <1>2, <1>9 DEF Kmalloc, Mfree, ReallocGrow, StartKmalloc, ShrinkPCs
<1> QED
  BY <1>1, <1>4, <1>5, <1>6, <1>7, <1>8, <1>9, <1>10 DEF Step, Call

(* Of every state the thread can be in. *)
LEMMA CallFitsInvariant ==
  ASSUME NEW t, Threads = {t}
  PROVE  Spec => [](Grounds /\ OneInv(t) /\ OneLooks(t) /\ CallFits(pc[t], loc[t]))
<1>1. Init => CallFits(pc[t], loc[t])
  BY DEF Init, CallFits, NoLocals
<1>2. Grounds /\ OneInv(t) /\ OneLooks(t) /\ CallFits(pc[t], loc[t]) /\ [Next]_vars => CallFits(pc[t], loc[t])'
  <2> SUFFICES ASSUME Grounds, OneInv(t), OneLooks(t), CallFits(pc[t], loc[t]), [Next]_vars
               PROVE  CallFits(pc'[t], loc'[t])
    BY DEF CallFits
  <2>1. CASE Step(t) \/ Call(t)
    <3>1. CASE ShrinkSplit(t)
      BY <3>1, Gone DEF ShrinkSplit, CallFits, NoLocals, Grounds
    <3> QED
      BY <2>1, <3>1, LeaksOnly
  <2>2. CASE UNCHANGED vars
    BY <2>2 DEF vars
  <2> QED
    BY <2>1, <2>2 DEF Next
<1> QED
  BY <1>1, <1>2, OneThreadInvariant, PTL DEF Spec

(* One thread loses no block: a pebble in use that no caller and no call has, so that it
   can never be given back, is made by realloc alone, when it makes a block smaller and
   leaves the tail it has cut off marked as in use (realloc, malloc.cpp). *)
THEOREM OneLeaks ==
  ASSUME NEW t, Threads = {t}
  PROVE  Spec => [][~ShrinkSplit(t) => OrphansOf(t)' \subseteq OrphansOf(t)]_vars
<1>1. ASSUME Grounds, OneInv(t), OneLooks(t), CallFits(pc[t], loc[t]), [Next]_vars
      PROVE  [~ShrinkSplit(t) => OrphansOf(t)' \subseteq OrphansOf(t)]_vars
  BY <1>1, LeaksOnly DEF Next
<1> QED
  BY <1>1, CallFitsInvariant, PTL DEF Spec

(* So as long as no caller makes a block smaller every pebble in use has its owner: what
   kmalloc takes out of a bucket it returns, also to the realloc that moves a block, and
   mfree frees the whole of it. *)
THEOREM OneNoOrphan ==
  ASSUME NEW t, Threads = {t}
  PROVE  Spec /\ [][~ReallocShrink(t)]_vars => []NoOrphan
<1> DEFINE Inv == OrphansOf(t) = {} /\ pc[t] \notin ShrinkPCs
<1>1. Init /\ OneInv(t) /\ Grounds => Inv
  <2> SUFFICES ASSUME Init, Grounds PROVE Inv
    OBVIOUS
  <2>1. DOMAIN buckets = {KernelHeap} /\ UsedAt(buckets[KernelHeap].list) = {}
    <3>1. PICK size \in Nat, flags \in SUBSET MallocFlags :
            size = HeapBytes /\ flags = {"VIRTUAL", "PERSISTENT"}
      BY HeapAssumptions DEF SizeAssumption, MallocFlags
    <3>2. DOMAIN buckets = {KernelHeap}
          /\ buckets[KernelHeap] = create_bucket(size, flags, FALSE)
      BY <3>1, InitHeap
    <3>3. UsedAt(create_bucket(size, flags, FALSE).list) = {}
      BY NewBucketTidy
    <3> QED
      BY <3>2, <3>3
  <2>2. pc[t] = "idle"
    BY DEF Init
  <2> QED
    BY <2>1, <2>2 DEF OrphansOf, Orphans, InUse, ShrinkPCs
<1>2. ASSUME Grounds, OneInv(t), OneLooks(t), CallFits(pc[t], loc[t]), Inv,
             [Next]_vars, [~ReallocShrink(t)]_vars
      PROVE  Inv'
  <2>1. CASE (Step(t) \/ Call(t)) /\ ~ReallocShrink(t)
    <3>1. ~ShrinkSplit(t)
      BY <1>2 DEF ShrinkSplit, ShrinkPCs
    <3>2. OrphansOf(t)' = {}
      BY <1>2, <2>1, <3>1, LeaksOnly
    <3>3. pc'[t] \notin ShrinkPCs
      BY <1>2, <2>1, <3>1, NeverShrinks DEF Grounds
    <3> QED
      BY <3>2, <3>3
  <2>2. CASE UNCHANGED vars
    BY <1>2, <2>2 DEF vars, OrphansOf, Orphans, Owners
  <2> QED
    BY <1>2, <2>1, <2>2 DEF Next
<1>3. Grounds /\ OneInv(t) /\ Inv => NoOrphan
  <2> SUFFICES ASSUME Grounds, OneInv(t), OrphansOf(t) = {},
                      NEW b \in DOMAIN buckets, NEW a \in DOMAIN buckets[b].list,
                      ~PEBBLE_IS_FREE(buckets[b].list[a])
               PROVE  \/ \E k \in live : k.p = [b |-> b, at |-> a]
                      \/ [b |-> b, at |-> a] \in InHand(t)
    BY DEF NoOrphan, NoOrphanIn
  <2> DEFINE p == [b |-> b, at |-> a]
  <2>1. InUse(buckets, p)
    BY DEF InUse, UsedAt
  <2>2. p \in Pointer
    <3>1. IsPointer(p)
      BY KnownBefore DEF IsPointer
    <3> QED
      BY <2>1, <3>1, UsedPointer
  <2>3. p \in Owners(pc[t], loc[t], live)
    BY <2>1, <2>2 DEF OrphansOf, Orphans
  <2>4. Claims(pc[t], loc[t]) \subseteq InHand(t)
    BY DEF Claims, InHand, Here, HerePCs, PlacedPCs, ShrinkPCs
  <2> QED
    BY <2>3, <2>4 DEF Owners
<1> HIDE DEF Inv
<1> QED
  BY <1>1, <1>2, <1>3, CallFitsInvariant, PTL DEF Spec

-----------------------------------------------------------------------------
(* The lock of every bucket *)

(* Two threads are never in critical sections of the same bucket. *)
BucketMutualExclusion ==
  \A b \in BucketIds, t, u \in Threads : Holds(t, b) /\ Holds(u, b) => t = u

(* Whoever is in a critical section of a bucket has set its spinlock, unless the bucket
   was given back meanwhile, and is there alone. *)
BucketLocks ==
  \A b \in BucketIds, t \in Threads :
    Holds(t, b) => /\ Mapped(b) => buckets[b].spinlock = 1
                   /\ \A u \in Threads : Holds(u, b) => u = t

SameLock(b) ==
  Mapped(b) /\ buckets'[b].spinlock = buckets[b].spinlock

(* What a step of t may do to the locks: nothing, give up the one it has, take a free
   one, or make a bucket nobody is in. *)
LeavesLocks(t) ==
  /\ \A b \in DOMAIN buckets' : SameLock(b)
  /\ \/ pc'[t] \notin CriticalPCs
     \/ pc[t] \in CriticalPCs /\ LockOf(t)' = LockOf(t)
GivesUp(t) ==
  /\ pc[t] \in CriticalPCs /\ pc'[t] \notin CriticalPCs
  /\ \A b \in DOMAIN buckets' : b # LockOf(t) => SameLock(b)
Takes(t) ==
  /\ Mapped(LockOf(t)) /\ buckets[LockOf(t)].spinlock = 0
  /\ LockOf(t) \in DOMAIN buckets' /\ buckets'[LockOf(t)].spinlock = 1
  /\ LockOf(t)' = LockOf(t)
  /\ \A b \in DOMAIN buckets' : b # LockOf(t) => SameLock(b)
Makes(t) ==
  /\ pc'[t] \notin CriticalPCs
  /\ \A b \in DOMAIN buckets' : SameLock(b) \/ \A u \in Threads : ~Holds(u, b)

LockStep(t) == LeavesLocks(t) \/ GivesUp(t) \/ Takes(t) \/ Makes(t)

(* A step that does one of these keeps every lock's discipline. *)
LEMMA LocksKept ==
  ASSUME BucketLocks, NEW t \in Threads, Others(t), LockStep(t)
  PROVE  BucketLocks'
<1>1. \A b \in BucketIds, u \in Threads : u # t => (Holds(u, b)' <=> Holds(u, b))
  BY DEF Others, Holds, LockOf
<1> SUFFICES ASSUME NEW b \in BucketIds, NEW u \in Threads, Holds(u, b)'
             PROVE  /\ Mapped(b)' => buckets'[b].spinlock = 1
                    /\ \A w \in Threads : Holds(w, b)' => w = u
  BY DEF BucketLocks, Mapped
<1>2. \A w \in Threads : Holds(w, b) =>
        /\ Mapped(b) => buckets[b].spinlock = 1
        /\ \A v \in Threads : Holds(v, b) => v = w
  BY DEF BucketLocks
<1>3. CASE LeavesLocks(t)
  <2>1. Holds(t, b)' => Holds(t, b)
    BY <1>3 DEF LeavesLocks, Holds
  <2>2. Mapped(b)' => Mapped(b) /\ buckets'[b].spinlock = buckets[b].spinlock
    BY <1>3 DEF LeavesLocks, SameLock, Mapped
  <2> QED
    BY <1>1, <1>2, <2>1, <2>2
<1>4. CASE GivesUp(t)
  <2>1. ~Holds(t, b)' /\ (b = LockOf(t) => Holds(t, b))
    BY <1>4 DEF GivesUp, Holds
  <2>2. Mapped(b)' /\ b # LockOf(t) => Mapped(b) /\ buckets'[b].spinlock = buckets[b].spinlock
    BY <1>4 DEF GivesUp, SameLock, Mapped
  <2> QED
    BY <1>1, <1>2, <2>1, <2>2
<1>5. CASE Takes(t)
  <2>1. CASE b = LockOf(t)
    <3>1. Mapped(b) /\ buckets[b].spinlock = 0 /\ buckets'[b].spinlock = 1
      BY <1>5, <2>1 DEF Takes
    <3>2. \A w \in Threads : ~Holds(w, b)
      BY <1>2, <3>1
    <3> QED
      BY <1>1, <3>1, <3>2
  <2>2. CASE b # LockOf(t)
    <3>1. ~Holds(t, b)'
      BY <1>5, <2>2 DEF Takes, Holds
    <3>2. Mapped(b)' => Mapped(b) /\ buckets'[b].spinlock = buckets[b].spinlock
      BY <1>5, <2>2 DEF Takes, SameLock, Mapped
    <3> QED
      BY <1>1, <1>2, <3>1, <3>2
  <2> QED
    BY <2>1, <2>2
<1>6. CASE Makes(t)
  <2>1. ~Holds(t, b)'
    BY <1>6 DEF Makes, Holds
  <2>2. Mapped(b)' => \/ Mapped(b) /\ buckets'[b].spinlock = buckets[b].spinlock
                      \/ \A w \in Threads : ~Holds(w, b)
    BY <1>6 DEF Makes, SameLock, Mapped
  <2> QED
    BY <1>1, <1>2, <2>1, <2>2
<1> QED
  BY <1>3, <1>4, <1>5, <1>6 DEF LockStep

(* One bucket's record changes, and its lock does not or is t's to give up. *)
LEMMA LockOne ==
  ASSUME ShapeInv, NEW t \in Threads, NEW b \in DOMAIN buckets, NEW bk,
         buckets' = [buckets EXCEPT ![b] = bk],
         \/ /\ bk.spinlock = buckets[b].spinlock
            /\ \/ pc'[t] \notin CriticalPCs
               \/ pc[t] \in CriticalPCs /\ LockOf(t)' = LockOf(t)
         \/ pc[t] \in CriticalPCs /\ pc'[t] \notin CriticalPCs /\ LockOf(t) = b
  PROVE  LockStep(t)
<1>1. /\ DOMAIN buckets' = DOMAIN buckets /\ buckets'[b] = bk
      /\ \A c \in DOMAIN buckets : c # b => buckets'[c] = buckets[c]
  BY ExceptOne
<1>2. \A c \in DOMAIN buckets' : c # b => SameLock(c)
  BY <1>1 DEF SameLock, Mapped
<1>3. bk.spinlock = buckets[b].spinlock => SameLock(b)
  BY <1>1 DEF SameLock, Mapped
<1> QED
  BY <1>2, <1>3 DEF LockStep, LeavesLocks, GivesUp

(* No bucket's record changes. *)
LEMMA LockNone ==
  ASSUME NEW t \in Threads, buckets' = buckets,
         \/ pc'[t] \notin CriticalPCs
         \/ pc[t] \in CriticalPCs /\ LockOf(t)' = LockOf(t)
  PROVE  LockStep(t)
  BY DEF LockStep, LeavesLocks, SameLock, Mapped

(* Where a return of kmalloc or mfree leads no lock is held. *)
LEMMA ReturnsOutside ==
  ASSUME ShapeInv, NEW t \in Threads, NEW p, KmallocReturns(t, p) \/ MfreeReturns(t)
  PROVE  pc'[t] \notin CriticalPCs
  BY DEF ShapeInv, CallsInv, KmallocReturns, MfreeReturns, Goto, CriticalPCs

(* The steps in a critical section that write the list, or nothing. *)
LEMMA LockInside ==
  ASSUME ShapeInv, NEW t \in Threads,
         SplitPebble(t) \/ FreeMark(t) \/ FreeMelt(t) \/ FreeAbsorb(t) \/ ShrinkSplit(t)
  PROVE  LockStep(t)
<1>1. PICK b, a : b = loc[t].cur /\ a = loc[t].at
  OBVIOUS
<1>2. b \in DOMAIN buckets
  BY <1>1 DEF SplitPebble, FreeMark, FreeMelt, FreeAbsorb, ShrinkSplit, AtHand, Mapped
<1> DEFINE bk == buckets[b]
<1>3. HasShape(bk) /\ LocalsShape(loc[t]) /\ DOMAIN loc = Threads /\ DOMAIN pc = Threads
  BY <1>2 DEF ShapeInv, BucketsInv, CallsInv
<1>4. \A n : [loc[t] EXCEPT !.at = n].cur = b
  BY <1>1, <1>3 DEF LocalsShape
<1>5. /\ \A n : [bk EXCEPT !.list = n].spinlock = bk.spinlock
      /\ absorb_next(bk, a).spinlock = bk.spinlock /\ melt_prev(bk, a).spinlock = bk.spinlock
  BY <1>3, ListShape, AbsorbShape, MeltShape
<1>6. CASE SplitPebble(t)
  <2> DEFINE s == split_pebble(bk.list, a, Wanted(loc[t].req))
             Q == [s.list EXCEPT ![s.at].lflags = Wanted(loc[t].req).lflags]
  <2>1. buckets' = [buckets EXCEPT ![b] = [bk EXCEPT !.list = Q]]
    BY <1>1, <1>6 DEF SplitPebble
  <2>2. pc[t] \in CriticalPCs /\ LockOf(t)' = LockOf(t)
    BY <1>1, <1>3, <1>4, <1>6 DEF SplitPebble, CriticalPCs, LockOf, Goto
  <2> HIDE DEF Q
  <2>3. [bk EXCEPT !.list = Q].spinlock = bk.spinlock
    BY <1>5
  <2> QED
    BY <1>2, <2>1, <2>2, <2>3, LockOne
<1>7. CASE FreeMark(t)
  <2> DEFINE Q == [bk.list EXCEPT ![a].lflags = {}]
  <2>1. buckets' = [buckets EXCEPT ![b] = [bk EXCEPT !.list = Q]]
    BY <1>1, <1>7 DEF FreeMark
  <2>2. pc[t] \in CriticalPCs /\ LockOf(t)' = LockOf(t)
    BY <1>1, <1>3, <1>7 DEF FreeMark, CriticalPCs, LockOf, Goto
  <2> HIDE DEF Q
  <2>3. [bk EXCEPT !.list = Q].spinlock = bk.spinlock
    BY <1>5
  <2> QED
    BY <1>2, <2>1, <2>2, <2>3, LockOne
<1>8. CASE FreeMelt(t)
  <2>1. buckets' = [buckets EXCEPT ![b] = melt_prev(bk, a)]
    BY <1>1, <1>8 DEF FreeMelt
  <2>2. pc[t] \in CriticalPCs /\ LockOf(t)' = LockOf(t)
    BY <1>1, <1>3, <1>4, <1>8 DEF FreeMelt, CriticalPCs, LockOf, Goto
  <2> QED
    BY <1>2, <1>5, <2>1, <2>2, LockOne
<1>9. CASE FreeAbsorb(t)
  <2>1. buckets' = [buckets EXCEPT ![b] = Unlocked(absorb_next(bk, a))]
    BY <1>1, <1>9 DEF FreeAbsorb
  <2>2. pc[t] \in CriticalPCs /\ pc'[t] \notin CriticalPCs /\ LockOf(t) = b
    BY <1>1, <1>3, <1>9 DEF FreeAbsorb, CriticalPCs, LockOf, Goto
  <2> QED
    BY <1>2, <2>1, <2>2, LockOne
<1>10. CASE ShrinkSplit(t)
  <2>1. buckets' = [buckets EXCEPT ![b] = Unlocked(shrink_pebble(bk, a, loc[t].req.size))]
    BY <1>1, <1>10 DEF ShrinkSplit
  <2>2. pc[t] \in CriticalPCs /\ pc'[t] \notin CriticalPCs /\ LockOf(t) = b
    BY <1>1, <1>3, <1>10 DEF ShrinkSplit, CriticalPCs, LockOf, Goto
  <2> QED
    BY <1>2, <2>1, <2>2, LockOne
<1> QED
  BY <1>6, <1>7, <1>8, <1>9, <1>10

(* The steps of kmalloc that give a lock back, or go on with it. *)
LEMMA LockKmalloc ==
  ASSUME ShapeInv, NEW t \in Threads,
         WalkTry(t) \/ WalkFirst(t) \/ NewTry(t) \/ NewLargest(t)
  PROVE  LockStep(t)
<1>1. PICK b, a : b = loc[t].cur /\ a = loc[t].at
  OBVIOUS
<1>2. b \in DOMAIN buckets
  BY <1>1 DEF WalkTry, WalkFirst, NewTry, NewLargest, AtHand, Mapped
<1> DEFINE bk == buckets[b]
<1>3. LocalsShape(loc[t]) /\ DOMAIN loc = Threads /\ DOMAIN pc = Threads
  BY DEF ShapeInv, CallsInv
<1>4. \A n : [loc[t] EXCEPT !.at = n].cur = b
  BY <1>1, <1>3 DEF LocalsShape
<1>5. pc[t] \in CriticalPCs /\ LockOf(t) = b
  BY <1>1 DEF WalkTry, WalkFirst, NewTry, NewLargest, CriticalPCs, LockOf
<1>6. ASSUME NEW l \in {"k_split", "n_split"}, Found(t, l) PROVE LockStep(t)
  <2>1. buckets' = buckets /\ LockOf(t)' = LockOf(t)
    BY <1>1, <1>3, <1>4, <1>5, <1>6 DEF Found, LockOf, Goto
  <2> QED
    BY <1>5, <2>1, LockNone
<1>7. ASSUME FoundNever(t) PROVE LockStep(t)
  <2>1. buckets' = buckets /\ LockOf(t)' = LockOf(t)
    BY <1>1, <1>3, <1>5, <1>7 DEF FoundNever, LockOf, Goto
  <2> QED
    BY <1>5, <2>1, LockNone
<1>8. ASSUME NEW r, buckets' = [buckets EXCEPT ![b] = r], pc'[t] \notin CriticalPCs
      PROVE  LockStep(t)
  BY <1>2, <1>5, <1>8, LockOne
<1>9. CASE WalkTry(t)
  <2>1. \/ Found(t, "k_split")
        \/ FoundNever(t)
        \/ /\ buckets' = [buckets EXCEPT ![b] = Unlocked(bk)]
           /\ Goto(t, "k_next")
    BY <1>1, <1>9 DEF WalkTry
  <2>2. Goto(t, "k_next") => pc'[t] \notin CriticalPCs
    BY <1>3 DEF Goto, CriticalPCs
  <2> QED
    BY <1>6, <1>7, <1>8, <2>1, <2>2
<1>10. CASE WalkFirst(t)
  <2>1. PICK r, p : buckets' = [buckets EXCEPT ![b] = r] /\ KmallocReturns(t, p)
    BY <1>1, <1>10 DEF WalkFirst
  <2> QED
    BY <1>8, <2>1, ReturnsOutside
<1>11. CASE NewTry(t)
  <2>1. \/ Found(t, "n_split")
        \/ FoundNever(t)
        \/ \E r : buckets' = [buckets EXCEPT ![b] = r] /\ KmallocReturns(t, NULL)
    BY <1>1, <1>11 DEF NewTry
  <2> QED
    BY <1>6, <1>7, <1>8, <2>1, ReturnsOutside
<1>12. CASE NewLargest(t)
  <2>1. PICK r : buckets' = [buckets EXCEPT ![b] = r]
    BY <1>1, <1>12 DEF NewLargest
  <2>2. pc'[t] \notin CriticalPCs
    BY <1>3, <1>12 DEF NewLargest, Goto, CriticalPCs
  <2> QED
    BY <1>8, <2>1, <2>2
<1> QED
  BY <1>9, <1>10, <1>11, <1>12

(* The steps with no lock, and the one with kernel_heap's. *)
LEMMA LockOutside ==
  ASSUME ShapeInv, LockInv, NEW t \in Threads,
         SpinLock(t) \/ CreateBucket(t) \/ InsertLink(t) \/ NewFirstStore(t)
           \/ WalkLargest(t) \/ RemovePrev(t) \/ RemoveNext(t) \/ RemoveUnmap(t)
  PROVE  LockStep(t)
<1>1. LocalsShape(loc[t]) /\ DOMAIN loc = Threads /\ DOMAIN pc = Threads
  BY DEF ShapeInv, CallsInv
<1>2. \A x \in DOMAIN buckets : HasShape(buckets[x])
  BY DEF ShapeInv, BucketsInv
<1>3. CASE SpinLock(t)
  <2>1. PICK b : b = LockOf(t)
    OBVIOUS
  <2> DEFINE bk == [buckets[b] EXCEPT !.spinlock = 1]
  <2>2. b \in DOMAIN buckets /\ buckets[b].spinlock = 0 /\ buckets' = [buckets EXCEPT ![b] = bk]
    BY <1>3, <2>1 DEF SpinLock, Mapped
  <2>3. bk.spinlock = 1
    BY <1>2, <2>2 DEF HasShape
  <2> HIDE DEF bk
  <2>4. /\ DOMAIN buckets' = DOMAIN buckets /\ buckets'[b] = bk
        /\ \A c \in DOMAIN buckets : c # b => buckets'[c] = buckets[c]
    BY <2>2, ExceptOne
  <2>5. LockOf(t)' = LockOf(t)
    BY <1>1, <1>3 DEF SpinLock, LockOf, LockPCs, AfterLock, Goto
  <2>6. Takes(t)
    BY <2>1, <2>2, <2>3, <2>4, <2>5 DEF Takes, SameLock, Mapped
  <2> QED
    BY <2>6 DEF LockStep
<1>4. CASE CreateBucket(t)
  <2>1. CASE KmallocReturns(t, NULL) /\ UNCHANGED buckets
    BY <2>1, ReturnsOutside, LockNone
  <2>2. CASE ~(KmallocReturns(t, NULL) /\ UNCHANGED buckets)
    <3>1. PICK b \in BucketIds \ DOMAIN buckets :
            /\ ~Referenced(b)
            /\ \E r : buckets' = [x \in DOMAIN buckets \cup {b} |->
                                  IF x = b THEN r ELSE buckets[x]]
            /\ Goto(t, "i_lock")
      BY <1>4, <2>2 DEF CreateBucket
    <3>2. pc'[t] \notin CriticalPCs
      BY <1>1, <3>1 DEF Goto, CriticalPCs
    <3>3. \A u \in Threads : ~Holds(u, b)
      BY <3>1 DEF Referenced, Holds, LockOf, CriticalPCs, LockInv
    <3>4. \A x \in DOMAIN buckets' : x = b \/ SameLock(x)
      BY <3>1 DEF SameLock, Mapped
    <3>5. Makes(t)
      BY <3>2, <3>3, <3>4 DEF Makes
    <3> QED
      BY <3>5 DEF LockStep
  <2> QED
    BY <2>1, <2>2
<1>5. CASE InsertLink(t)
  <2>1. PICK b, n : b = loc[t].cur /\ n = buckets[KernelHeap].next
    OBVIOUS
  <2>2. buckets' = [x \in DOMAIN buckets |->
          CASE x = b          -> [buckets[b] EXCEPT !.next = n, !.prev = KernelHeap]
            [] x = KernelHeap -> Unlocked([buckets[x] EXCEPT !.next = b])
            [] x = n          -> [buckets[x] EXCEPT !.prev = b]
            [] OTHER          -> buckets[x]]
    BY <1>5, <2>1 DEF InsertLink
  <2>3. ASSUME NEW x \in DOMAIN buckets', x # KernelHeap PROVE SameLock(x)
    <3>1. x \in DOMAIN buckets /\ HasShape(buckets[x])
      BY <1>2, <2>2
    <3>2. /\ [buckets[x] EXCEPT !.next = n, !.prev = KernelHeap].spinlock = buckets[x].spinlock
          /\ [buckets[x] EXCEPT !.prev = b].spinlock = buckets[x].spinlock
      BY <3>1 DEF HasShape
    <3>3. buckets'[x] \in {[buckets[x] EXCEPT !.next = n, !.prev = KernelHeap],
                           [buckets[x] EXCEPT !.prev = b], buckets[x]}
      BY <2>2, <2>3, <3>1
    <3> QED
      BY <3>1, <3>2, <3>3 DEF SameLock, Mapped
  <2>4. pc[t] \in CriticalPCs /\ pc'[t] \notin CriticalPCs /\ LockOf(t) = KernelHeap
    BY <1>1, <1>5 DEF InsertLink, CriticalPCs, LockOf, Goto
  <2>5. GivesUp(t)
    BY <2>3, <2>4 DEF GivesUp
  <2> QED
    BY <2>5 DEF LockStep
<1>6. CASE NewFirstStore(t)
  <2>1. PICK b, f, p : /\ b = loc[t].cur /\ f = [buckets[b] EXCEPT !.first = loc[t].reg]
                       /\ b \in DOMAIN buckets /\ buckets' = [buckets EXCEPT ![b] = f]
                       /\ KmallocReturns(t, p)
    BY <1>6 DEF NewFirstStore, Mapped
  <2>2. f.spinlock = buckets[b].spinlock
    BY <1>2, <2>1, FirstShape
  <2> QED
    BY <2>1, <2>2, ReturnsOutside, LockOne
<1>7. CASE WalkLargest(t)
  <2>1. pc'[t] \notin CriticalPCs
    BY <1>7, ReturnsOutside DEF WalkLargest, CriticalPCs
  <2>2. PICK b, n : /\ b = loc[t].cur /\ b \in DOMAIN buckets
                    /\ \/ buckets' = buckets
                       \/ buckets' = [buckets EXCEPT ![b] = bucket_update_largest(buckets[b], n)]
    BY <1>7 DEF WalkLargest, Mapped
  <2>3. bucket_update_largest(buckets[b], n).spinlock = buckets[b].spinlock
    BY <1>2, <2>2, UpdateLargestShape
  <2> QED
    BY <2>1, <2>2, <2>3, LockOne, LockNone
<1>8. CASE RemovePrev(t)
  <2>1. pc'[t] \notin CriticalPCs
    BY <1>1, <1>8 DEF RemovePrev, Goto, CriticalPCs
  <2>2. PICK p, n : \/ buckets' = buckets
                    \/ /\ p \in DOMAIN buckets
                       /\ buckets' = [buckets EXCEPT ![p] = [buckets[p] EXCEPT !.next = n]]
    BY <1>8 DEF RemovePrev, Mapped
  <2>3. p \in DOMAIN buckets => [buckets[p] EXCEPT !.next = n].spinlock = buckets[p].spinlock
    BY <1>2 DEF HasShape
  <2> QED
    BY <2>1, <2>2, <2>3, LockOne, LockNone
<1>9. CASE RemoveNext(t)
  <2>1. pc'[t] \notin CriticalPCs
    BY <1>1, <1>9 DEF RemoveNext, Goto, CriticalPCs
  <2>2. PICK n, p : \/ buckets' = buckets
                    \/ /\ n \in DOMAIN buckets
                       /\ buckets' = [buckets EXCEPT ![n] = [buckets[n] EXCEPT !.prev = p]]
    BY <1>9 DEF RemoveNext, Mapped
  <2>3. n \in DOMAIN buckets => [buckets[n] EXCEPT !.prev = p].spinlock = buckets[n].spinlock
    BY <1>2 DEF HasShape
  <2> QED
    BY <2>1, <2>2, <2>3, LockOne, LockNone
<1>10. CASE RemoveUnmap(t)
  <2>1. pc'[t] \notin CriticalPCs
    BY <1>10, ReturnsOutside DEF RemoveUnmap
  <2>2. \A x \in DOMAIN buckets' : SameLock(x)
    BY <1>10 DEF RemoveUnmap, SameLock, Mapped
  <2> QED
    BY <2>1, <2>2 DEF LockStep, LeavesLocks
<1> QED
  BY <1>3, <1>4, <1>5, <1>6, <1>7, <1>8, <1>9, <1>10

(* And those that write no bucket. *)
LEMMA LockNothing ==
  ASSUME ShapeInv, NEW t \in Threads,
         \/ WalkNext(t) \/ NewFirst(t) \/ FreeCheck(t) \/ LoadFirst(t) \/ TestFirst(t)
         \/ Wild(t) \/ Call(t)
  PROVE  LockStep(t)
<1>1. DOMAIN pc = Threads
  BY DEF ShapeInv, CallsInv
<1>2. buckets' = buckets
  BY DEF WalkNext, NewFirst, FreeCheck, LoadFirst, TestFirst, Wild, Call, Kmalloc, Mfree,
     ReallocShrink, ReallocGrow
<1>3. ASSUME NEW l, Goto(t, l), l \notin CriticalPCs PROVE pc'[t] \notin CriticalPCs
  BY <1>1, <1>3 DEF Goto
<1>4. CASE WalkNext(t) \/ NewFirst(t) \/ FreeCheck(t) \/ LoadFirst(t) \/ TestFirst(t) \/ Wild(t)
  <2>1. pc'[t] \notin CriticalPCs
    BY <1>3, <1>4, ReturnsOutside DEF WalkNext, NewFirst, FreeCheck, LoadFirst, TestFirst, Wild,
       LoadPCs, TestPCs, CriticalPCs
  <2> QED
    BY <1>2, <2>1, LockNone
<1>5. CASE Call(t)
  <2>1. pc'[t] \notin CriticalPCs
    BY <1>3, <1>5 DEF Call, Kmalloc, Mfree, ReallocShrink, ReallocGrow, StartKmalloc, CriticalPCs
  <2> QED
    BY <1>2, <2>1, LockNone
<1> QED
  BY <1>4, <1>5

(* For any number of threads, buckets and sizes, two threads are never in critical
   sections of the same bucket, also of one that is given back while a thread waits for
   its lock or has it (spin_lock and spin_unlock of bucket->spinlock, malloc.cpp).  So
   what is done to a list with its lock held may be taken as one step.  It rests on mmap
   handing out no page that a thread has an address in: a new bucket's lock is free. *)
THEOREM BucketMutex == Spec => []BucketMutualExclusion
<1>1. Init => BucketLocks
  BY DEF Init, BucketLocks, Holds, CriticalPCs
<1>2. ShapeInv /\ LockInv /\ BucketLocks /\ [Next]_vars => BucketLocks'
  <2> SUFFICES ASSUME ShapeInv, LockInv, BucketLocks, [Next]_vars PROVE BucketLocks'
    OBVIOUS
  <2>1. CASE Next
    <3>1. PICK t \in Threads : Step(t) \/ Call(t)
      BY <2>1 DEF Next
    <3>2. Others(t)
      BY <3>1, StepsOK DEF StepOK
    <3>3. LockStep(t)
      BY <3>1, LockInside, LockKmalloc, LockOutside, LockNothing DEF Step
    <3> QED
      BY <3>2, <3>3, LocksKept
  <2>2. CASE UNCHANGED vars
    BY <2>2 DEF vars, BucketLocks, Holds, LockOf, Mapped
  <2> QED
    BY <2>1, <2>2
<1>3. BucketLocks => BucketMutualExclusion
  BY DEF BucketLocks, BucketMutualExclusion
<1> QED
  BY <1>1, <1>2, <1>3, LockInvariant, PTL DEF Spec

-----------------------------------------------------------------------------
(* Any number of threads, none of whom asks for an aligned block *)

(* Every pebble reaches to the next one, and the last to the end of the bucket. *)
Tiled(P, bytes) == \A a \in DOMAIN P : EndOf(P, a) = Limit(P, a, bytes)

NoneAligned(P) == \A a \in DOMAIN P : "ALIGNED" \notin P[a].lflags

(* No pebble is larger than largest says. *)
Capped(bk) == bk.largest \in Nat /\ \A a \in DOMAIN bk.list : bk.list[a].size <= bk.largest

(* What the list and largest of a bucket say is true, and nothing in it is aligned
   or lost. *)
Plain(bk) ==
  /\ Sound(bk.list, bk.bytes) /\ Capped(bk)
  /\ Tiled(bk.list, bk.bytes) /\ NoneAligned(bk.list)
AllPlain(bs) == \A b \in DOMAIN bs : Plain(bs[b])

(* A tail cut off begins where the pebble ends and ends where the pebble
   ended. *)
LEMMA SplitPlainTiles ==
  ASSUME NEW P, NEW bytes \in Nat, Sound(P, bytes), Tiled(P, bytes), NoneAligned(P),
         NEW a \in DOMAIN P, NEW size \in Nat
  PROVE  LET Q == SplitPlain(P, a, size)
         IN  /\ Sound(Q, bytes) /\ Tiled(Q, bytes) /\ NoneAligned(Q)
             /\ DOMAIN P \subseteq DOMAIN Q
             /\ \A n \in Nat : (\A y \in DOMAIN P : P[y].size <= n) =>
                               \A y \in DOMAIN Q : Q[y].size <= n
<1> DEFINE Q == SplitPlain(P, a, size)
<1>1. Sound(Q, bytes) /\ SplitOff(P, Q, a, size)
  BY SplitPlainSound
<1> HIDE DEF Q
<1>2. /\ P \in [DOMAIN P -> Pebble] /\ Q \in [DOMAIN Q -> Pebble] /\ DOMAIN P \subseteq Nat
      /\ DOMAIN Q \subseteq Nat /\ NULL \notin Nat
  BY <1>1, NullAssumption DEF Sound, IsList
<1>3. CASE Q = P
  BY <1>1, <1>3 DEF Q
<1>4. CASE Q # P
  <2>1. PICK x \in DOMAIN Q :
          /\ CutOff(P, Q, a, x) /\ Q[x].lflags = P[a].lflags
          /\ Q[x].size = P[a].size - Q[a].size - PEBBLE_SZ /\ x = EndOf(Q, a)
    BY <1>1, <1>4 DEF SplitOff
  <2>2. P[a].size \in Nat /\ Q[a].size \in Nat /\ Q[x].size \in Nat /\ a \in Nat /\ x \in Nat
    BY <1>2, <2>1 DEF Pebble, CutOff
  <2>3. /\ DOMAIN Q = DOMAIN P \cup {x} /\ x \notin DOMAIN P /\ x # a
        /\ Q[a].next = x /\ Q[x].next = P[a].next /\ Q[a].lflags = P[a].lflags
        /\ \A y \in DOMAIN P \ {a} : /\ Q[y].next = P[y].next /\ Q[y].size = P[y].size
                                    /\ Q[y].lflags = P[y].lflags
    BY <2>1 DEF CutOff
  <2>4. EndOf(Q, x) = EndOf(P, a)
    BY <2>1, <2>2 DEF EndOf, PEBBLE_SZ
  <2>5. \A y \in DOMAIN Q : EndOf(Q, y) = Limit(Q, y, bytes)
    <3> TAKE y \in DOMAIN Q
    <3>1. CASE y = x
      BY <2>3, <2>4, <3>1 DEF Tiled, Limit
    <3>2. CASE y = a
      BY <1>2, <2>1, <2>2, <2>3, <3>2 DEF Limit
    <3>3. CASE y \in DOMAIN P \ {a}
      BY <2>3, <3>3 DEF Tiled, Limit, EndOf
    <3> QED
      BY <2>3, <3>1, <3>2, <3>3
  <2>6. NoneAligned(Q)
    BY <2>1, <2>3 DEF NoneAligned
  <2>7. ASSUME NEW n \in Nat, \A y \in DOMAIN P : P[y].size <= n
        PROVE  \A y \in DOMAIN Q : Q[y].size <= n
    <3> TAKE y \in DOMAIN Q
    <3>1. P[a].size <= n
      BY <2>7
    <3>2. Q[a].size <= n /\ Q[x].size <= n
      BY <2>1, <2>2, <3>1 DEF PEBBLE_SZ
    <3>3. y \in DOMAIN P \ {a} \/ y \in {a, x}
      BY <2>3
    <3> QED
      BY <2>3, <2>7, <3>2, <3>3
  <2> QED
    BY <1>1, <2>3, <2>5, <2>6, <2>7 DEF Tiled, Q
<1> QED
  BY <1>3, <1>4

(* Setting the flags of a pebble moves nothing. *)
LEMMA MarkTiles ==
  ASSUME NEW P, NEW bytes \in Nat, Sound(P, bytes), Tiled(P, bytes), NoneAligned(P),
         NEW a \in DOMAIN P, NEW f \in SUBSET PebbleFlags, "ALIGNED" \notin f
  PROVE  LET Q == Marked(P, a, f)
         IN  /\ Sound(Q, bytes) /\ Tiled(Q, bytes) /\ NoneAligned(Q)
             /\ DOMAIN Q = DOMAIN P /\ \A y \in DOMAIN P : Q[y].size = P[y].size
<1> DEFINE Q == Marked(P, a, f)
<1>1. Sound(Q, bytes)
  BY FlagsSound DEF Marked
<1>2. /\ DOMAIN Q = DOMAIN P /\ Q[a].lflags = f
      /\ \A x \in DOMAIN P : Q[x].size = P[x].size /\ Q[x].next = P[x].next
      /\ \A x \in DOMAIN P \ {a} : Q[x].lflags = P[x].lflags
  BY MarkEffect DEF Sound
<1> HIDE DEF Q
<1>3. Tiled(Q, bytes)
  BY <1>2 DEF Tiled, EndOf, Limit
<1>4. NoneAligned(Q)
  BY <1>2 DEF NoneAligned
<1> QED
  BY <1>1, <1>2, <1>3, <1>4 DEF Q

(* A pebble that takes over the one behind it takes over its end. *)
LEMMA SwallowTiles ==
  ASSUME NEW P, NEW bytes \in Nat, Sound(P, bytes), Tiled(P, bytes), NoneAligned(P),
         NEW a \in FreeAt(P), P[a].next \in FreeAt(P)
  PROVE  LET Q == SwallowNext(P, a)
         IN  Tiled(Q, bytes) /\ NoneAligned(Q)
<1> DEFINE n == P[a].next
           m == P[n].next
           Q == SwallowNext(P, a)
<1>1. /\ P \in [DOMAIN P -> Pebble] /\ DOMAIN P \subseteq Nat /\ NULL \notin Nat
      /\ a \in DOMAIN P /\ n \in DOMAIN P
  BY NullAssumption DEF Sound, IsList, FreeAt
<1>2. /\ n # a /\ DOMAIN Q = DOMAIN P \ {n}
      /\ Q[a].size = P[a].size + P[n].size + PEBBLE_SZ
      /\ \A x \in DOMAIN Q \ {a} : Q[x].size = P[x].size
  BY SwallowEffect
<1>3. m # a
  <2>1. EndOf(P, a) = n /\ (m # NULL => EndOf(P, n) = m)
    BY <1>1 DEF Tiled, Limit
  <2>2. a \in Nat /\ P[a].size \in Nat /\ P[n].size \in Nat
    BY <1>1 DEF Pebble
  <2> QED
    BY <1>1, <2>1, <2>2 DEF EndOf, PEBBLE_SZ
<1>4. \A x \in DOMAIN Q :
        /\ Q[x].lflags = P[x].lflags
        /\ Q[x].next = IF x = a THEN m ELSE P[x].next
  <2> TAKE x \in DOMAIN Q
  <2>1. x \in DOMAIN P \ {n} /\ P[x] \in Pebble
    BY <1>1, <1>2
  <2>2. Q[x] = CASE x = a -> [P[a] EXCEPT !.size = @ + P[n].size + PEBBLE_SZ, !.next = m]
                 [] x = m -> [P[m] EXCEPT !.prev = a]
                 [] OTHER -> P[x]
    BY <2>1 DEF SwallowNext
  <2> QED
    BY <1>3, <2>1, <2>2 DEF Pebble
<1> HIDE DEF Q
<1>5. \A x \in DOMAIN Q : EndOf(Q, x) = Limit(Q, x, bytes)
  <2> TAKE x \in DOMAIN Q
  <2>1. CASE x = a
    <3>1. EndOf(P, a) = n /\ EndOf(P, n) = Limit(P, n, bytes)
      BY <1>1 DEF Tiled, Limit
    <3>2. a \in Nat /\ P[a].size \in Nat /\ P[n].size \in Nat
      BY <1>1 DEF Pebble
    <3>3. EndOf(Q, a) = EndOf(P, n)
      BY <1>2, <3>1, <3>2 DEF EndOf, PEBBLE_SZ
    <3> QED
      BY <1>4, <2>1, <3>1, <3>3 DEF Limit
  <2>2. CASE x # a
    <3>1. x \in DOMAIN P /\ P[x].next # n
      <4>1. EndOf(P, a) = n /\ x \in DOMAIN P /\ EndOf(P, x) = Limit(P, x, bytes)
        BY <1>1, <1>2 DEF Tiled, Limit
      <4>2. P[n].prev = a
        BY <1>1 DEF Sound, ListWellFormed, LinksAgree
      <4>3. P[x].next # NULL => P[P[x].next].prev = x
        BY <4>1 DEF Sound, ListWellFormed, LinksAgree
      <4> QED
        BY <1>1, <2>2, <4>1, <4>2, <4>3
    <3> QED
      BY <1>2, <1>4, <2>2, <3>1 DEF Tiled, EndOf, Limit
  <2> QED
    BY <2>1, <2>2
<1>6. NoneAligned(Q)
  BY <1>2, <1>4 DEF NoneAligned
<1> QED
  BY <1>5, <1>6 DEF Tiled, Q

(* absorb_next leaves a plain bucket plain. *)
LEMMA AbsorbPlain ==
  ASSUME NEW bk, HasShape(bk), Plain(bk), NEW a \in DOMAIN bk.list
  PROVE  Plain(absorb_next(bk, a))
<1> DEFINE r == absorb_next(bk, a)
           n == bk.list[a].next
<1>1. Sound(bk.list, bk.bytes) /\ bk.bytes \in Nat /\ bk.largest \in Nat
      /\ \A x \in DOMAIN bk.list : bk.list[x].size \in Nat /\ bk.list[x].size <= bk.largest
  BY DEF Plain, Capped, HasShape, Sound, IsList, Pebble
<1>2. r.bytes = bk.bytes
  BY AbsorbFrame DEF SameFrame
<1>3. Sound(r.list, bk.bytes) /\ Capped(r)
  <2>1. Sound(r.list, bk.bytes)
    BY <1>1, AbsorbSound
  <2>2. CASE a \in FreeAt(bk.list) /\ n \in FreeAt(bk.list)
    <3> DEFINE Q == SwallowNext(bk.list, a)
               z == bk.list[a].size + bk.list[n].size + PEBBLE_SZ
    <3>1. r.list = Q /\ r.largest = IF z > bk.largest THEN z ELSE bk.largest
      BY <1>1, <2>2, AbsorbCases
    <3>2. /\ DOMAIN Q = DOMAIN bk.list \ {n} /\ Q[a].size = z
          /\ \A x \in DOMAIN Q \ {a} : Q[x].size = bk.list[x].size
      BY <1>1, <2>2, SwallowEffect
    <3>3. z \in Nat
      BY <1>1, <2>2 DEF FreeAt, PEBBLE_SZ
    <3> DEFINE m == IF z > bk.largest THEN z ELSE bk.largest
    <3> HIDE DEF Q, z
    <3>4. m \in Nat /\ m >= z /\ m >= bk.largest
      BY <1>1, <3>3
    <3>5. ASSUME NEW x \in DOMAIN Q PROVE Q[x].size <= m
      <4>1. CASE x = a
        BY <3>2, <3>3, <3>4, <4>1
      <4>2. CASE x # a
        <5>1. x \in DOMAIN bk.list /\ Q[x].size = bk.list[x].size
          BY <3>2, <4>2
        <5>2. bk.list[x].size \in Nat /\ bk.list[x].size <= bk.largest
          BY <1>1, <5>1
        <5> QED
          BY <1>1, <3>4, <5>1, <5>2
      <4> QED
        BY <4>1, <4>2
    <3>6. r.list = Q /\ r.largest = m
      BY <3>1
    <3> HIDE DEF m, r
    <3> QED
      BY <2>1, <3>4, <3>5, <3>6 DEF Capped
  <2>3. CASE r = bk
    BY <2>3 DEF Plain
  <2> QED
    BY <1>1, <2>1, <2>2, <2>3, AbsorbCases
<1>4. \/ /\ a \in FreeAt(bk.list) /\ n \in FreeAt(bk.list)
         /\ r.list = SwallowNext(bk.list, a)
      \/ r = bk
  BY <1>1, AbsorbCases
<1>5. a \in FreeAt(bk.list) /\ n \in FreeAt(bk.list) =>
        Tiled(SwallowNext(bk.list, a), bk.bytes) /\ NoneAligned(SwallowNext(bk.list, a))
  BY <1>1, SwallowTiles DEF Plain
<1> HIDE DEF r, n
<1>6. Plain(r)
  BY <1>2, <1>3, <1>4, <1>5 DEF Plain
<1> QED
  BY <1>6 DEF r

(* And so does melt_prev. *)
LEMMA MeltPlain ==
  ASSUME NEW bk, HasShape(bk), Plain(bk), NEW a \in DOMAIN bk.list
  PROVE  Plain(melt_prev(bk, a))
<1>1. CASE bk.list[a].prev = NULL
  BY <1>1 DEF melt_prev
<1>2. CASE bk.list[a].prev # NULL
  <2>1. bk.list[a].prev \in DOMAIN bk.list
    BY <1>2, BeforeIn DEF Plain
  <2>2. melt_prev(bk, a) = absorb_next(bk, bk.list[a].prev)
    BY <1>2 DEF melt_prev
  <2> QED
    BY <2>1, <2>2, AbsorbPlain
<1> QED
  BY <1>1, <1>2

-----------------------------------------------------------------------------
(* A record that says the same of its list is as plain as before. *)
LEMMA PlainCore ==
  ASSUME NEW s, Plain(s), NEW r, SameCore(r, s), r.largest \in Nat, r.largest >= s.largest
  PROVE  Plain(r)
<1>1. \A a \in DOMAIN s.list : s.list[a].size \in Nat
  BY DEF Plain, Sound, IsList, Pebble
<1> QED
  BY <1>1 DEF Plain, Capped, SameCore

(* The updates of a record that leave its list alone: spin_lock and spin_unlock,
   largest, first, next and prev. *)
LEMMA PlainFields ==
  ASSUME NEW bk, HasShape(bk), Plain(bk)
  PROVE  /\ Plain(Unlocked(bk)) /\ Plain([bk EXCEPT !.spinlock = 1])
         /\ \A n \in Nat : Plain(bucket_update_largest(bk, n))
         /\ \A f : Plain([bk EXCEPT !.first = f])
         /\ \A n : Plain([bk EXCEPT !.next = n]) /\ Plain([bk EXCEPT !.prev = n])
         /\ \A n, p : Plain([bk EXCEPT !.next = n, !.prev = p])
<1>1. bk.largest \in Nat
  BY DEF Plain, Capped
<1>2. ASSUME NEW r, SameCore(r, bk), r.largest = bk.largest PROVE Plain(r)
  BY <1>1, <1>2, PlainCore
<1>3. Plain(Unlocked(bk))
  BY <1>2, UnlockedFields
<1>4. SameCore([bk EXCEPT !.spinlock = 1], bk) /\ [bk EXCEPT !.spinlock = 1].largest = bk.largest
  BY DEF HasShape, SameCore
<1>5. ASSUME NEW n \in Nat PROVE Plain(bucket_update_largest(bk, n))
  BY <1>1, <1>5, LargestFields, PlainCore
<1>6. ASSUME NEW f PROVE Plain([bk EXCEPT !.first = f])
  BY <1>2, FirstFields
<1>7. ASSUME NEW n, NEW r \in {[bk EXCEPT !.next = n], [bk EXCEPT !.prev = n]} PROVE Plain(r)
  <2>1. SameCore(r, bk) /\ r.largest = bk.largest
    BY <1>7 DEF HasShape, SameCore
  <2> QED
    BY <1>2, <2>1
<1>8. ASSUME NEW n, NEW p PROVE Plain([bk EXCEPT !.next = n, !.prev = p])
  <2> DEFINE r == [bk EXCEPT !.next = n, !.prev = p]
  <2>1. SameCore(r, bk) /\ r.largest = bk.largest
    BY DEF HasShape, SameCore
  <2> HIDE DEF r
  <2>2. Plain(r)
    BY <1>2, <2>1
  <2> QED
    BY <2>2 DEF r
<1> QED
  BY <1>2, <1>3, <1>4, <1>5, <1>6, <1>7, <1>8

(* A list that is sound, tiled and has no aligned pebble, with the headers it had
   and none larger. *)
LEMMA PlainList ==
  ASSUME NEW bk, HasShape(bk), Plain(bk), NEW Q, Sound(Q, bk.bytes), Tiled(Q, bk.bytes),
         NoneAligned(Q), DOMAIN bk.list \subseteq DOMAIN Q,
         \A n \in Nat : (\A y \in DOMAIN bk.list : bk.list[y].size <= n) =>
                        \A y \in DOMAIN Q : Q[y].size <= n
  PROVE  Plain([bk EXCEPT !.list = Q]) /\ HasShape([bk EXCEPT !.list = Q])
<1> DEFINE r == [bk EXCEPT !.list = Q]
<1>1. /\ r.bytes = bk.bytes /\ r.list = Q /\ r.first = bk.first /\ r.largest = bk.largest
      /\ HasShape(r)
  BY ListFields, ListShape
<1> HIDE DEF r
<1>2. Capped(r)
  BY <1>1 DEF Plain, Capped
<1>3. Plain(r)
  BY <1>1, <1>2 DEF Plain
<1> QED
  BY <1>1, <1>3 DEF r

(* A new bucket is plain, if no alignment is asked for. *)
LEMMA NewBucketPlain ==
  ASSUME NEW size \in Nat, NEW flags \in SUBSET MallocFlags, "ALIGNED" \notin flags, NEW low
  PROVE  Plain(create_bucket(size, flags, low))
<1> DEFINE r == create_bucket(size, flags, low)
<1>1. Tidy(r) /\ r.list[FirstPebble].size = BucketBytes(size, flags) - BUCKET_SZ - PEBBLE_SZ
  BY NewBucketTidy
<1>2. /\ r.bytes = BucketBytes(size, flags) /\ DOMAIN r.list = {FirstPebble}
      /\ r.list[FirstPebble].next = NULL /\ r.list[FirstPebble].lflags = flags \cap {"ALIGNED"}
  BY DEF create_bucket
<1>3. BucketBytes(size, flags) \in Nat
  BY BucketBytesRange
<1> HIDE DEF r
<1>4. Tiled(r.list, r.bytes)
  BY <1>1, <1>2, <1>3 DEF Tiled, EndOf, Limit, FirstPebble, BUCKET_SZ, PEBBLE_SZ
<1>5. NoneAligned(r.list)
  BY <1>2 DEF NoneAligned
<1> QED
  BY <1>1, <1>4, <1>5 DEF Plain, Tidy, Bounded, Capped, r

(* One bucket's record changes. *)
LEMMA PlainOne ==
  ASSUME NEW bs, AllPlain(bs), NEW b \in DOMAIN bs, NEW bk, Plain(bk),
         NEW cs, cs = [bs EXCEPT ![b] = bk]
  PROVE  AllPlain(cs)
<1>1. /\ DOMAIN cs = DOMAIN bs /\ cs[b] = bk
      /\ \A c \in DOMAIN bs : c # b => cs[c] = bs[c]
  BY ExceptOne
<1> QED
  BY <1>1 DEF AllPlain

(* Nobody who calls asks for alignment, nor has. *)
PlainCalls ==
  /\ \A t \in Threads : "ALIGNED" \notin loc[t].req.flags
  /\ \A k \in live : "ALIGNED" \notin k.req.flags

(* kmalloc and realloc split a pebble. *)
LEMMA PlainSplit ==
  ASSUME ShapeInv, AllPlain(buckets), PlainCalls, NEW t \in Threads, SplitPebble(t)
  PROVE  AllPlain(buckets')
<1>1. PICK b, a, w : b = loc[t].cur /\ a = loc[t].at /\ w = Wanted(loc[t].req)
  OBVIOUS
<1> DEFINE P == buckets[b].list
           Q == SplitPlain(P, a, w.size)
           bk == [buckets[b] EXCEPT !.list = Marked(Q, a, w.lflags)]
<1>2. "ALIGNED" \notin w.lflags
  BY <1>1 DEF PlainCalls, Wanted
<1>3. /\ b \in DOMAIN buckets /\ a \in DOMAIN P
      /\ split_pebble(P, a, w) = [list |-> Q, at |-> a]
  BY <1>1, <1>2 DEF SplitPebble, AtHand, Mapped, split_pebble
<1>4. buckets' = [buckets EXCEPT ![b] = bk]
  BY <1>1, <1>3 DEF SplitPebble, Marked
<1>5. HasShape(buckets[b]) /\ Plain(buckets[b]) /\ buckets[b].bytes \in Nat
  BY <1>3 DEF ShapeInv, BucketsInv, HasShape, AllPlain
<1>6. w.size \in Nat /\ w.lflags \in SUBSET PebbleFlags
  BY <1>1, WantedShape DEF ShapeInv, CallsInv, LocalsShape
<1>7. Sound(P, buckets[b].bytes) /\ Tiled(P, buckets[b].bytes) /\ NoneAligned(P)
  BY <1>5 DEF Plain
<1>8. /\ Sound(Q, buckets[b].bytes) /\ Tiled(Q, buckets[b].bytes) /\ NoneAligned(Q)
      /\ DOMAIN P \subseteq DOMAIN Q
      /\ \A n \in Nat : (\A y \in DOMAIN P : P[y].size <= n) => \A y \in DOMAIN Q : Q[y].size <= n
  BY <1>3, <1>5, <1>6, <1>7, SplitPlainTiles
<1> HIDE DEF Q
<1>9. LET R == Marked(Q, a, w.lflags)
      IN  /\ Sound(R, buckets[b].bytes) /\ Tiled(R, buckets[b].bytes) /\ NoneAligned(R)
          /\ DOMAIN R = DOMAIN Q /\ \A y \in DOMAIN Q : R[y].size = Q[y].size
  BY <1>2, <1>3, <1>5, <1>6, <1>8, MarkTiles
<1>10. Plain(bk)
  BY <1>5, <1>8, <1>9, PlainList
<1> HIDE DEF bk
<1> QED
  BY <1>3, <1>4, <1>10, PlainOne

(* realloc to a smaller size splits one that is in use. *)
LEMMA PlainShrink ==
  ASSUME ShapeInv, AllPlain(buckets), NEW t \in Threads, ShrinkSplit(t)
  PROVE  AllPlain(buckets')
<1>1. PICK b, a, n : b = loc[t].cur /\ a = loc[t].at /\ n = loc[t].req.size
  OBVIOUS
<1> DEFINE P == buckets[b].list
           Q == SplitPlain(P, a, n)
           g == [buckets[b] EXCEPT !.list = Q]
<1>2. /\ b \in DOMAIN buckets /\ a \in DOMAIN P /\ buckets' = [buckets EXCEPT ![b] = Unlocked(g)]
  BY <1>1 DEF ShrinkSplit, AtHand, Mapped, shrink_pebble
<1>3. HasShape(buckets[b]) /\ Plain(buckets[b]) /\ buckets[b].bytes \in Nat
  BY <1>2 DEF ShapeInv, BucketsInv, HasShape, AllPlain
<1>4. n \in Nat
  BY <1>1 DEF ShapeInv, CallsInv, LocalsShape, RequestShape
<1>5. Sound(P, buckets[b].bytes) /\ Tiled(P, buckets[b].bytes) /\ NoneAligned(P)
  BY <1>3 DEF Plain
<1>6. /\ Sound(Q, buckets[b].bytes) /\ Tiled(Q, buckets[b].bytes) /\ NoneAligned(Q)
      /\ DOMAIN P \subseteq DOMAIN Q
      /\ \A m \in Nat : (\A y \in DOMAIN P : P[y].size <= m) => \A y \in DOMAIN Q : Q[y].size <= m
  BY <1>2, <1>3, <1>4, <1>5, SplitPlainTiles
<1> HIDE DEF Q
<1>7. Plain(g) /\ HasShape(g)
  BY <1>3, <1>6, PlainList
<1> HIDE DEF g
<1>8. Plain(Unlocked(g))
  BY <1>7, PlainFields
<1> QED
  BY <1>2, <1>8, PlainOne

(* mfree marks a pebble as free. *)
LEMMA PlainMark ==
  ASSUME ShapeInv, AllPlain(buckets), NEW t \in Threads, FreeMark(t)
  PROVE  AllPlain(buckets')
<1>1. PICK b, a : b = loc[t].cur /\ a = loc[t].at
  OBVIOUS
<1> DEFINE P == buckets[b].list
           bk == [buckets[b] EXCEPT !.list = Marked(P, a, {})]
<1>2. b \in DOMAIN buckets /\ a \in DOMAIN P /\ buckets' = [buckets EXCEPT ![b] = bk]
  BY <1>1 DEF FreeMark, AtHand, Mapped, Marked
<1>3. HasShape(buckets[b]) /\ Plain(buckets[b]) /\ buckets[b].bytes \in Nat
  BY <1>2 DEF ShapeInv, BucketsInv, HasShape, AllPlain
<1>4. Sound(P, buckets[b].bytes) /\ Tiled(P, buckets[b].bytes) /\ NoneAligned(P)
  BY <1>3 DEF Plain
<1>5. LET R == Marked(P, a, {})
      IN  /\ Sound(R, buckets[b].bytes) /\ Tiled(R, buckets[b].bytes) /\ NoneAligned(R)
          /\ DOMAIN R = DOMAIN P /\ \A y \in DOMAIN P : R[y].size = P[y].size
  BY <1>2, <1>3, <1>4, MarkTiles
<1>6. Plain(bk)
  BY <1>3, <1>5, PlainList
<1> HIDE DEF bk
<1> QED
  BY <1>2, <1>6, PlainOne

(* And merges it. *)
LEMMA PlainMerge ==
  ASSUME ShapeInv, AllPlain(buckets), NEW t \in Threads, FreeMelt(t) \/ FreeAbsorb(t)
  PROVE  AllPlain(buckets')
<1>1. PICK b, a : b = loc[t].cur /\ a = loc[t].at
  OBVIOUS
<1>2. b \in DOMAIN buckets /\ a \in DOMAIN buckets[b].list
  BY <1>1 DEF FreeMelt, FreeAbsorb, AtHand, Mapped
<1>3. HasShape(buckets[b]) /\ Plain(buckets[b])
  BY <1>2 DEF ShapeInv, BucketsInv, AllPlain
<1>4. CASE FreeMelt(t)
  <2>1. buckets' = [buckets EXCEPT ![b] = melt_prev(buckets[b], a)]
    BY <1>1, <1>4 DEF FreeMelt
  <2>2. Plain(melt_prev(buckets[b], a))
    BY <1>2, <1>3, MeltPlain
  <2> QED
    BY <1>2, <2>1, <2>2, PlainOne
<1>5. CASE FreeAbsorb(t)
  <2>1. buckets' = [buckets EXCEPT ![b] = Unlocked(absorb_next(buckets[b], a))]
    BY <1>1, <1>5 DEF FreeAbsorb
  <2>2. Plain(absorb_next(buckets[b], a)) /\ HasShape(absorb_next(buckets[b], a))
    BY <1>2, <1>3, AbsorbPlain, AbsorbShape
  <2>3. Plain(Unlocked(absorb_next(buckets[b], a)))
    BY <2>2, PlainFields
  <2> QED
    BY <1>2, <2>1, <2>3, PlainOne
<1> QED
  BY <1>4, <1>5

(* A step that writes fields of one record, or nothing. *)
LEMMA PlainSame ==
  ASSUME AllPlain(buckets), buckets' = buckets
  PROVE  AllPlain(buckets')
  OBVIOUS

(* kmalloc's own writes to a bucket it has found or made. *)
LEMMA PlainKmalloc ==
  ASSUME ShapeInv, AllPlain(buckets), NEW t \in Threads,
         WalkTry(t) \/ WalkFirst(t) \/ NewTry(t) \/ NewLargest(t) \/ NewFirstStore(t)
  PROVE  AllPlain(buckets')
<1>1. PICK b, a, w : b = loc[t].cur /\ a = loc[t].at /\ w = Wanted(loc[t].req)
  OBVIOUS
<1>2. b \in DOMAIN buckets
  BY <1>1 DEF WalkTry, WalkFirst, NewTry, NewLargest, NewFirstStore, AtHand, Mapped
<1>3. HasShape(buckets[b]) /\ Plain(buckets[b])
  BY <1>2 DEF ShapeInv, BucketsInv, AllPlain
<1>4. w.size \in Nat
  BY <1>1, WantedShape DEF ShapeInv, CallsInv, LocalsShape
<1>5. Plain(Unlocked(buckets[b]))
  BY <1>3, PlainFields
<1>6. Plain(Unlocked(bucket_update_largest(buckets[b], w.size)))
  <2>1. Plain(bucket_update_largest(buckets[b], w.size))
    BY <1>3, <1>4, PlainFields
  <2>2. HasShape(bucket_update_largest(buckets[b], w.size))
    BY <1>3, UpdateLargestShape
  <2> QED
    BY <2>1, <2>2, PlainFields
<1>7. CASE WalkTry(t)
  <2>1. buckets' = buckets \/ buckets' = [buckets EXCEPT ![b] = Unlocked(buckets[b])]
    BY <1>1, <1>7 DEF WalkTry, Found, FoundNever
  <2> QED
    BY <1>2, <1>5, <2>1, PlainOne
<1>8. CASE WalkFirst(t)
  <2> DEFINE f == [buckets[b] EXCEPT !.first = buckets[b].list[a].next]
             r == Unlocked(bucket_update_largest(f, w.size))
  <2>1. a \in DOMAIN buckets[b].list /\ buckets' = [buckets EXCEPT ![b] = r]
    BY <1>1, <1>8 DEF WalkFirst, AtHand
  <2>2. Plain(f) /\ HasShape(f)
    BY <1>3, <2>1, PlainFields, FirstShape
  <2> HIDE DEF f
  <2>3. Plain(bucket_update_largest(f, w.size)) /\ HasShape(bucket_update_largest(f, w.size))
    BY <1>4, <2>2, PlainFields, UpdateLargestShape
  <2>4. Plain(r)
    BY <2>3, PlainFields
  <2> HIDE DEF r
  <2> QED
    BY <1>2, <2>1, <2>4, PlainOne
<1>9. CASE NewTry(t)
  <2>1. \/ buckets' = buckets
        \/ buckets' = [buckets EXCEPT ![b] = Unlocked(bucket_update_largest(buckets[b], w.size))]
    BY <1>1, <1>9 DEF NewTry, Found, FoundNever
  <2> QED
    BY <1>2, <1>6, <2>1, PlainOne
<1>10. CASE NewLargest(t)
  <2>1. buckets' = [buckets EXCEPT ![b] = Unlocked(bucket_update_largest(buckets[b], w.size))]
    BY <1>1, <1>10 DEF NewLargest
  <2> QED
    BY <1>2, <1>6, <2>1, PlainOne
<1>11. CASE NewFirstStore(t)
  <2> DEFINE f == [buckets[b] EXCEPT !.first = loc[t].reg]
  <2>1. buckets' = [buckets EXCEPT ![b] = f]
    BY <1>1, <1>11 DEF NewFirstStore
  <2>2. Plain(f)
    BY <1>3, <2>1, PlainFields
  <2> HIDE DEF f
  <2> QED
    BY <1>2, <2>1, <2>2, PlainOne
<1> QED
  BY <1>7, <1>8, <1>9, <1>10, <1>11

(* A bucket is made, linked, unlinked and given back. *)
LEMMA PlainBuckets ==
  ASSUME ShapeInv, AllPlain(buckets), PlainCalls, NEW t \in Threads,
         SpinLock(t) \/ CreateBucket(t) \/ InsertLink(t) \/ WalkLargest(t)
           \/ RemovePrev(t) \/ RemoveNext(t) \/ RemoveUnmap(t)
  PROVE  AllPlain(buckets')
<1>1. \A b \in DOMAIN buckets : HasShape(buckets[b]) /\ Plain(buckets[b])
  BY DEF ShapeInv, BucketsInv, AllPlain
<1>2. CASE SpinLock(t)
  <2>1. PICK b : b = LockOf(t)
    OBVIOUS
  <2>2. /\ b \in DOMAIN buckets
        /\ buckets' = [buckets EXCEPT ![b] = [buckets[b] EXCEPT !.spinlock = 1]]
    BY <1>2, <2>1 DEF SpinLock, Mapped
  <2>3. Plain([buckets[b] EXCEPT !.spinlock = 1])
    BY <1>1, <2>2, PlainFields
  <2> QED
    BY <2>2, <2>3, PlainOne
<1>3. CASE CreateBucket(t)
  <2>1. CASE buckets' = buckets
    BY <2>1
  <2>2. CASE buckets' # buckets
    <3> DEFINE size == NewBucketSize(loc[t].req)
               flags == loc[t].req.flags
    <3>1. PICK b \in BucketIds \ DOMAIN buckets, low \in BOOLEAN :
            buckets' = [x \in DOMAIN buckets \cup {b} |->
                         IF x = b THEN create_bucket(size, flags, low) ELSE buckets[x]]
      BY <1>3, <2>2 DEF CreateBucket
    <3>2. loc[t].req \in RequestShape
      BY DEF ShapeInv, CallsInv, LocalsShape
    <3>3. size \in Nat /\ flags \in SUBSET MallocFlags /\ "ALIGNED" \notin flags
      BY <3>2, NewBucketSizeNat DEF RequestShape, PlainCalls
    <3> HIDE DEF size, flags
    <3>4. Plain(create_bucket(size, flags, low))
      BY <3>3, NewBucketPlain
    <3> QED
      BY <1>1, <3>1, <3>4 DEF AllPlain
  <2> QED
    BY <2>1, <2>2
<1>4. CASE InsertLink(t)
  <2>1. PICK b, n : b = loc[t].cur /\ n = buckets[KernelHeap].next
    OBVIOUS
  <2>2. buckets' = [x \in DOMAIN buckets |->
          CASE x = b          -> [buckets[b] EXCEPT !.next = n, !.prev = KernelHeap]
            [] x = KernelHeap -> Unlocked([buckets[x] EXCEPT !.next = b])
            [] x = n          -> [buckets[x] EXCEPT !.prev = b]
            [] OTHER          -> buckets[x]]
    BY <1>4, <2>1 DEF InsertLink
  <2>3. ASSUME NEW x \in DOMAIN buckets PROVE Plain(buckets'[x])
    <3>1. HasShape(buckets[x]) /\ Plain(buckets[x])
      BY <1>1
    <3>2. Plain([buckets[x] EXCEPT !.next = b]) /\ HasShape([buckets[x] EXCEPT !.next = b])
      <4>1. Plain([buckets[x] EXCEPT !.next = b])
        BY <3>1, PlainFields
      <4>2. b \in BucketIds \/ b = NULL
        BY <2>1 DEF ShapeInv, CallsInv, LocalsShape
      <4>3. HasShape([buckets[x] EXCEPT !.next = b])
        BY <3>1, <4>2 DEF HasShape
      <4> QED
        BY <4>1, <4>3
    <3>3. x = KernelHeap => Plain(Unlocked([buckets[x] EXCEPT !.next = b]))
      BY <3>2, PlainFields
    <3>4. Plain([buckets[x] EXCEPT !.next = n, !.prev = KernelHeap])
      BY <3>1, PlainFields
    <3>5. Plain([buckets[x] EXCEPT !.prev = b])
      BY <3>1, PlainFields
    <3>6. PICK r1, r2, r3 : /\ r1 = [buckets[b] EXCEPT !.next = n, !.prev = KernelHeap]
                            /\ r2 = Unlocked([buckets[x] EXCEPT !.next = b])
                            /\ r3 = [buckets[x] EXCEPT !.prev = b]
      OBVIOUS
    <3>7. buckets'[x] = CASE x = b          -> r1
                          [] x = KernelHeap -> r2
                          [] x = n          -> r3
                          [] OTHER          -> buckets[x]
      BY <2>2, <3>6
    <3>8. /\ x = b => Plain(r1)
          /\ x = KernelHeap => Plain(r2)
          /\ Plain(r3) /\ Plain(buckets[x])
      BY <3>1, <3>3, <3>4, <3>5, <3>6
    <3> QED
      BY <3>7, <3>8
  <2>4. DOMAIN buckets' = DOMAIN buckets
    BY <2>2
  <2> QED
    BY <2>3, <2>4 DEF AllPlain
<1>5. CASE WalkLargest(t)
  <2>1. PICK b, a : b = loc[t].cur /\ a = loc[t].at
    OBVIOUS
  <2> DEFINE n == buckets[b].list[a].size
  <2>2. /\ b \in DOMAIN buckets
        /\ \/ buckets' = buckets
           \/ /\ a \in DOMAIN buckets[b].list
              /\ buckets' = [buckets EXCEPT ![b] = bucket_update_largest(buckets[b], n)]
    BY <1>5, <2>1 DEF WalkLargest, AtHand, Mapped
  <2>3. a \in DOMAIN buckets[b].list => n \in Nat
    BY <1>1, <2>2 DEF Plain, Sound, IsList, Pebble
  <2> HIDE DEF n
  <2>4. n \in Nat => Plain(bucket_update_largest(buckets[b], n))
    BY <1>1, <2>2, PlainFields
  <2> QED
    BY <2>2, <2>3, <2>4, PlainOne
<1>6. CASE RemovePrev(t)
  <2>1. PICK b, p : b = loc[t].cur /\ p = buckets[b].prev
    OBVIOUS
  <2>2. \/ buckets' = buckets
        \/ /\ p \in DOMAIN buckets
           /\ buckets' = [buckets EXCEPT ![p] = [buckets[p] EXCEPT !.next = buckets[b].next]]
    BY <1>6, <2>1 DEF RemovePrev, Mapped
  <2>3. p \in DOMAIN buckets => Plain([buckets[p] EXCEPT !.next = buckets[b].next])
    BY <1>1, PlainFields
  <2> QED
    BY <2>2, <2>3, PlainOne
<1>7. CASE RemoveNext(t)
  <2>1. PICK b, n : b = loc[t].cur /\ n = buckets[b].next
    OBVIOUS
  <2>2. \/ buckets' = buckets
        \/ /\ n \in DOMAIN buckets
           /\ buckets' = [buckets EXCEPT ![n] = [buckets[n] EXCEPT !.prev = buckets[b].prev]]
    BY <1>7, <2>1 DEF RemoveNext, Mapped
  <2>3. n \in DOMAIN buckets => Plain([buckets[n] EXCEPT !.prev = buckets[b].prev])
    BY <1>1, PlainFields
  <2> QED
    BY <2>2, <2>3, PlainOne
<1>8. CASE RemoveUnmap(t)
  BY <1>8 DEF RemoveUnmap, AllPlain
<1> QED
  BY <1>2, <1>3, <1>4, <1>5, <1>6, <1>7, <1>8

(* So every step leaves every bucket plain. *)
LEMMA PlainStep ==
  ASSUME ShapeInv, AllPlain(buckets), PlainCalls, NEW t \in Threads, Step(t) \/ Call(t)
  PROVE  AllPlain(buckets')
<1>1. CASE \/ WalkNext(t) \/ NewFirst(t) \/ FreeCheck(t) \/ LoadFirst(t) \/ TestFirst(t)
           \/ Wild(t) \/ Call(t)
  BY <1>1 DEF WalkNext, NewFirst, FreeCheck, LoadFirst, TestFirst, Wild, Call, Kmalloc, Mfree,
     ReallocShrink, ReallocGrow
<1> QED
  BY <1>1, PlainSplit, PlainShrink, PlainMark, PlainMerge, PlainKmalloc, PlainBuckets DEF Step

-----------------------------------------------------------------------------
(* What a step does with the requests and the offsets of the threads *)

(* What a return of kmalloc leaves of the locals of t, and adds to live. *)
LEMMA KmallocLeaves ==
  ASSUME ShapeInv, NEW t \in Threads, NEW p, KmallocReturns(t, p)
  PROVE  /\ Others(t)
         /\ \/ loc'[t] = NoLocals
            \/ /\ loc'[t].req = loc[t].req /\ loc'[t].at = loc[t].old.at
               /\ loc'[t].reg = loc[t].reg
               /\ loc[t].old # NULL /\ loc'[t].old = loc[t].old /\ loc'[t].ret = p
         /\ \A k \in live' : k \in live \/ (k = Handed(t, p) /\ p # NULL)
<1>1. DOMAIN pc = Threads /\ DOMAIN loc = Threads /\ LocalsShape(loc[t])
  BY DEF ShapeInv, CallsInv
<1>2. CASE loc[t].op = "realloc" /\ loc[t].old # NULL
  <2> DEFINE x == [loc[t] EXCEPT !.cur = loc[t].old.b, !.at = loc[t].old.at, !.ret = p]
  <2>1. Goto(t, "f_lock") /\ loc' = [loc EXCEPT ![t] = x] /\ live' = live
    BY <1>2 DEF KmallocReturns
  <2>2. /\ x.req = loc[t].req /\ x.at = loc[t].old.at /\ x.reg = loc[t].reg
        /\ x.old = loc[t].old /\ x.ret = p
    BY <1>1 DEF LocalsShape
  <2> HIDE DEF x
  <2> QED
    BY <1>1, <1>2, <2>1, <2>2 DEF Others, Goto
<1>3. CASE ~(loc[t].op = "realloc" /\ loc[t].old # NULL)
  <2>1. /\ Goto(t, "idle") /\ loc' = [loc EXCEPT ![t] = NoLocals]
        /\ live' = IF p = NULL THEN live ELSE live \cup {Handed(t, p)}
    BY <1>3 DEF KmallocReturns
  <2> QED
    BY <1>1, <2>1 DEF Others, Goto
<1> QED
  BY <1>2, <1>3

(* low and first are of their type. *)
Known(bk)    == bk.low \in BOOLEAN /\ bk.first \in Nat \cup {NULL}
LowKnown(bs) == \A b \in DOMAIN bs : Known(bs[b])

(* Every list is a list. *)
AllLists(bs) == \A b \in DOMAIN bs : IsList(bs[b].list) /\ bs[b].largest \in Nat

(* One bucket's record changes. *)
LEMMA LowOne ==
  ASSUME NEW bs, LowKnown(bs), NEW b \in DOMAIN bs, NEW bk, Known(bk),
         NEW cs, cs = [bs EXCEPT ![b] = bk]
  PROVE  LowKnown(cs)
<1>1. /\ DOMAIN cs = DOMAIN bs /\ cs[b] = bk
      /\ \A c \in DOMAIN bs : c # b => cs[c] = bs[c]
  BY ExceptOne
<1> QED
  BY <1>1 DEF LowKnown

(* The updates of a record leave low as it was, and first unless it is what they
   write. *)
LEMMA LowFields ==
  ASSUME NEW bk, HasShape(bk), Known(bk)
  PROVE  /\ Known(Unlocked(bk)) /\ Known([bk EXCEPT !.spinlock = 1])
         /\ \A n : Known(bucket_update_largest(bk, n))
         /\ \A n \in Nat \cup {NULL} : Known([bk EXCEPT !.first = n])
         /\ \A n : /\ Known([bk EXCEPT !.next = n])
                   /\ Known([bk EXCEPT !.prev = n])
                   /\ Known([bk EXCEPT !.list = n])
         /\ \A n, p : Known([bk EXCEPT !.next = n, !.prev = p])
  BY DEF HasShape, Unlocked, bucket_update_largest, Known

(* absorb_next and melt_prev write an offset of the list to first. *)
LEMMA AbsorbKnown ==
  ASSUME NEW bk, HasShape(bk), Known(bk), IsList(bk.list), NEW a \in DOMAIN bk.list
  PROVE  /\ Known(absorb_next(bk, a)) /\ HasShape(absorb_next(bk, a))
         /\ Known(melt_prev(bk, a)) /\ HasShape(melt_prev(bk, a))
<1>1. ASSUME NEW c \in Nat PROVE Known(absorb_next(bk, c)) /\ HasShape(absorb_next(bk, c))
  <2> DEFINE n == bk.list[c].next
             s == [bk EXCEPT !.list  = SwallowNext(bk.list, c),
                             !.first = IF @ = n THEN c ELSE @]
             z == bk.list[c].size + bk.list[n].size + PEBBLE_SZ
  <2>1. HasShape(s) /\ Known(s)
    BY <1>1 DEF HasShape, Known
  <2>2. absorb_next(bk, c) = bk \/ absorb_next(bk, c) = bucket_update_largest(s, z)
    BY DEF absorb_next
  <2> HIDE DEF s, z
  <2>3. Known(bucket_update_largest(s, z))
    BY <2>1, LowFields
  <2> QED
    BY <2>2, <2>3, AbsorbShape
<1>2. a \in Nat /\ (bk.list[a].prev # NULL => bk.list[a].prev \in Nat)
  BY DEF IsList, Pebble
<1>3. CASE bk.list[a].prev # NULL
  <2>1. melt_prev(bk, a) = absorb_next(bk, bk.list[a].prev)
    BY <1>3 DEF melt_prev
  <2> QED
    BY <1>1, <1>2, <1>3, <2>1
<1>4. CASE bk.list[a].prev = NULL
  BY <1>1, <1>2, <1>4 DEF melt_prev
<1> QED
  BY <1>3, <1>4

(* The steps that write one bucket and link none. *)
LEMMA LowInside ==
  ASSUME ShapeInv, AllLists(buckets), LowKnown(buckets), NEW t \in Threads,
         loc[t].reg \in Nat \cup {NULL},
         \/ SplitPebble(t) \/ ShrinkSplit(t) \/ FreeMark(t) \/ FreeMelt(t) \/ FreeAbsorb(t)
         \/ WalkTry(t) \/ WalkFirst(t) \/ NewTry(t) \/ NewLargest(t)
         \/ NewFirstStore(t) \/ WalkLargest(t)
  PROVE  LowKnown(buckets')
<1>1. PICK b, a : b = loc[t].cur /\ a = loc[t].at
  OBVIOUS
<1>2. b \in DOMAIN buckets
  BY <1>1 DEF SplitPebble, ShrinkSplit, FreeMark, FreeMelt, FreeAbsorb, WalkTry, WalkFirst,
     NewTry, NewLargest, NewFirstStore, WalkLargest, AtHand, Mapped
<1> DEFINE bk == buckets[b]
           Same(r) == Known(r) /\ HasShape(r)
<1>3. HasShape(bk) /\ Known(bk) /\ IsList(bk.list)
  BY <1>2 DEF ShapeInv, BucketsInv, LowKnown, AllLists
<1>4. /\ \A r : Same(r) => Same(Unlocked(r)) /\ \A n : Same(bucket_update_largest(r, n))
      /\ \A n \in Nat \cup {NULL} : Same([bk EXCEPT !.first = n])
      /\ \A n : Same([bk EXCEPT !.list = n])
  <2>1. ASSUME NEW r, Same(r) PROVE Same(Unlocked(r))
    BY <2>1, LowFields, UnlockedShape
  <2>2. ASSUME NEW r, Same(r), NEW n PROVE Same(bucket_update_largest(r, n))
    BY <2>2, LowFields, UpdateLargestShape
  <2>4. ASSUME NEW n \in Nat \cup {NULL} PROVE Same([bk EXCEPT !.first = n])
    BY <1>3, LowFields, FirstShape
  <2>5. ASSUME NEW n PROVE Same([bk EXCEPT !.list = n])
    BY <1>3, LowFields, ListShape
  <2> HIDE DEF Same
  <2> QED
    BY <2>1, <2>2, <2>4, <2>5
<1>5. a \in DOMAIN bk.list => Same(absorb_next(bk, a)) /\ Same(melt_prev(bk, a))
  BY <1>3, AbsorbKnown
<1>6. ASSUME NEW r, Same(r), buckets' = [buckets EXCEPT ![b] = r]
      PROVE  LowKnown(buckets')
  BY <1>2, <1>6, LowOne
<1> DEFINE w == Wanted(loc[t].req)
<1>7. CASE SplitPebble(t)
  <2> DEFINE s == split_pebble(bk.list, a, w)
             Q == [s.list EXCEPT ![s.at].lflags = w.lflags]
  <2>1. buckets' = [buckets EXCEPT ![b] = [bk EXCEPT !.list = Q]]
    BY <1>1, <1>7 DEF SplitPebble
  <2> HIDE DEF Q
  <2>2. Same([bk EXCEPT !.list = Q])
    BY <1>4
  <2> QED
    BY <1>6, <2>1, <2>2
<1>8. CASE ShrinkSplit(t)
  <2> DEFINE Q == SplitPlain(bk.list, a, loc[t].req.size)
  <2>1. buckets' = [buckets EXCEPT ![b] = Unlocked([bk EXCEPT !.list = Q])]
    BY <1>1, <1>8 DEF ShrinkSplit, shrink_pebble
  <2> HIDE DEF Q
  <2>2. Same(Unlocked([bk EXCEPT !.list = Q]))
    BY <1>4
  <2> QED
    BY <1>6, <2>1, <2>2
<1>9. CASE FreeMark(t)
  <2> DEFINE Q == [bk.list EXCEPT ![a].lflags = {}]
  <2>1. buckets' = [buckets EXCEPT ![b] = [bk EXCEPT !.list = Q]]
    BY <1>1, <1>9 DEF FreeMark
  <2> HIDE DEF Q
  <2>2. Same([bk EXCEPT !.list = Q])
    BY <1>4
  <2> QED
    BY <1>6, <2>1, <2>2
<1>10. CASE FreeMelt(t)
  BY <1>1, <1>5, <1>6, <1>10 DEF FreeMelt, AtHand
<1>11. CASE FreeAbsorb(t)
  BY <1>1, <1>4, <1>5, <1>6, <1>11 DEF FreeAbsorb, AtHand
<1>12. CASE WalkTry(t)
  <2>1. buckets' = buckets \/ buckets' = [buckets EXCEPT ![b] = Unlocked(bk)]
    BY <1>1, <1>12 DEF WalkTry, Found, FoundNever
  <2> QED
    BY <1>3, <1>4, <1>6, <2>1
<1>13. CASE WalkFirst(t)
  <2> DEFINE f == [bk EXCEPT !.first = bk.list[a].next]
  <2>1. buckets' = [buckets EXCEPT ![b] = Unlocked(bucket_update_largest(f, w.size))]
    BY <1>1, <1>13 DEF WalkFirst
  <2>2. bk.list[a].next \in Nat \cup {NULL}
    BY <1>1, <1>3, <1>13 DEF WalkFirst, AtHand, IsList, Pebble
  <2>4. Same(f)
    BY <1>4, <2>2
  <2> HIDE DEF f
  <2>3. Same(bucket_update_largest(f, w.size))
    BY <1>4, <2>4
  <2> QED
    BY <1>4, <1>6, <2>1, <2>3
<1>14. CASE NewTry(t) \/ NewLargest(t)
  <2>1. \/ buckets' = buckets
        \/ buckets' = [buckets EXCEPT ![b] = Unlocked(bucket_update_largest(bk, w.size))]
    BY <1>1, <1>14 DEF NewTry, Found, FoundNever, NewLargest
  <2>2. Same(bk)
    BY <1>3
  <2>3. Same(bucket_update_largest(bk, w.size))
    BY <1>4, <2>2
  <2> QED
    BY <1>4, <1>6, <2>1, <2>3
<1>15. CASE NewFirstStore(t)
  <2>1. buckets' = [buckets EXCEPT ![b] = [bk EXCEPT !.first = loc[t].reg]]
    BY <1>1, <1>15 DEF NewFirstStore
  <2> QED
    BY <1>4, <1>6, <2>1
<1>16. CASE WalkLargest(t)
  <2> DEFINE n == bk.list[a].size
  <2>1. buckets' = buckets \/ buckets' = [buckets EXCEPT ![b] = bucket_update_largest(bk, n)]
    BY <1>1, <1>16 DEF WalkLargest
  <2> HIDE DEF n
  <2> QED
    BY <1>3, <1>4, <1>6, <2>1
<1> QED
  BY <1>7, <1>8, <1>9, <1>10, <1>11, <1>12, <1>13, <1>14, <1>15, <1>16

(* And those that make, link and unlink buckets. *)
LEMMA LowOutside ==
  ASSUME ShapeInv, LowKnown(buckets), NEW t \in Threads,
         SpinLock(t) \/ CreateBucket(t) \/ InsertLink(t) \/ RemovePrev(t) \/ RemoveNext(t)
           \/ RemoveUnmap(t)
  PROVE  LowKnown(buckets')
<1>1. \A b \in DOMAIN buckets : HasShape(buckets[b]) /\ Known(buckets[b])
  BY DEF ShapeInv, BucketsInv, LowKnown
<1>2. CASE SpinLock(t)
  <2>1. PICK b : b = LockOf(t)
    OBVIOUS
  <2>2. /\ b \in DOMAIN buckets
        /\ buckets' = [buckets EXCEPT ![b] = [buckets[b] EXCEPT !.spinlock = 1]]
    BY <1>2, <2>1 DEF SpinLock, Mapped
  <2>3. Known([buckets[b] EXCEPT !.spinlock = 1])
    BY <1>1, <2>2, LowFields
  <2> QED
    BY <2>2, <2>3, LowOne
<1>3. CASE CreateBucket(t)
  <2>1. CASE buckets' = buckets
    BY <2>1
  <2>2. CASE buckets' # buckets
    <3>1. PICK b \in BucketIds \ DOMAIN buckets, low \in BOOLEAN :
            buckets' = [x \in DOMAIN buckets \cup {b} |->
                         IF x = b
                         THEN create_bucket(NewBucketSize(loc[t].req), loc[t].req.flags, low)
                         ELSE buckets[x]]
      BY <1>3, <2>2 DEF CreateBucket
    <3>2. Known(create_bucket(NewBucketSize(loc[t].req), loc[t].req.flags, low))
      BY DEF create_bucket, Known, FirstPebble, BUCKET_SZ
    <3> QED
      BY <1>1, <3>1, <3>2 DEF LowKnown
  <2> QED
    BY <2>1, <2>2
<1>4. CASE InsertLink(t)
  <2>1. PICK b, n : b = loc[t].cur /\ n = buckets[KernelHeap].next
    OBVIOUS
  <2>2. buckets' = [x \in DOMAIN buckets |->
          CASE x = b          -> [buckets[b] EXCEPT !.next = n, !.prev = KernelHeap]
            [] x = KernelHeap -> Unlocked([buckets[x] EXCEPT !.next = b])
            [] x = n          -> [buckets[x] EXCEPT !.prev = b]
            [] OTHER          -> buckets[x]]
    BY <1>4, <2>1 DEF InsertLink
  <2>3. ASSUME NEW x \in DOMAIN buckets PROVE Known(buckets'[x])
    <3>1. PICK r1, r2, r3 : /\ r1 = [buckets[b] EXCEPT !.next = n, !.prev = KernelHeap]
                            /\ r2 = Unlocked([buckets[x] EXCEPT !.next = b])
                            /\ r3 = [buckets[x] EXCEPT !.prev = b]
      OBVIOUS
    <3>2. buckets'[x] = CASE x = b          -> r1
                          [] x = KernelHeap -> r2
                          [] x = n          -> r3
                          [] OTHER          -> buckets[x]
      BY <2>2, <3>1
    <3>3. (x = b => Known(r1)) /\ Known(r3) /\ Known(buckets[x])
      BY <1>1, <3>1, LowFields
    <3>4. Known(r2)
      <4>1. b \in BucketIds \cup {NULL}
        BY <2>1 DEF ShapeInv, CallsInv, LocalsShape
      <4>2. HasShape([buckets[x] EXCEPT !.next = b])
        BY <1>1, <4>1 DEF HasShape
      <4>3. Known([buckets[x] EXCEPT !.next = b])
        BY <1>1, LowFields
      <4>4. PICK r : r = [buckets[x] EXCEPT !.next = b]
        OBVIOUS
      <4>5. HasShape(r) /\ Known(r)
        BY <1>1, <4>2, <4>3, <4>4
      <4>6. Known(Unlocked(r))
        BY <4>5, LowFields
      <4> QED
        BY <3>1, <4>4, <4>5, <4>6
    <3> QED
      BY <3>2, <3>3, <3>4
  <2>4. DOMAIN buckets' = DOMAIN buckets
    BY <2>2
  <2> QED
    BY <2>3, <2>4 DEF LowKnown
<1>5. CASE RemovePrev(t)
  <2>1. PICK b, p : b = loc[t].cur /\ p = buckets[b].prev
    OBVIOUS
  <2>2. \/ buckets' = buckets
        \/ /\ p \in DOMAIN buckets
           /\ buckets' = [buckets EXCEPT ![p] = [buckets[p] EXCEPT !.next = buckets[b].next]]
    BY <1>5, <2>1 DEF RemovePrev, Mapped
  <2>3. p \in DOMAIN buckets => Known([buckets[p] EXCEPT !.next = buckets[b].next])
    BY <1>1, LowFields
  <2> QED
    BY <2>2, <2>3, LowOne
<1>6. CASE RemoveNext(t)
  <2>1. PICK b, n : b = loc[t].cur /\ n = buckets[b].next
    OBVIOUS
  <2>2. \/ buckets' = buckets
        \/ /\ n \in DOMAIN buckets
           /\ buckets' = [buckets EXCEPT ![n] = [buckets[n] EXCEPT !.prev = buckets[b].prev]]
    BY <1>6, <2>1 DEF RemoveNext, Mapped
  <2>3. n \in DOMAIN buckets => Known([buckets[n] EXCEPT !.prev = buckets[b].prev])
    BY <1>1, LowFields
  <2> QED
    BY <2>2, <2>3, LowOne
<1>7. CASE RemoveUnmap(t)
  BY <1>7 DEF RemoveUnmap, LowKnown
<1> QED
  BY <1>2, <1>3, <1>4, <1>5, <1>6, <1>7

(* So both stay of their type in every bucket. *)
LEMMA LowStep ==
  ASSUME ShapeInv, AllLists(buckets), LowKnown(buckets), NEW t \in Threads,
         loc[t].reg \in Nat \cup {NULL}, Step(t) \/ Call(t)
  PROVE  LowKnown(buckets')
<1>1. CASE \/ WalkNext(t) \/ NewFirst(t) \/ FreeCheck(t) \/ LoadFirst(t) \/ TestFirst(t)
           \/ Wild(t) \/ Call(t)
  BY <1>1 DEF WalkNext, NewFirst, FreeCheck, LoadFirst, TestFirst, Wild, Call, Kmalloc, Mfree,
     ReallocShrink, ReallocGrow
<1> QED
  BY <1>1, LowInside, LowOutside DEF Step

-----------------------------------------------------------------------------
(* The offsets and the requests in the locals and in the blocks *)

(* The locals of t are the same but for bucket, pebble and what was loaded, and nobody
   gets a block. *)
Keeps(t) == /\ Others(t) /\ live' = live
            /\ loc'[t].req = loc[t].req /\ loc'[t].old = loc[t].old /\ loc'[t].ret = loc[t].ret

(* What can become of 'pebble': place_pebble finds one, split_pebble moves it,
   melt_prev goes to the one before, mfree looks at bucket->first, and the walk for
   largest goes on from the first to the last. *)
NewAt(t) ==
  LET bk == buckets[loc[t].cur]
      w  == Wanted(loc[t].req)
      at == loc'[t].at
  IN  \/ at = loc[t].at
      \/ Mapped(loc[t].cur) /\ Fitting(bk, w) # {} /\ at = FirstFound(bk, w)
      \/ AtHand(t) /\ at = split_pebble(bk.list, loc[t].at, w).at
      \/ AtHand(t) /\ at = MeltedInto(bk, loc[t].at)
      \/ Mapped(loc[t].cur) /\ bk.first # NULL /\ at = bk.first
      \/ at = FirstPebble
      \/ AtHand(t) /\ bk.list[loc[t].at].next # NULL /\ at = bk.list[loc[t].at].next
      \/ Mapped(loc[t].cur) /\ at \in DOMAIN bk.list

(* And of what is to be stored. *)
NewReg(t) ==
  \/ loc'[t].reg = loc[t].reg
  \/ AtHand(t) /\ loc'[t].reg = buckets[loc[t].cur].list[loc[t].at].next

(* The call is over, and its caller has what it returned. *)
Over(t) == /\ Others(t) /\ loc'[t] = NoLocals
           /\ \A k \in live' : \/ k \in live
                               \/ k = Handed(t, loc[t].ret) /\ loc[t].ret # NULL
                               \/ k = Handed(t, Here(loc[t]))

(* Changing one thread's locals. *)
LEMMA OnlyLocals ==
  ASSUME ShapeInv, NEW t \in Threads, NEW l, Goto(t, l), NEW x, loc' = [loc EXCEPT ![t] = x]
  PROVE  Others(t) /\ loc'[t] = x
  BY DEF ShapeInv, CallsInv, Goto, Others

(* The steps that go on with the call. *)
LEMMA GoesOn ==
  ASSUME ShapeInv, NEW t \in Threads,
         \/ WalkTry(t) \/ SplitPebble(t) \/ WalkNext(t) \/ InsertLink(t) \/ NewLargest(t)
         \/ SpinLock(t) \/ FreeMark(t) \/ FreeMelt(t) \/ FreeAbsorb(t)
         \/ NewFirst(t) \/ LoadFirst(t) \/ TestFirst(t)
         \/ RemovePrev(t) \/ RemoveNext(t) \/ Wild(t)
  PROVE  UNCHANGED <<loc, live>> \/ (Keeps(t) /\ NewAt(t) /\ NewReg(t))
<1>1. LocalsShape(loc[t])
  BY DEF ShapeInv, CallsInv
<1>2. /\ \A n : LET x == [loc[t] EXCEPT !.at = n]
                IN  /\ x.req = loc[t].req /\ x.old = loc[t].old /\ x.ret = loc[t].ret
                    /\ x.at = n /\ x.reg = loc[t].reg
      /\ \A n : LET x == [loc[t] EXCEPT !.cur = n]
                IN  /\ x.req = loc[t].req /\ x.old = loc[t].old /\ x.ret = loc[t].ret
                    /\ x.at = loc[t].at /\ x.reg = loc[t].reg
      /\ \A n : LET x == [loc[t] EXCEPT !.reg = n]
                IN  /\ x.req = loc[t].req /\ x.old = loc[t].old /\ x.ret = loc[t].ret
                    /\ x.at = loc[t].at /\ x.reg = n
  BY <1>1 DEF LocalsShape
<1>3. ASSUME NEW l, NEW n, Goto(t, l), loc' = [loc EXCEPT ![t] = [loc[t] EXCEPT !.at = n]],
             live' = live
      PROVE  Keeps(t) /\ NewReg(t) /\ loc'[t].at = n
  <2> DEFINE x == [loc[t] EXCEPT !.at = n]
  <2>1. loc' = [loc EXCEPT ![t] = x]
    BY <1>3
  <2>2. /\ x.req = loc[t].req /\ x.old = loc[t].old /\ x.ret = loc[t].ret /\ x.at = n
        /\ x.reg = loc[t].reg
    BY <1>2
  <2> HIDE DEF x
  <2>3. Others(t) /\ loc'[t] = x
    BY <1>3, <2>1, OnlyLocals
  <2> QED
    BY <1>3, <2>2, <2>3 DEF Keeps, NewReg
<1>4. ASSUME NEW l, NEW n, Goto(t, l), loc' = [loc EXCEPT ![t] = [loc[t] EXCEPT !.cur = n]],
             live' = live
      PROVE  Keeps(t) /\ NewReg(t) /\ loc'[t].at = loc[t].at
  <2> DEFINE x == [loc[t] EXCEPT !.cur = n]
  <2>1. loc' = [loc EXCEPT ![t] = x]
    BY <1>4
  <2>2. /\ x.req = loc[t].req /\ x.old = loc[t].old /\ x.ret = loc[t].ret
        /\ x.at = loc[t].at /\ x.reg = loc[t].reg
    BY <1>2
  <2> HIDE DEF x
  <2>3. Others(t) /\ loc'[t] = x
    BY <1>4, <2>1, OnlyLocals
  <2> QED
    BY <1>4, <2>2, <2>3 DEF Keeps, NewReg
<1>5. CASE WalkTry(t)
  <2>1. \/ UNCHANGED <<loc, live>>
        \/ Mapped(loc[t].cur) /\ Found(t, "k_split")
    BY <1>5 DEF WalkTry, FoundNever
  <2> QED
    BY <1>3, <2>1 DEF Found, NewAt
<1>6. CASE SplitPebble(t)
  <2> DEFINE n == split_pebble(buckets[loc[t].cur].list, loc[t].at, Wanted(loc[t].req)).at
  <2>1. /\ AtHand(t) /\ loc' = [loc EXCEPT ![t] = [loc[t] EXCEPT !.at = n]] /\ live' = live
        /\ Goto(t, IF pc[t] = "k_split" THEN "k_first" ELSE "n_largest")
    BY <1>6 DEF SplitPebble
  <2> QED
    BY <1>3, <2>1 DEF NewAt
<1>7. CASE WalkNext(t)
  <2> DEFINE n == buckets[loc[t].cur].next
  <2>1. /\ loc' = [loc EXCEPT ![t] = [loc[t] EXCEPT !.cur = n]] /\ live' = live
        /\ Goto(t, IF n = NULL THEN "k_create" ELSE "k_lock")
    BY <1>7 DEF WalkNext
  <2> QED
    BY <1>4, <2>1 DEF NewAt
<1>8. CASE FreeMelt(t)
  <2> DEFINE n == MeltedInto(buckets[loc[t].cur], loc[t].at)
  <2>1. /\ AtHand(t) /\ loc' = [loc EXCEPT ![t] = [loc[t] EXCEPT !.at = n]] /\ live' = live
        /\ Goto(t, "f_absorb")
    BY <1>8 DEF FreeMelt
  <2> QED
    BY <1>3, <2>1 DEF NewAt
<1>9. CASE NewFirst(t)
  <2> DEFINE n == buckets[loc[t].cur].list[loc[t].at].next
             x == [loc[t] EXCEPT !.reg = n]
  <2>1. AtHand(t) /\ loc' = [loc EXCEPT ![t] = x] /\ live' = live /\ Goto(t, "n_store")
    BY <1>9 DEF NewFirst
  <2>2. /\ x.req = loc[t].req /\ x.old = loc[t].old /\ x.ret = loc[t].ret
        /\ x.at = loc[t].at /\ x.reg = n
    BY <1>2
  <2> HIDE DEF x
  <2>3. Others(t) /\ loc'[t] = x
    BY <2>1, OnlyLocals
  <2> QED
    BY <2>1, <2>2, <2>3 DEF Keeps, NewAt, NewReg
<1>10. CASE LoadFirst(t)
  <2>1. PICK l : Goto(t, l)
    BY <1>10 DEF LoadFirst
  <2> DEFINE n == buckets[loc[t].cur].first
  <2>2. \/ UNCHANGED <<loc, live>>
        \/ /\ Mapped(loc[t].cur) /\ n # NULL /\ live' = live
           /\ loc' = [loc EXCEPT ![t] = [loc[t] EXCEPT !.at = n]]
    BY <1>10 DEF LoadFirst
  <2> QED
    BY <1>3, <2>1, <2>2 DEF NewAt
<1>11. CASE TestFirst(t)
  <2>1. \/ UNCHANGED <<loc, live>>
        \/ /\ Goto(t, "u_walk") /\ live' = live
           /\ loc' = [loc EXCEPT ![t] = [loc[t] EXCEPT !.at = FirstPebble]]
    BY <1>11 DEF TestFirst
  <2> QED
    BY <1>3, <2>1 DEF NewAt
<1> QED
  BY <1>5, <1>6, <1>7, <1>8, <1>9, <1>10, <1>11 DEF InsertLink, NewLargest, SpinLock, FreeMark, FreeAbsorb,
     RemovePrev, RemoveNext, Wild

(* A return of mfree. *)
LEMMA MfreeLeaves ==
  ASSUME ShapeInv, NEW t \in Threads, MfreeReturns(t)
  PROVE  Over(t)
<1>1. Others(t) /\ loc'[t] = NoLocals
  BY OnlyLocals DEF MfreeReturns
<1> QED
  BY <1>1 DEF MfreeReturns, Over

(* And those that may return. *)
LEMMA Leaves ==
  ASSUME ShapeInv, NEW t \in Threads,
         \/ WalkFirst(t) \/ CreateBucket(t) \/ NewTry(t) \/ NewFirstStore(t)
         \/ FreeCheck(t) \/ WalkLargest(t) \/ RemoveUnmap(t) \/ ShrinkSplit(t)
  PROVE  \/ UNCHANGED <<loc, live>>
         \/ Keeps(t) /\ NewAt(t) /\ NewReg(t)
         \/ KmallocReturns(t, NULL) \/ KmallocReturns(t, Here(loc[t]))
         \/ Over(t)
<1>1. LocalsShape(loc[t])
  BY DEF ShapeInv, CallsInv
<1>2. /\ \A n : LET x == [loc[t] EXCEPT !.at = n]
                IN  /\ x.req = loc[t].req /\ x.old = loc[t].old /\ x.ret = loc[t].ret
                    /\ x.at = n /\ x.reg = loc[t].reg
      /\ \A n : LET x == [loc[t] EXCEPT !.cur = n]
                IN  /\ x.req = loc[t].req /\ x.old = loc[t].old /\ x.ret = loc[t].ret
                    /\ x.at = loc[t].at /\ x.reg = loc[t].reg
  BY <1>1 DEF LocalsShape
<1>3. CASE WalkFirst(t) \/ NewFirstStore(t)
  BY <1>3 DEF WalkFirst, NewFirstStore, Here
<1>4. CASE CreateBucket(t)
  <2>1. CASE KmallocReturns(t, NULL)
    BY <2>1
  <2>2. CASE ~KmallocReturns(t, NULL)
    <3>1. PICK b : /\ loc' = [loc EXCEPT ![t] = [loc[t] EXCEPT !.cur = b]]
                   /\ live' = live /\ Goto(t, "i_lock")
      BY <1>4, <2>2 DEF CreateBucket
    <3>2. Others(t) /\ loc'[t] = [loc[t] EXCEPT !.cur = b]
      BY <3>1, OnlyLocals
    <3> QED
      BY <1>2, <3>1, <3>2 DEF Keeps, NewAt, NewReg
  <2> QED
    BY <2>1, <2>2
<1>5. CASE NewTry(t)
  <2>1. CASE Found(t, "n_split")
    <3> DEFINE n == FirstFound(buckets[loc[t].cur], Wanted(loc[t].req))
    <3>1. /\ loc' = [loc EXCEPT ![t] = [loc[t] EXCEPT !.at = n]] /\ live' = live
          /\ Goto(t, "n_split") /\ Fitting(buckets[loc[t].cur], Wanted(loc[t].req)) # {}
          /\ Mapped(loc[t].cur)
      BY <1>5, <2>1 DEF Found, NewTry
    <3>2. Others(t) /\ loc'[t] = [loc[t] EXCEPT !.at = n]
      BY <3>1, OnlyLocals
    <3> QED
      BY <1>2, <3>1, <3>2 DEF Keeps, NewAt, NewReg
  <2>2. CASE ~Found(t, "n_split")
    BY <1>5, <2>2 DEF NewTry, FoundNever
  <2> QED
    BY <2>1, <2>2
<1>6. CASE FreeCheck(t) \/ RemoveUnmap(t)
  BY <1>6, MfreeLeaves DEF FreeCheck, RemoveUnmap
<1>7. CASE ShrinkSplit(t)
  <2>1. Others(t) /\ loc'[t] = NoLocals
    BY <1>7, OnlyLocals DEF ShrinkSplit
  <2> QED
    BY <1>7, <2>1 DEF ShrinkSplit, Over, Here
<1>8. CASE WalkLargest(t)
  <2>1. CASE MfreeReturns(t)
    BY <2>1, MfreeLeaves
  <2>2. CASE ~MfreeReturns(t)
    <3> DEFINE P == buckets[loc[t].cur].list
    <3>1. PICK n : /\ n \in IF AtHand(t) THEN {P[loc[t].at].next}
                             ELSE {c \in DOMAIN P : c > loc[t].at} \cup {NULL}
                   /\ n # NULL /\ UNCHANGED <<pc, live>> /\ Mapped(loc[t].cur)
                   /\ loc' = [loc EXCEPT ![t] = [loc[t] EXCEPT !.at = n]]
      BY <1>8, <2>2 DEF WalkLargest
    <3>2. Goto(t, pc[t])
      BY <3>1 DEF Goto, ShapeInv, CallsInv
    <3>3. Others(t) /\ loc'[t] = [loc[t] EXCEPT !.at = n]
      BY <3>1, <3>2, OnlyLocals
    <3> QED
      BY <1>2, <3>1, <3>3 DEF Keeps, NewAt, NewReg
  <2> QED
    BY <2>1, <2>2
<1> QED
  BY <1>3, <1>4, <1>5, <1>6, <1>7, <1>8

-----------------------------------------------------------------------------
(* The offset of a pointer, if there is one *)
AtNat(p) == p = NULL \/ p.at \in Nat

OffsetsOf(x) ==
  x.at \in Nat /\ x.reg \in Nat \cup {NULL} /\ AtNat(x.old) /\ AtNat(x.ret)

Offsets == /\ \A t \in Threads : OffsetsOf(loc[t])
           /\ \A k \in live : k.p.at \in Nat

(* An aligned pebble lies behind the one it is cut out of. *)
LEMMA AlignedAtNat ==
  ASSUME NEW a \in Nat, NEW m \in WantedAlignments
  PROVE  AlignedAt(a, m) \in Nat
<1>1. a + 2 * PEBBLE_SZ + PEBBLE_MIN_SIZE + (m - 1) = a + 319 + m
  BY DEF PEBBLE_SZ, PEBBLE_MIN_SIZE, WantedAlignments
<1>2. AlignedAt(a, m) = (a + 319 + m) - ((a + 319 + m) % m) - 128
  BY <1>1 DEF AlignedAt, RoundDown, PEBBLE_SZ
<1> QED
  BY <1>2 DEF WantedAlignments

(* Wherever 'pebble' goes it is an offset, and so is what is loaded. *)
LEMMA NewAtNat ==
  ASSUME ShapeInv, AllLists(buckets), LowKnown(buckets), NEW t \in Threads,
         OffsetsOf(loc[t]), NewAt(t), NewReg(t)
  PROVE  loc'[t].at \in Nat /\ loc'[t].reg \in Nat \cup {NULL}
<1> DEFINE bk == buckets[loc[t].cur]
           w  == Wanted(loc[t].req)
           at == loc'[t].at
<1>0. loc[t].at \in Nat /\ loc[t].reg \in Nat \cup {NULL}
  BY DEF OffsetsOf
<1>1. Mapped(loc[t].cur) => /\ bk.list \in [DOMAIN bk.list -> Pebble]
                            /\ DOMAIN bk.list \subseteq Nat /\ bk.first \in Nat \cup {NULL}
  BY DEF Mapped, AllLists, LowKnown, Known, IsList
<1>2. ASSUME Mapped(loc[t].cur) /\ Fitting(bk, w) # {} /\ at = FirstFound(bk, w)
      PROVE  at \in Nat
  <2>1. at \in Fitting(bk, w)
    BY <1>1, <1>2, FirstFoundFits
  <2> QED
    BY <1>1, <1>2, <2>1 DEF Fitting, FreeAt
<1>3. ASSUME AtHand(t) /\ at = split_pebble(bk.list, loc[t].at, w).at
      PROVE  at \in Nat
  <2>1. w.alignment \in WantedAlignments
    BY WantedShape DEF ShapeInv, CallsInv, LocalsShape
  <2>2. AlignedAt(loc[t].at, w.alignment) \in Nat
    BY <1>0, <2>1, AlignedAtNat
  <2> QED
    BY <1>0, <1>3, <2>2 DEF split_pebble, SplitAligned
<1>4. ASSUME AtHand(t) /\ at = MeltedInto(bk, loc[t].at)
      PROVE  at \in Nat
  <2>1. bk.list[loc[t].at] \in Pebble
    BY <1>1, <1>4 DEF AtHand
  <2>2. bk.list[loc[t].at].prev \in Nat \cup {NULL}
    BY <2>1 DEF Pebble
  <2> QED
    BY <1>0, <1>4, <2>2 DEF MeltedInto
<1>5. AtHand(t) => bk.list[loc[t].at].next \in Nat \cup {NULL}
  BY <1>1 DEF AtHand, Pebble
<1>6. FirstPebble \in Nat
  BY DEF FirstPebble, BUCKET_SZ
<1>7. at \in Nat
  BY <1>0, <1>1, <1>2, <1>3, <1>4, <1>5, <1>6 DEF NewAt
<1>8. loc'[t].reg \in Nat \cup {NULL}
  BY <1>0, <1>5 DEF NewReg
<1> QED
  BY <1>7, <1>8

(* What a call is begun with. *)
LEMMA Begins ==
  ASSUME ShapeInv, NEW t \in Threads, Call(t)
  PROVE  /\ Others(t) /\ live' \subseteq live
         /\ \/ /\ \E flags \in FlagSets : loc'[t].req.flags = Default(flags)
               /\ loc'[t].at = 0 /\ loc'[t].old = NULL
            \/ /\ loc'[t].req = NoRequest /\ loc'[t].old = NULL
               /\ \E k \in live : loc'[t].at = k.p.at
            \/ /\ loc'[t].old = NULL
               /\ \E k \in live : loc'[t].at = k.p.at /\ loc'[t].req.flags = k.req.flags
            \/ /\ "ALIGNED" \notin loc'[t].req.flags
               /\ \E k \in live : loc'[t].at \in {0, k.p.at} /\ loc'[t].old = k.p
         /\ loc'[t].ret = NULL /\ loc'[t].reg = NULL
<1>1. CASE Kmalloc(t)
  <2>1. PICK size \in Sizes, flags \in FlagSets, alignment \in Alignments \cup {1} :
          StartKmalloc(t, "kmalloc",
            [size |-> size, alignment |-> alignment, flags |-> Default(flags)], NULL)
    BY <1>1 DEF Kmalloc
  <2> DEFINE req == [size |-> size, alignment |-> alignment, flags |-> Default(flags)]
             x == [NoLocals EXCEPT !.op = "kmalloc", !.req = req, !.cur = KernelHeap, !.old = NULL]
  <2>2. Goto(t, "k_lock") /\ loc' = [loc EXCEPT ![t] = x]
    BY <2>1 DEF StartKmalloc
  <2>3. /\ x.req.flags = Default(flags) /\ x.at = 0 /\ x.old = NULL /\ x.ret = NULL
        /\ x.reg = NULL
    BY DEF NoLocals
  <2> HIDE DEF x
  <2>4. Others(t) /\ loc'[t] = x
    BY <2>2, OnlyLocals
  <2> QED
    BY <1>1, <2>3, <2>4 DEF Kmalloc
<1>2. CASE Mfree(t)
  <2>1. PICK k \in live :
          /\ live' = live \ {k}
          /\ loc' = [loc EXCEPT ![t] = [NoLocals EXCEPT !.op = "mfree", !.cur = k.p.b,
                                                        !.at = k.p.at]]
    BY <1>2 DEF Mfree
  <2> DEFINE x == [NoLocals EXCEPT !.op = "mfree", !.cur = k.p.b, !.at = k.p.at]
  <2>2. x.req = NoRequest /\ x.at = k.p.at /\ x.old = NULL /\ x.ret = NULL /\ x.reg = NULL
    BY DEF NoLocals
  <2>3. Goto(t, "f_lock") /\ loc' = [loc EXCEPT ![t] = x]
    BY <1>2, <2>1 DEF Mfree
  <2> HIDE DEF x
  <2>4. Others(t) /\ loc'[t] = x
    BY <2>3, OnlyLocals
  <2> QED
    BY <2>1, <2>2, <2>4
<1>3. CASE ReallocShrink(t)
  <2>1. PICK k \in live, size \in ReallocSizes \ {0} :
          /\ live' = live \ {k}
          /\ loc' = [loc EXCEPT ![t] =
               [NoLocals EXCEPT !.op = "realloc", !.cur = k.p.b, !.at = k.p.at,
                  !.req = [k.req EXCEPT !.size = size]]]
    BY <1>3 DEF ReallocShrink
  <2> DEFINE req == [k.req EXCEPT !.size = size]
             x == [NoLocals EXCEPT !.op = "realloc", !.cur = k.p.b, !.at = k.p.at, !.req = req]
  <2>2. k.req \in RequestShape
    BY DEF ShapeInv, CallsInv, BlockShape
  <2>3. req.flags = k.req.flags
    BY <2>2 DEF RequestShape
  <2> HIDE DEF req
  <2>4. x.req = req /\ x.at = k.p.at /\ x.old = NULL /\ x.ret = NULL /\ x.reg = NULL
    BY DEF NoLocals
  <2>5. Goto(t, "s_lock") /\ loc' = [loc EXCEPT ![t] = x]
    BY <1>3, <2>1 DEF ReallocShrink, req
  <2> HIDE DEF x
  <2>6. Others(t) /\ loc'[t] = x
    BY <2>5, OnlyLocals
  <2> QED
    BY <2>1, <2>3, <2>4, <2>6
<1>4. CASE ReallocGrow(t)
  <2>1. PICK k \in live, size \in ReallocSizes \ {0} :
          LET lflags == buckets[k.p.b].list[k.p.at].lflags
              req    == [size |-> size, alignment |-> 1, flags |-> ReallocFlags(lflags)]
          IN  /\ live' = live \ {k}
              /\ IF Refused(req.flags)
                 THEN /\ Goto(t, "f_lock")
                      /\ loc' = [loc EXCEPT ![t] =
                           [NoLocals EXCEPT !.op = "realloc", !.req = req, !.old = k.p,
                                            !.cur = k.p.b, !.at = k.p.at]]
                 ELSE StartKmalloc(t, "realloc", req, k.p)
    BY <1>4 DEF ReallocGrow
  <2> DEFINE lflags == buckets[k.p.b].list[k.p.at].lflags
             req == [size |-> size, alignment |-> 1, flags |-> ReallocFlags(lflags)]
             x == [NoLocals EXCEPT !.op = "realloc", !.req = req, !.old = k.p, !.cur = k.p.b,
                                   !.at = k.p.at]
             y == [NoLocals EXCEPT !.op = "realloc", !.req = req, !.cur = KernelHeap, !.old = k.p]
  <2>2. "ALIGNED" \notin req.flags
    BY DEF ReallocFlags
  <2>3. \/ Goto(t, "f_lock") /\ loc' = [loc EXCEPT ![t] = x]
        \/ Goto(t, "k_lock") /\ loc' = [loc EXCEPT ![t] = y]
    BY <2>1 DEF StartKmalloc
  <2> HIDE DEF req
  <2>4. /\ x.req = req /\ x.at = k.p.at /\ x.old = k.p /\ x.ret = NULL /\ x.reg = NULL
        /\ y.req = req /\ y.at = 0 /\ y.old = k.p /\ y.ret = NULL /\ y.reg = NULL
    BY DEF NoLocals
  <2> HIDE DEF x, y
  <2>5. Others(t) /\ (loc'[t] = x \/ loc'[t] = y)
    BY <2>3, OnlyLocals
  <2> QED
    BY <2>1, <2>2, <2>4, <2>5
<1> QED
  BY <1>1, <1>2, <1>3, <1>4 DEF Call

(* Handed is what the caller gets. *)
LEMMA HandedIs ==
  ASSUME NEW t \in Threads, NEW p
  PROVE  Handed(t, p).p = p /\ Handed(t, p).req = loc[t].req
  BY DEF Handed

(* The offsets stay offsets. *)
LEMMA OffsetsStep ==
  ASSUME ShapeInv, AllLists(buckets), LowKnown(buckets), Offsets, NEW t \in Threads,
         Step(t) \/ Call(t)
  PROVE  Offsets'
<1>1. OffsetsOf(loc[t]) /\ OffsetsOf(NoLocals)
  BY DEF Offsets, OffsetsOf, NoLocals, AtNat
<1>2. ASSUME Others(t), OffsetsOf(loc'[t]), \A k \in live' : k \in live \/ k.p.at \in Nat
      PROVE  Offsets'
  BY <1>2 DEF Offsets, Others, OffsetsOf, AtNat
<1>3. CASE UNCHANGED <<loc, live>>
  BY <1>3 DEF Offsets, OffsetsOf, AtNat
<1>4. CASE Keeps(t) /\ NewAt(t) /\ NewReg(t)
  <2>1. loc'[t].at \in Nat /\ loc'[t].reg \in Nat \cup {NULL}
    BY <1>1, <1>4, NewAtNat
  <2> QED
    BY <1>1, <1>2, <1>4, <2>1 DEF Keeps, OffsetsOf
<1>5. ASSUME NEW p, p = NULL \/ p = Here(loc[t]), KmallocReturns(t, p)
      PROVE  Offsets'
  <2>1. AtNat(p)
    BY <1>1, <1>5 DEF Here, OffsetsOf, AtNat
  <2>2. OffsetsOf(loc'[t])
    BY <1>1, <1>5, <2>1, KmallocLeaves DEF OffsetsOf, AtNat
  <2>3. \A k \in live' : k \in live \/ k.p.at \in Nat
    BY <1>5, <2>1, KmallocLeaves, HandedIs DEF AtNat
  <2> QED
    BY <1>2, <1>5, <2>2, <2>3, KmallocLeaves
<1>6. CASE Over(t)
  <2>1. \A k \in live' : k \in live \/ k.p.at \in Nat
    BY <1>1, <1>6, HandedIs DEF Over, Here, OffsetsOf, AtNat
  <2> QED
    BY <1>1, <1>2, <1>6, <2>1 DEF Over
<1>7. CASE Call(t)
  <2>1. \A k \in live : k.p.at \in Nat
    BY DEF Offsets
  <2>2. OffsetsOf(loc'[t])
    BY <1>7, <2>1, Begins DEF OffsetsOf, AtNat
  <2> QED
    BY <1>2, <1>7, <2>2, Begins
<1> QED
  BY <1>3, <1>4, <1>5, <1>6, <1>7, GoesOn, Leaves DEF Step

(* No caller asks for an aligned block. *)
Unaligned == \A flags \in FlagSets : "ALIGNED" \notin flags

(* So no call in progress asks for one: realloc passes kmalloc the flag PHYSICAL in
   its place. *)
LEMMA UnaskedStep ==
  ASSUME ShapeInv, Unaligned, PlainCalls, NEW t \in Threads, Step(t) \/ Call(t)
  PROVE  PlainCalls'
<1>1. "ALIGNED" \notin loc[t].req.flags /\ "ALIGNED" \notin NoLocals.req.flags
  BY DEF PlainCalls, NoLocals, NoRequest
<1>2. ASSUME Others(t), "ALIGNED" \notin loc'[t].req.flags,
             \A k \in live' : k \in live \/ "ALIGNED" \notin k.req.flags
      PROVE  PlainCalls'
  BY <1>2 DEF PlainCalls, Others
<1>3. CASE UNCHANGED <<loc, live>>
  BY <1>3 DEF PlainCalls
<1>4. CASE Keeps(t)
  BY <1>1, <1>2, <1>4 DEF Keeps
<1>5. ASSUME NEW p, KmallocReturns(t, p)
      PROVE  PlainCalls'
  BY <1>1, <1>2, <1>5, KmallocLeaves, HandedIs
<1>6. CASE Over(t)
  BY <1>1, <1>2, <1>6, HandedIs DEF Over
<1>7. CASE Call(t)
  <2>1. \A flags \in FlagSets : "ALIGNED" \notin Default(flags)
    BY DEF Unaligned, Default
  <2>2. "ALIGNED" \notin loc'[t].req.flags
    BY <1>7, <2>1, Begins DEF PlainCalls, NoRequest
  <2> QED
    BY <1>2, <1>7, <2>2, Begins
<1> QED
  BY <1>3, <1>4, <1>5, <1>6, <1>7, GoesOn, Leaves DEF Step

(* After malloc_init there is one bucket, and nobody holds anything. *)
LEMMA PlainInit ==
  ASSUME Init
  PROVE  AllPlain(buckets) /\ PlainCalls /\ Offsets /\ LowKnown(buckets)
<1>1. PICK flags : flags = {"VIRTUAL", "PERSISTENT"}
  OBVIOUS
<1>2. HeapBytes \in Nat /\ flags \in SUBSET MallocFlags /\ "ALIGNED" \notin flags
  BY <1>1, HeapAssumptions DEF SizeAssumption, MallocFlags
<1>3. DOMAIN buckets = {KernelHeap} /\ buckets[KernelHeap] = create_bucket(HeapBytes, flags, FALSE)
  BY <1>1, InitHeap
<1>4. Plain(create_bucket(HeapBytes, flags, FALSE))
  BY <1>2, NewBucketPlain
<1>5. Known(create_bucket(HeapBytes, flags, FALSE))
  BY DEF create_bucket, Known, FirstPebble, BUCKET_SZ
<1>6. live = {} /\ \A t \in Threads : loc[t] = NoLocals
  BY DEF Init
<1>7. PlainCalls /\ Offsets
  BY <1>6 DEF PlainCalls, Offsets, OffsetsOf, AtNat, NoLocals, NoRequest
<1> QED
  BY <1>3, <1>4, <1>5, <1>7 DEF AllPlain, LowKnown

(* The parts are the type. *)
LEMMA TypeParts ==
  ASSUME ShapeInv, AllLists(buckets), LowKnown(buckets), Offsets
  PROVE  TypeOK
<1>0. WantedAlignments \subseteq Nat /\ RequestShape \subseteq Request
  BY DEF WantedAlignments, RequestShape, Request
<1>1. ASSUME NEW b \in DOMAIN buckets PROVE IsBucket(buckets[b])
  <2>1. HasShape(buckets[b]) /\ Known(buckets[b])
    BY DEF ShapeInv, BucketsInv, LowKnown
  <2>2. IsList(buckets[b].list) /\ buckets[b].largest \in Nat
    BY DEF AllLists
  <2> QED
    BY <2>1, <2>2 DEF HasShape, IsBucket, Known
<1>2. ASSUME NEW p, IsPointer(p), p.at \in Nat PROVE p \in Pointer
  BY <1>2 DEF IsPointer, Pointer
<1>3. ASSUME NEW t \in Threads PROVE loc[t] \in Locals
  <2>1. LocalsShape(loc[t]) /\ OffsetsOf(loc[t])
    BY DEF ShapeInv, CallsInv, Offsets
  <2>2. loc[t].old \in Pointer \cup {NULL} /\ loc[t].ret \in Pointer \cup {NULL}
    BY <1>2, <2>1 DEF LocalsShape, PointerShape, OffsetsOf, AtNat
  <2> QED
    BY <1>0, <2>1, <2>2 DEF LocalsShape, OffsetsOf, Locals
<1>4. ASSUME NEW k \in live PROVE k \in Block
  <2>1. BlockShape(k) /\ k.p \in Pointer
    BY <1>2 DEF ShapeInv, CallsInv, BlockShape, Offsets
  <2> QED
    BY <1>0, <2>1 DEF BlockShape, Block
<1>5. loc \in [Threads -> Locals]
  BY <1>3 DEF ShapeInv, CallsInv
<1> QED
  BY <1>1, <1>4, <1>5 DEF ShapeInv, BucketsInv, CallsInv, TypeOK

-----------------------------------------------------------------------------
(* What holds of every bucket then *)

UnalignedInv == /\ ShapeInv /\ AllPlain(buckets) /\ PlainCalls
                /\ Offsets /\ LowKnown(buckets)

(* The inductive invariant for any number of threads when nobody asks for alignment
   (PEBBLE_ALIGNED): threads come into a bucket in any order (BucketMutex: one at a time),
   remove_bucket and bucket->first go on beside them without a lock, and every write to a
   list leaves it a list that fills the bucket. *)
THEOREM UnalignedInvariant ==
  ASSUME Unaligned
  PROVE  Spec => []UnalignedInv
<1>1. Init => UnalignedInv
  BY InitInv, PlainInit DEF UnalignedInv
<1>2. UnalignedInv /\ ShapeInv' /\ [Next]_vars => UnalignedInv'
  <2> SUFFICES ASSUME UnalignedInv, ShapeInv', [Next]_vars PROVE UnalignedInv'
    OBVIOUS
  <2>1. CASE Next
    <3>1. PICK t \in Threads : Step(t) \/ Call(t)
      BY <2>1 DEF Next
    <3>2. AllLists(buckets) /\ loc[t].reg \in Nat \cup {NULL}
      BY DEF UnalignedInv, AllPlain, Plain, Capped, Sound, AllLists, Offsets, OffsetsOf
    <3>3. AllPlain(buckets')
      BY <3>1, PlainStep DEF UnalignedInv
    <3>4. PlainCalls'
      BY <3>1, UnaskedStep DEF UnalignedInv
    <3>5. Offsets'
      BY <3>1, <3>2, OffsetsStep DEF UnalignedInv
    <3>6. LowKnown(buckets')
      BY <3>1, <3>2, LowStep DEF UnalignedInv
    <3> QED
      BY <3>3, <3>4, <3>5, <3>6 DEF UnalignedInv
  <2>2. CASE UNCHANGED vars
    BY <2>2 DEF vars, UnalignedInv, PlainCalls, Offsets, OffsetsOf, AtNat
  <2> QED
    BY <2>1, <2>2
<1>3. Spec => []ShapeInv
  BY LockInvariant, PTL
<1> QED
  BY <1>1, <1>2, <1>3, PTL DEF Spec

(* When nobody asks for alignment no byte of any bucket is lost between two pebbles or
   behind the last, whatever any number of threads split and merge (SPLIT_PEBBLE and
   absorb_next, malloc.cpp).  The dummy pebble of an aligned split is where bytes go
   missing. *)
THEOREM UnalignedTiles ==
  ASSUME Unaligned
  PROVE  Spec => []TilesExactly
<1>1. UnalignedInv => TilesExactly
  BY DEF UnalignedInv, AllPlain, Plain, Tiled, Limit, TilesExactly, TilesIn
<1> QED
  BY <1>1, UnalignedInvariant, PTL

(* And the list of every bucket is well formed, while other threads look at it without
   its lock (malloc.cpp:609-613) and buckets come and go. *)
THEOREM UnalignedLists ==
  ASSUME Unaligned
  PROVE  Spec => []ListsWellFormed
<1>1. UnalignedInv => ListsWellFormed
  BY DEF UnalignedInv, AllPlain, Plain, Sound, ListsWellFormed
<1> QED
  BY <1>1, UnalignedInvariant, PTL

(* Everything in memory has its type, with any number of threads when nobody asks for
   alignment: no size, largest or offset becomes negative, where the unsigned words of
   malloc.h would wrap. *)
THEOREM UnalignedTypes ==
  ASSUME Unaligned
  PROVE  Spec => []TypeOK
<1>1. UnalignedInv => TypeOK
  <2> SUFFICES ASSUME UnalignedInv PROVE TypeOK
    OBVIOUS
  <2>1. AllLists(buckets)
    BY DEF UnalignedInv, AllPlain, Plain, Capped, Sound, AllLists
  <2> QED
    BY <2>1, TypeParts DEF UnalignedInv
<1> QED
  BY <1>1, UnalignedInvariant, PTL

(* And with one thread, whatever it asks for. *)
THEOREM OneTypes ==
  ASSUME NEW t, Threads = {t}
  PROVE  Spec => []TypeOK
<1> DEFINE One == Grounds /\ OneInv(t)
           Inv == Offsets /\ LowKnown(buckets)
<1>1. Init => Inv
  BY PlainInit
<1>2. One => ShapeInv /\ AllLists(buckets)
  BY DEF Grounds, OneInv, InOneThread, AllTidy, Tidy, Bounded, Sound, AllLists
<1>3. One /\ Inv /\ [Next]_vars => Inv'
  <2> SUFFICES ASSUME One, Inv, [Next]_vars PROVE Inv'
    OBVIOUS
  <2>1. CASE Next
    <3>1. PICK u \in Threads : Step(u) \/ Call(u)
      BY <2>1 DEF Next
    <3>2. Offsets'
      BY <1>2, <3>1, OffsetsStep
    <3>3. LowKnown(buckets')
      BY <1>2, <3>1, LowStep DEF Offsets, OffsetsOf
    <3> QED
      BY <3>2, <3>3
  <2>2. CASE UNCHANGED vars
    BY <2>2 DEF vars, Offsets, OffsetsOf, AtNat
  <2> QED
    BY <2>1, <2>2
<1>4. Spec => []One
  BY OneThreadInvariant, PTL
<1>5. One /\ Inv => TypeOK
  BY <1>2, TypeParts
<1> QED
  BY <1>1, <1>3, <1>4, <1>5, PTL DEF Spec
=============================================================================
