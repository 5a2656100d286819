-------------------------- MODULE LoaderHeapProofs --------------------------
(***************************************************************************)
(* The heap of the loader, for every list of regions, every size and any   *)
(* number of blocks: its list stays whole, what is held is in use, and it  *)
(* implements the abstract heap.                                           *)
(***************************************************************************)
EXTENDS LoaderHeap, SequenceTheorems, TLAPS

After(m, b) == b + HEADER + m[b].size

Typed(m) ==
  /\ DOMAIN m \subseteq Nat \ {0}
  /\ m \in [DOMAIN m -> [magic : {"USED", "FREE"}, size : Nat,
                         prev : DOMAIN m \cup {NULL}, next : DOMAIN m \cup {NULL}]]

(* Each link has its counterpart, and blocks are in order of addresses. *)
Forth(m) ==
  \A b \in DOMAIN m :
    IF m[b].next = NULL THEN After(m, b) = MEM_END
    ELSE m[b].next = After(m, b) /\ m[m[b].next].prev = b
Back(m) ==
  \A b \in DOMAIN m : IF m[b].prev = NULL THEN b = Base(1) ELSE m[m[b].prev].next = b
Ordered(m) == \A b, c \in DOMAIN m : b < c => After(m, b) <= c

Listed(m) == Typed(m) /\ Forth(m) /\ Back(m) /\ Ordered(m)

(* What is in use in m, except for block b, is the same in o. *)
Keeps(m, o, b) ==
  \A c \in DOMAIN m \ {b} :
    m[c].magic = "USED" => c \in DOMAIN o /\ o[c].magic = "USED" /\ o[c].size = m[c].size

-----------------------------------------------------------------------------
LEMMA MarkListed ==
  ASSUME NEW m, Listed(m), NEW b \in DOMAIN m, NEW magic \in {"USED", "FREE"}
  PROVE  /\ Listed(Marked(m, b, magic))
         /\ Keeps(m, Marked(m, b, magic), b)
         /\ DOMAIN Marked(m, b, magic) = DOMAIN m
         /\ Marked(m, b, magic)[b].magic = magic /\ Marked(m, b, magic)[b].size = m[b].size
<1> DEFINE o == Marked(m, b, magic)
<1> USE DEF NULL
<1>1. DOMAIN o = DOMAIN m
  BY DEF Marked
<1>2. \A c \in DOMAIN m :
        /\ o[c].size = m[c].size /\ o[c].prev = m[c].prev /\ o[c].next = m[c].next
        /\ o[c].magic = IF c = b THEN magic ELSE m[c].magic
        /\ o[c] \in [magic : {"USED", "FREE"}, size : Nat,
                     prev : DOMAIN m \cup {NULL}, next : DOMAIN m \cup {NULL}]
  BY DEF Marked, Listed, Typed
<1>3. o = [c \in DOMAIN o |-> o[c]]
  BY DEF Marked
<1> HIDE DEF o
<1>4. Typed(o)
  BY <1>1, <1>2, <1>3 DEF Listed, Typed
<1>5. Forth(o) /\ Back(o) /\ Ordered(o)
  BY <1>1, <1>2 DEF Listed, Typed, Forth, Back, Ordered, After
<1> QED
  BY <1>1, <1>2, <1>4, <1>5 DEF Listed, Keeps, o

(* A split: four links change, and the new block is where no block was. *)
LEMMA SplitListed ==
  ASSUME NEW m, Listed(m), NEW b \in DOMAIN m, NEW size \in Nat, size + HEADER <= m[b].size
  PROVE  /\ Listed(malloc_split_block(m, b, size))
         /\ Keeps(m, malloc_split_block(m, b, size), b)
         /\ b \in DOMAIN malloc_split_block(m, b, size)
         /\ malloc_split_block(m, b, size)[b].magic = m[b].magic
         /\ malloc_split_block(m, b, size)[b].size = size
<1> DEFINE o == malloc_split_block(m, b, size)
           n == NewNext(m, b, size)
<1> USE DEF NULL, HEADER
<1>1. n \in Nat \ {0} /\ n = b + size + 16 /\ b < n /\ n + 16 <= After(m, b)
  BY DEF NewNext, After, Listed, Typed
<1>2. n \notin DOMAIN m
  <2> SUFFICES ASSUME n \in DOMAIN m PROVE FALSE
    OBVIOUS
  <2>1. After(m, b) <= n
    BY <1>1 DEF Listed, Ordered
  <2>2. m[b].size \in Nat /\ b \in Nat
    BY DEF Listed, Typed
  <2> QED
    BY <2>1, <2>2, <1>1 DEF After
<1>3. DOMAIN o = DOMAIN m \cup {n}
  BY DEF malloc_split_block
<1>4. m[b].next # b /\ m[b].next # n /\ m[b].next \in DOMAIN m \cup {NULL} /\ m[b].size \in Nat
  <2>1. m[b].next \in DOMAIN m \cup {NULL} /\ m[b].size \in Nat /\ b \in Nat \ {0}
    BY DEF Listed, Typed
  <2>2. m[b].next = NULL \/ m[b].next = After(m, b)
    BY DEF Listed, Forth
  <2> HIDE DEF n
  <2> QED
    BY <1>1, <1>2, <2>1, <2>2 DEF After
<1>5. o[n] = [magic |-> "FREE", size |-> m[b].size - size - 16, prev |-> b, next |-> m[b].next]
  BY DEF malloc_split_block, NewBlock
<1>6. \A c \in DOMAIN m :
        o[c] = [m[c] EXCEPT !.prev = IF c = m[b].next THEN n ELSE @,
                            !.next = IF c = b THEN n ELSE @,
                            !.size = IF c = b THEN size ELSE @]
  BY <1>2 DEF malloc_split_block
<1>9. o = [c \in DOMAIN o |-> o[c]]
  BY DEF malloc_split_block
<1> HIDE DEF o
<1>10. /\ o[n].magic = "FREE" /\ o[n].size \in Nat /\ o[n].size = m[b].size - size - 16
       /\ o[n].prev = b /\ o[n].next = m[b].next
  BY <1>4, <1>5
<1>11. \A c \in DOMAIN m :
         /\ o[c].magic = m[c].magic
         /\ o[c].size = IF c = b THEN size ELSE m[c].size
         /\ o[c].next = IF c = b THEN n ELSE m[c].next
         /\ o[c].prev = IF c = m[b].next THEN n ELSE m[c].prev
         /\ o[c] \in [magic : {"USED", "FREE"}, size : Nat,
                      prev : DOMAIN o \cup {NULL}, next : DOMAIN o \cup {NULL}]
  <2> SUFFICES ASSUME NEW c \in DOMAIN m
               PROVE  /\ o[c].magic = m[c].magic
                      /\ o[c].size = IF c = b THEN size ELSE m[c].size
                      /\ o[c].next = IF c = b THEN n ELSE m[c].next
                      /\ o[c].prev = IF c = m[b].next THEN n ELSE m[c].prev
                      /\ o[c] \in [magic : {"USED", "FREE"}, size : Nat,
                                   prev : DOMAIN o \cup {NULL}, next : DOMAIN o \cup {NULL}]
    OBVIOUS
  <2>1. m[c] \in [magic : {"USED", "FREE"}, size : Nat,
                  prev : DOMAIN m \cup {NULL}, next : DOMAIN m \cup {NULL}]
    BY DEF Listed, Typed
  <2>2. m[c].prev \in DOMAIN o \cup {NULL} /\ m[c].next \in DOMAIN o \cup {NULL}
        /\ n \in DOMAIN o
    BY <2>1, <1>3
  <2>3. o[c] = [magic |-> m[c].magic,
                size |-> IF c = b THEN size ELSE m[c].size,
                prev |-> IF c = m[b].next THEN n ELSE m[c].prev,
                next |-> IF c = b THEN n ELSE m[c].next]
    <3> HIDE DEF n
    <3> DEFINE p == IF c = m[b].next THEN n ELSE m[c].prev
               q == IF c = b THEN n ELSE m[c].next
               r == IF c = b THEN size ELSE m[c].size
    <3>1. o[c] = [m[c] EXCEPT !.prev = p, !.next = q, !.size = r]
      BY <1>6
    <3> HIDE DEF p, q, r
    <3>2. o[c] = [magic |-> m[c].magic, size |-> r, prev |-> p, next |-> q]
      BY <2>1, <3>1
    <3> QED
      BY <3>2 DEF p, q, r
  <2> QED
    BY <2>1, <2>2, <2>3
<1>12. Typed(o)
  <2>1. o[n] \in [magic : {"USED", "FREE"}, size : Nat,
                  prev : DOMAIN o \cup {NULL}, next : DOMAIN o \cup {NULL}]
    BY <1>3, <1>4, <1>5, <1>10
  <2>2. DOMAIN o \subseteq Nat \ {0}
    BY <1>1, <1>3 DEF Listed, Typed
  <2> QED
    BY <2>1, <2>2, <1>3, <1>9, <1>11 DEF Typed
<1>13. After(o, n) = After(m, b) /\ After(o, b) = n
  BY <1>1, <1>4, <1>10, <1>11 DEF After, Listed, Typed
<1>14. \A c \in DOMAIN m \ {b} : After(o, c) = After(m, c)
  BY <1>11 DEF After
<1>15. Forth(o)
  <2>1. CASE m[b].next = NULL
    BY <2>1, <1>1, <1>3, <1>10, <1>11, <1>13, <1>14 DEF Listed, Typed, Forth
  <2>2. CASE m[b].next # NULL
    <3>1. \A c \in DOMAIN m \ {b} : m[c].next # NULL => m[c].next # m[b].next
      BY DEF Listed, Typed, Forth
    <3> QED
      BY <3>1, <2>2, <1>1, <1>3, <1>4, <1>10, <1>11, <1>13, <1>14 DEF Listed, Typed, Forth
  <2> QED
    BY <2>1, <2>2
<1>16. Back(o)
  <2>1. \A c \in DOMAIN m : m[c].prev = b => c = m[b].next
    BY DEF Listed, Typed, Back
  <2>2. \A c \in DOMAIN m : c # m[b].next => IF o[c].prev = NULL THEN c = Base(1) ELSE o[o[c].prev].next = c
    BY <2>1, <1>11 DEF Listed, Typed, Back
  <2>3. m[b].next \in DOMAIN m => o[m[b].next].prev = n /\ o[n].next = m[b].next
    BY <1>10, <1>11
  <2>4. o[n].prev = b /\ o[b].next = n
    BY <1>10, <1>11
  <2> QED
    BY <2>2, <2>3, <2>4, <1>1, <1>3 DEF Listed, Typed, Back
<1>17. Ordered(o)
  <2>1. \A c \in DOMAIN m : n < c => After(o, n) <= c
    BY <1>1, <1>13 DEF Listed, Typed, Ordered
  <2>2. \A c \in DOMAIN m : c < n => After(o, c) <= n
    <3> SUFFICES ASSUME NEW c \in DOMAIN m, c < n, c # b PROVE After(m, c) <= n
      BY <1>1, <1>13, <1>14
    <3>1. After(m, b) \in Nat /\ c \in Nat /\ b \in Nat /\ After(m, c) \in Nat
      BY DEF Listed, Typed, After
    <3>2. ~(b < c)
      BY <3>1, <1>1 DEF Listed, Ordered
    <3> QED
      BY <3>1, <3>2, <1>1 DEF Listed, Ordered
  <2>3. \A c, d \in DOMAIN m : c < d => After(o, c) <= d
    <3> SUFFICES ASSUME NEW c \in DOMAIN m, NEW d \in DOMAIN m, c < d PROVE After(o, c) <= d
      OBVIOUS
    <3>1. After(m, c) <= d
      BY DEF Listed, Ordered
    <3>2. CASE c = b
      <4>1. After(m, b) \in Nat /\ d \in Nat
        BY DEF Listed, Typed, After
      <4> QED
        BY <3>1, <3>2, <4>1, <1>1, <1>13
    <3> QED
      BY <3>1, <3>2, <1>14
  <2> QED
    BY <2>1, <2>2, <2>3, <1>1, <1>3 DEF Ordered
<1> QED
  BY <1>3, <1>11, <1>12, <1>15, <1>16, <1>17 DEF Listed, Keeps, o

(* A merge: b disappears, and the links that led to it lead past it. *)
LEMMA MergeListed ==
  ASSUME NEW m, Listed(m), NEW a \in DOMAIN m, NEW b \in DOMAIN m, m[a].next = b
  PROVE  /\ Listed(Merged(m, a, b))
         /\ DOMAIN Merged(m, a, b) = DOMAIN m \ {b}
         /\ a # b
         /\ \A c \in DOMAIN m \ {a, b} :
              Merged(m, a, b)[c].magic = m[c].magic /\ Merged(m, a, b)[c].size = m[c].size
         /\ Merged(m, a, b)[a].magic = m[a].magic
         /\ Merged(m, a, b)[a].prev = m[a].prev
<1> DEFINE o == Merged(m, a, b)
           x == m[b].next
<1> USE DEF NULL, HEADER
<1>1. DOMAIN o = DOMAIN m \ {b}
  BY DEF Merged
<1>2. /\ a \in Nat \ {0} /\ b \in Nat \ {0} /\ m[a].size \in Nat /\ m[b].size \in Nat
      /\ x \in DOMAIN m \cup {NULL}
  BY DEF Listed, Typed
<1>3. b = a + 16 + m[a].size /\ m[b].prev = a /\ a < b
  BY <1>2 DEF Listed, Forth, After
<1>4. x # a /\ x # b /\ (x = NULL \/ x = After(m, b))
  <2>1. x = NULL \/ x = After(m, b)
    BY DEF Listed, Forth
  <2> QED
    BY <2>1, <1>2, <1>3 DEF After
<1>5. \A c \in DOMAIN o :
        o[c] = [m[c] EXCEPT !.prev = IF c = x THEN a ELSE @,
                            !.next = IF c = a THEN x ELSE @,
                            !.size = IF c = a THEN @ + m[b].size + 16 ELSE @]
  BY DEF Merged
<1>6. o = [c \in DOMAIN o |-> o[c]]
  BY DEF Merged
<1> HIDE DEF o
<1>7. \A c \in DOMAIN o : m[c].prev # b \/ c = x
  BY <1>1 DEF Listed, Back, Typed
<1>8. \A c \in DOMAIN o : m[c].next # b \/ c = a
  BY <1>1, <1>3 DEF Listed, Forth, Typed
<1>9. \A c \in DOMAIN o :
        /\ o[c].magic = m[c].magic
        /\ o[c].size = IF c = a THEN m[a].size + m[b].size + 16 ELSE m[c].size
        /\ o[c].next = IF c = a THEN x ELSE m[c].next
        /\ o[c].prev = IF c = x THEN a ELSE m[c].prev
        /\ o[c] \in [magic : {"USED", "FREE"}, size : Nat,
                     prev : DOMAIN o \cup {NULL}, next : DOMAIN o \cup {NULL}]
  <2> TAKE c \in DOMAIN o
  <2> HIDE DEF x
  <2>1. m[c] \in [magic : {"USED", "FREE"}, size : Nat,
                  prev : DOMAIN m \cup {NULL}, next : DOMAIN m \cup {NULL}]
    BY <1>1 DEF Listed, Typed
  <2> DEFINE p == IF c = x THEN a ELSE m[c].prev
             q == IF c = a THEN x ELSE m[c].next
             r == IF c = a THEN m[a].size + m[b].size + 16 ELSE m[c].size
  <2>2. o[c] = [m[c] EXCEPT !.prev = p, !.next = q, !.size = r]
    BY <1>5
  <2>3. r \in Nat
    BY <2>1, <1>2
  <2>4. p \in DOMAIN o \cup {NULL}
    BY <2>1, <1>1, <1>2, <1>3, <1>7
  <2>5. q \in DOMAIN o \cup {NULL}
    BY <2>1, <1>1, <1>2, <1>4, <1>8
  <2> HIDE DEF p, q, r
  <2>6. o[c] = [magic |-> m[c].magic, size |-> r, prev |-> p, next |-> q]
    BY <2>1, <2>2
  <2>7. o[c].magic = m[c].magic /\ o[c].size = r /\ o[c].next = q /\ o[c].prev = p
    BY <2>6
  <2>8. o[c] \in [magic : {"USED", "FREE"}, size : Nat,
                  prev : DOMAIN o \cup {NULL}, next : DOMAIN o \cup {NULL}]
    BY <2>1, <2>3, <2>4, <2>5, <2>6
  <2> QED
    BY <2>7, <2>8 DEF p, q, r
<1>10. Typed(o)
  <2>1. DOMAIN o \subseteq Nat \ {0}
    BY <1>1 DEF Listed, Typed
  <2> QED
    BY <2>1, <1>6, <1>9 DEF Typed
<1>11. a \in DOMAIN o /\ After(o, a) = After(m, b)
  BY <1>1, <1>2, <1>3, <1>9 DEF After
<1>12. \A c \in DOMAIN o \ {a} : After(o, c) = After(m, c)
  BY <1>9 DEF After
<1>13. Forth(o)
  <2> SUFFICES ASSUME NEW c \in DOMAIN o
               PROVE  IF o[c].next = NULL THEN After(o, c) = MEM_END
                      ELSE o[c].next = After(o, c) /\ o[o[c].next].prev = c
    BY DEF Forth
  <2>1. CASE c = a
    <3>1. CASE x = NULL
      BY <3>1, <2>1, <1>9, <1>11 DEF Listed, Forth
    <3>2. CASE x # NULL
      <4>1. x \in DOMAIN o
        BY <3>2, <1>1, <1>2, <1>4
      <4> QED
        BY <4>1, <3>2, <2>1, <1>4, <1>9, <1>11
    <3> QED
      BY <3>1, <3>2
  <2>2. CASE c # a
    <3>1. CASE m[c].next = NULL
      BY <3>1, <2>2, <1>1, <1>9, <1>12 DEF Listed, Forth
    <3>2. CASE m[c].next # NULL
      <4> DEFINE y == m[c].next
      <4>1. y = After(m, c) /\ m[y].prev = c /\ y \in DOMAIN m
        BY <3>2, <1>1 DEF Listed, Forth, Typed
      <4>2. y # b /\ y \in DOMAIN o
        BY <4>1, <2>2, <1>1, <1>8
      <4>3. y # x
        <5> SUFFICES ASSUME y = x PROVE FALSE
          OBVIOUS
        <5>1. m[x].prev = b
          BY <4>1, <3>2 DEF Listed, Forth
        <5> QED
          BY <5>1, <4>1, <1>1
      <4> QED
        BY <4>1, <4>2, <4>3, <3>2, <2>2, <1>9, <1>12
    <3> QED
      BY <3>1, <3>2
  <2> QED
    BY <2>1, <2>2
<1>14. Back(o)
  <2> SUFFICES ASSUME NEW c \in DOMAIN o
               PROVE  IF o[c].prev = NULL THEN c = Base(1) ELSE o[o[c].prev].next = c
    BY DEF Back
  <2>1. CASE c = x
    BY <2>1, <1>2, <1>9, <1>11
  <2>2. CASE c # x
    <3> DEFINE y == m[c].prev
    <3>1. o[c].prev = y
      BY <2>2, <1>9
    <3>2. CASE y = NULL
      BY <3>1, <3>2, <1>1 DEF Listed, Back
    <3>3. CASE y # NULL
      <4>1. y \in DOMAIN m /\ y # b /\ m[y].next = c
        BY <3>3, <2>2, <1>1, <1>7 DEF Listed, Back, Typed
      <4>2. y # a
        BY <4>1, <1>1
      <4> QED
        BY <4>1, <4>2, <3>1, <3>3, <1>1, <1>9
    <3> QED
      BY <3>2, <3>3
  <2> QED
    BY <2>1, <2>2
<1>15. Ordered(o)
  <2> SUFFICES ASSUME NEW c \in DOMAIN o, NEW d \in DOMAIN o, c < d PROVE After(o, c) <= d
    BY DEF Ordered
  <2>1. c \in Nat /\ d \in Nat /\ c \in DOMAIN m /\ d \in DOMAIN m /\ d # b
    BY <1>1 DEF Listed, Typed
  <2>2. CASE c = a
    <3>1. After(m, a) <= d
      BY <2>1, <2>2 DEF Listed, Ordered
    <3>2. b < d
      BY <3>1, <2>1, <1>2, <1>3 DEF After
    <3> QED
      BY <3>2, <2>1, <2>2, <1>11 DEF Listed, Ordered
  <2>3. CASE c # a
    BY <2>1, <2>3, <1>12 DEF Listed, Ordered
  <2> QED
    BY <2>2, <2>3
<1> QED
  BY <1>1, <1>3, <1>4, <1>9, <1>10, <1>11, <1>13, <1>14, <1>15 DEF Listed, o

(* mfree: a merge with the block behind, then with the block in front.  What
   is in use elsewhere stays as it is. *)
LEMMA FreedListed ==
  ASSUME NEW m, Listed(m), NEW b \in DOMAIN m
  PROVE  Listed(Freed(m, b)) /\ Keeps(m, Freed(m, b), b)
<1> DEFINE m1 == Marked(m, b, "FREE")
           m2 == WithNext(m1, b)
<1> USE DEF NULL
<1>1. /\ Listed(m1) /\ Keeps(m, m1, b) /\ b \in DOMAIN m1 /\ m1[b].magic = "FREE"
  BY MarkListed
<1>2. /\ Listed(m2) /\ b \in DOMAIN m2 /\ m2[b].magic = "FREE" /\ Keeps(m1, m2, b)
  <2> HIDE DEF m1
  <2>1. CASE IsFree(m1, m1[b].next)
    <3> DEFINE d == m1[b].next
    <3>1. d \in DOMAIN m1 /\ m1[d].magic = "FREE"
      BY <2>1, <1>1 DEF IsFree, Listed, Typed
    <3>2. m2 = Merged(m1, b, d)
      BY <2>1 DEF WithNext
    <3> HIDE DEF m2
    <3>3. /\ Listed(m2) /\ DOMAIN m2 = DOMAIN m1 \ {d} /\ b # d
          /\ \A c \in DOMAIN m1 \ {b, d} : m2[c].magic = m1[c].magic /\ m2[c].size = m1[c].size
          /\ m2[b].magic = m1[b].magic
      BY <3>1, <3>2, <1>1, MergeListed
    <3> QED
      BY <3>1, <3>3, <1>1 DEF Keeps
  <2>2. CASE ~IsFree(m1, m1[b].next)
    BY <2>2, <1>1 DEF WithNext, Keeps
  <2> QED
    BY <2>1, <2>2
<1>3. Freed(m, b) = WithPrev(m2, b)
  BY DEF Freed
<1>4. Listed(WithPrev(m2, b)) /\ Keeps(m2, WithPrev(m2, b), b)
  <2> HIDE DEF m2
  <2>1. CASE IsFree(m2, m2[b].prev)
    <3> DEFINE a == m2[b].prev
               m3 == Merged(m2, a, b)
    <3>1. a \in DOMAIN m2 /\ m2[a].magic = "FREE" /\ m2[a].next = b
      BY <2>1, <1>2 DEF IsFree, Listed, Typed, Back
    <3>2. WithPrev(m2, b) = m3
      BY <2>1 DEF WithPrev
    <3> HIDE DEF m3
    <3>3. /\ Listed(m3) /\ DOMAIN m3 = DOMAIN m2 \ {b}
          /\ \A c \in DOMAIN m2 \ {a, b} : m3[c].magic = m2[c].magic /\ m3[c].size = m2[c].size
      BY <3>1, <1>2, MergeListed DEF m3
    <3> QED
      BY <3>1, <3>2, <3>3 DEF Keeps
  <2>2. CASE ~IsFree(m2, m2[b].prev)
    BY <2>2, <1>2 DEF WithPrev, Keeps
  <2> QED
    BY <2>1, <2>2
<1> HIDE DEF m1, m2
<1> QED
  BY <1>1, <1>2, <1>3, <1>4 DEF Keeps

(* What malloc takes is large enough. *)
LEMMA NeededEnough ==
  ASSUME NEW size \in Nat
  PROVE  Needed(size) \in Nat /\ size <= Needed(size)
<1>1. CASE size < MIN_CHUNK_SIZE
  BY <1>1 DEF Needed, MIN_CHUNK_SIZE
<1>2. CASE ~(size < MIN_CHUNK_SIZE)
  <2> DEFINE k == (size + 15) \div 16
  <2>1. k \in Nat /\ size + 15 < 16 * k + 16
    OBVIOUS
  <2>2. Needed(size) = k * 16
    BY <1>2 DEF Needed
  <2> QED
    BY <2>1, <2>2
<1> QED
  BY <1>1, <1>2

-----------------------------------------------------------------------------
(* What mem_initialize leaves is such a list. *)
LEMMA InitListed == Init => Listed(mcb)
<1> SUFFICES ASSUME Init PROVE Listed(mcb)
  OBVIOUS
<1> USE DEF NULL, HEADER
<1> DEFINE K == DOMAIN mem_init
<1>1. PICK N \in Nat \ {0} : K = 1 .. N
  <2>1. mem_init \in Seq([base : Nat \ {0}, magic : {"USED", "FREE"}]) /\ mem_init # <<>>
    BY RegionsAssumption
  <2>2. Len(mem_init) \in Nat /\ K = 1 .. Len(mem_init) /\ Len(mem_init) # 0
    BY <2>1
  <2> QED
    BY <2>2
<1>2. \A i \in K : Base(i) \in Nat \ {0} /\ mem_init[i].magic \in {"USED", "FREE"}
                  /\ Base(i + 1) \in Nat /\ Base(i) + 16 <= Base(i + 1)
  <2>1. mem_init \in [K -> [base : Nat \ {0}, magic : {"USED", "FREE"}]]
    BY RegionsAssumption, LenProperties
  <2>2. \A i \in K : mem_init[i].base \in Nat \ {0} /\ mem_init[i].magic \in {"USED", "FREE"}
    BY <2>1
  <2> QED
    BY <2>2, RegionsAssumption DEF Base
<1>3. \A i, j \in K : i < j => Base(i + 1) <= Base(j)
  BY RegionsAssumption
<1>4. \A i, j \in K : Base(i) = Base(j) => i = j
  <2> SUFFICES ASSUME NEW i \in K, NEW j \in K, Base(i) = Base(j), i < j PROVE FALSE
    BY <1>1
  <2> QED
    BY <1>2, <1>3
<1> DEFINE o(i) == [magic |-> mem_init[i].magic,
                    size  |-> Base(i + 1) - Base(i) - 16,
                    prev  |-> IF i = 1 THEN NULL ELSE Base(i - 1),
                    next  |-> IF i + 1 \in K THEN Base(i + 1) ELSE NULL]
<1>5. DOMAIN mcb = {Base(i) : i \in K}
  BY DEF Init
<1>6. \A i \in K : mcb[Base(i)] = o(i)
  <2> TAKE i \in K
  <2>1. (CHOOSE j \in K : Base(j) = Base(i)) = i
    BY <1>4
  <2> QED
    BY <2>1 DEF Init
<1>7. mcb = [b \in DOMAIN mcb |-> mcb[b]]
  BY DEF Init
<1>8. \A i \in K : i + 1 \in K => Base(i + 1) # NULL
  BY <1>2
<1>9. \A i \in K : i # 1 => i - 1 \in K /\ Base(i - 1) # NULL /\ i - 1 + 1 = i
  BY <1>1, <1>2
<1>10. Typed(mcb)
  <2>1. ASSUME NEW i \in K
        PROVE  o(i) \in [magic : {"USED", "FREE"}, size : Nat,
                        prev : DOMAIN mcb \cup {NULL}, next : DOMAIN mcb \cup {NULL}]
    <3> DEFINE r == Base(i + 1) - Base(i) - 16
               p == IF i = 1 THEN NULL ELSE Base(i - 1)
               q == IF i + 1 \in K THEN Base(i + 1) ELSE NULL
    <3>1. r \in Nat
      BY <1>2
    <3>2. p \in DOMAIN mcb \cup {NULL}
      BY <1>5, <1>9
    <3>3. q \in DOMAIN mcb \cup {NULL}
      BY <1>5
    <3>4. mem_init[i].magic \in {"USED", "FREE"}
      BY <1>2
    <3> HIDE DEF p, q, r
    <3>5. [magic |-> mem_init[i].magic, size |-> r, prev |-> p, next |-> q]
            \in [magic : {"USED", "FREE"}, size : Nat,
                 prev : DOMAIN mcb \cup {NULL}, next : DOMAIN mcb \cup {NULL}]
      BY <3>1, <3>2, <3>3, <3>4
    <3> QED
      BY <3>5 DEF p, q, r
  <2>2. DOMAIN mcb \subseteq Nat \ {0}
    BY <1>2, <1>5
  <2> HIDE DEF o
  <2>3. \A b \in DOMAIN mcb : mcb[b] \in [magic : {"USED", "FREE"}, size : Nat,
                               prev : DOMAIN mcb \cup {NULL}, next : DOMAIN mcb \cup {NULL}]
    BY <2>1, <1>5, <1>6
  <2> QED
    BY <2>2, <2>3, <1>7 DEF Typed
<1>11. ASSUME NEW i \in K
       PROVE  /\ mcb[Base(i)].next = IF i + 1 \in K THEN Base(i + 1) ELSE NULL
              /\ mcb[Base(i)].prev = IF i = 1 THEN NULL ELSE Base(i - 1)
              /\ After(mcb, Base(i)) = Base(i + 1)
  <2> DEFINE r == Base(i + 1) - Base(i) - 16
             p == IF i = 1 THEN NULL ELSE Base(i - 1)
             q == IF i + 1 \in K THEN Base(i + 1) ELSE NULL
  <2>0. mcb[Base(i)] = [magic |-> mem_init[i].magic, size |-> r, prev |-> p, next |-> q]
    BY <1>6
  <2> HIDE DEF p, q, r
  <2>1. mcb[Base(i)].size = r /\ mcb[Base(i)].prev = p /\ mcb[Base(i)].next = q
    BY <2>0
  <2> USE DEF p, q, r
  <2>2. Base(i) + 16 + (Base(i + 1) - Base(i) - 16) = Base(i + 1)
    BY <1>2
  <2> HIDE DEF K
  <2> QED
    BY <2>1, <2>2 DEF After
<1> HIDE DEF K, o
<1>12. Forth(mcb)
  <2> SUFFICES ASSUME NEW i \in K
               PROVE  IF mcb[Base(i)].next = NULL THEN After(mcb, Base(i)) = MEM_END
                      ELSE /\ mcb[Base(i)].next = After(mcb, Base(i))
                           /\ mcb[mcb[Base(i)].next].prev = Base(i)
    BY <1>5 DEF Forth
  <2>1. CASE i + 1 \in K
    <3>1. i \in Nat /\ i # 0
      BY <1>1 DEF K
    <3> DEFINE j == i + 1
    <3>2. mcb[Base(j)].prev = Base(i)
      <4>1. j \in K /\ j # 1 /\ j - 1 = i
        BY <3>1, <2>1
      <4> HIDE DEF j
      <4> QED
        BY <4>1, <1>11
    <3> QED
      BY <3>2, <2>1, <1>8, <1>11
  <2>2. CASE i + 1 \notin K
    <3>1. Base(i + 1) = MEM_END
      BY <2>2 DEF Base, K
    <3> QED
      BY <3>1, <2>2, <1>11
  <2> QED
    BY <2>1, <2>2
<1>13. Back(mcb)
  <2> SUFFICES ASSUME NEW i \in K
               PROVE  IF mcb[Base(i)].prev = NULL THEN Base(i) = Base(1)
                      ELSE mcb[mcb[Base(i)].prev].next = Base(i)
    BY <1>5 DEF Back
  <2>1. CASE i = 1
    BY <2>1, <1>11
  <2>2. CASE i # 1
    <3>1. i - 1 \in K /\ Base(i - 1) # NULL /\ i - 1 + 1 = i
      BY <2>2, <1>9
    <3>2. mcb[Base(i - 1)].next = Base(i)
      BY <3>1, <1>11
    <3> QED
      BY <3>1, <3>2, <2>2, <1>11
  <2> QED
    BY <2>1, <2>2
<1>14. Ordered(mcb)
  <2> SUFFICES ASSUME NEW i \in K, NEW j \in K, Base(i) < Base(j)
               PROVE  After(mcb, Base(i)) <= Base(j)
    BY <1>5 DEF Ordered
  <2>1. i < j
    <3> SUFFICES ASSUME j < i PROVE FALSE
      BY <1>1, <1>2
    <3> QED
      BY <1>2, <1>3
  <2> QED
    BY <2>1, <1>3, <1>11
<1> QED
  BY <1>10, <1>12, <1>13, <1>14 DEF Listed

-----------------------------------------------------------------------------
(* Held blocks are in use, large enough and not held twice, and mrealloc frees
   a block that is held. *)
Holds(m) ==
  \A n \in DOMAIN live :
    /\ live[n].ptr \in Nat /\ live[n].size \in Nat \ {0}
    /\ live[n].ptr - HEADER \in DOMAIN m
    /\ m[live[n].ptr - HEADER].magic = "USED"
    /\ live[n].size <= m[live[n].ptr - HEADER].size
NotTwice == \A k, n \in DOMAIN live : live[k].ptr = live[n].ptr => k = n
Moving   == call = "mrealloc" => moving \in DOMAIN live

LoaderInv == Listed(mcb) /\ Holds(mcb) /\ NotTwice /\ Moving

(* A block that nobody holds is changed: the others are as they were. *)
LEMMA TakesKeepsInv ==
  ASSUME LoaderInv, NEW size \in RequestSizes, Takes(size)
  PROVE  /\ Listed(mcb') /\ Holds(mcb)' /\ NotTwice'
         /\ DOMAIN live \subseteq DOMAIN live'
<1> USE DEF HEADER
<1>1. PICK b \in Fitting(size), n \in Unused :
        mcb' = Allocated(b, size) /\ live' = With(n, b + HEADER, size)
  BY DEF Takes
<1>2. /\ b \in DOMAIN mcb /\ mcb[b].magic = "FREE" /\ mcb[b].size >= Needed(size)
      /\ b \in Nat /\ mcb[b].size \in Nat /\ n \notin DOMAIN live
  BY DEF Fitting, Unused, LoaderInv, Listed, Typed
<1>3. size \in Nat \ {0} /\ Needed(size) \in Nat /\ size <= Needed(size)
  BY RequestAssumption, NeededEnough
<1> DEFINE m1 == IF mcb[b].size >= Needed(size) + MIN_CHUNK_SIZE
                 THEN malloc_split_block(mcb, b, Needed(size)) ELSE mcb
<1>4. /\ Listed(m1) /\ b \in DOMAIN m1 /\ Keeps(mcb, m1, b)
      /\ m1[b].size \in Nat /\ Needed(size) <= m1[b].size
  <2>1. CASE mcb[b].size >= Needed(size) + MIN_CHUNK_SIZE
    <3>1. Needed(size) + HEADER <= mcb[b].size
      BY <2>1, <1>2, <1>3 DEF MIN_CHUNK_SIZE
    <3> QED
      BY <3>1, <2>1, <1>2, <1>3, SplitListed DEF LoaderInv
  <2>2. CASE ~(mcb[b].size >= Needed(size) + MIN_CHUNK_SIZE)
    BY <2>2, <1>2, <1>3 DEF LoaderInv, Keeps
  <2> QED
    BY <2>1, <2>2
<1>5. mcb' = Marked(m1, b, "USED")
  BY <1>1 DEF Allocated
<1> HIDE DEF m1
<1>6. /\ Listed(mcb') /\ Keeps(m1, mcb', b) /\ b \in DOMAIN mcb'
      /\ mcb'[b].magic = "USED" /\ mcb'[b].size = m1[b].size
  BY <1>4, <1>5, MarkListed
<1>7. \A c \in DOMAIN mcb \ {b} : mcb[c].magic = "USED" =>
        c \in DOMAIN mcb' /\ mcb'[c].magic = "USED" /\ mcb'[c].size = mcb[c].size
  BY <1>4, <1>6 DEF Keeps
<1>8. /\ DOMAIN live' = DOMAIN live \cup {n} /\ live'[n] = [ptr |-> b + HEADER, size |-> size]
      /\ \A k \in DOMAIN live : live'[k] = live[k]
  BY <1>1, <1>2 DEF With
<1>9. \A k \in DOMAIN live : live[k].ptr # b + HEADER
  BY <1>2 DEF LoaderInv, Holds
<1>10. Holds(mcb)'
  <2> SUFFICES ASSUME NEW k \in DOMAIN live'
               PROVE  /\ live'[k].ptr \in Nat /\ live'[k].size \in Nat \ {0}
                      /\ live'[k].ptr - HEADER \in DOMAIN mcb'
                      /\ mcb'[live'[k].ptr - HEADER].magic = "USED"
                      /\ live'[k].size <= mcb'[live'[k].ptr - HEADER].size
    BY DEF Holds
  <2>1. CASE k = n
    <3>1. live'[k].ptr = b + 16 /\ live'[k].size = size /\ b + 16 - 16 = b
      BY <2>1, <1>2, <1>8
    <3> QED
      BY <3>1, <1>2, <1>3, <1>4, <1>6
  <2>2. CASE k # n
    <3>1. k \in DOMAIN live /\ live'[k] = live[k] /\ live[k].ptr - HEADER # b
      BY <2>2, <1>2, <1>8 DEF LoaderInv, Holds
    <3> QED
      BY <3>1, <1>7 DEF LoaderInv, Holds
  <2> QED
    BY <2>1, <2>2
<1>11. NotTwice'
  BY <1>8, <1>9 DEF LoaderInv, NotTwice
<1> QED
  BY <1>6, <1>8, <1>10, <1>11

LEMMA GivesKeepsInv ==
  ASSUME LoaderInv, NEW n \in DOMAIN live, Gives(n)
  PROVE  Listed(mcb') /\ Holds(mcb)' /\ NotTwice'
<1> USE DEF HEADER
<1> DEFINE b == live[n].ptr - HEADER
<1>1. b \in DOMAIN mcb /\ mcb' = Freed(mcb, b) /\ live' = Without(n)
  BY DEF Gives, LoaderInv, Holds
<1>2. Listed(mcb') /\ Keeps(mcb, mcb', b)
  BY <1>1, FreedListed DEF LoaderInv
<1>3. DOMAIN live' = DOMAIN live \ {n} /\ \A k \in DOMAIN live' : live'[k] = live[k]
  BY <1>1 DEF Without
<1>4. \A k \in DOMAIN live' : live[k].ptr - HEADER # b
  BY <1>3 DEF LoaderInv, NotTwice, Holds
<1> HIDE DEF b
<1>5. Holds(mcb)'
  BY <1>2, <1>3, <1>4 DEF LoaderInv, Holds, Keeps
<1> QED
  BY <1>2, <1>3, <1>5 DEF LoaderInv, NotTwice

LEMMA MreallocKeepsInv ==
  ASSUME LoaderInv, NEW n \in DOMAIN live, NEW size \in RequestSizes, Mrealloc(n, size)
  PROVE  Listed(mcb') /\ Holds(mcb)' /\ NotTwice'
<1> USE DEF HEADER
<1> DEFINE b == live[n].ptr - HEADER
<1>1. /\ b \in DOMAIN mcb /\ mcb[b].magic = "USED" /\ live[n].ptr \in Nat /\ mcb[b].size \in Nat
      /\ size <= mcb[b].size
      /\ live' = With(n, live[n].ptr, size)
      /\ mcb' = IF size < mcb[b].size - MIN_CHUNK_SIZE THEN malloc_split_block(mcb, b, size) ELSE mcb
  BY DEF Mrealloc, Stays, LoaderInv, Listed, Typed, Holds
<1>2. size \in Nat \ {0}
  BY RequestAssumption
<1>3. /\ DOMAIN live' = DOMAIN live /\ live'[n] = [ptr |-> live[n].ptr, size |-> size]
      /\ \A k \in DOMAIN live \ {n} : live'[k] = live[k]
  BY <1>1 DEF With
<1>4. \A k \in DOMAIN live \ {n} : live[k].ptr - HEADER # b
  BY DEF LoaderInv, NotTwice, Holds
<1> HIDE DEF b
<1>5. /\ Listed(mcb') /\ Keeps(mcb, mcb', b) /\ b \in DOMAIN mcb'
      /\ mcb'[b].magic = "USED" /\ size <= mcb'[b].size
  <2>1. CASE size < mcb[b].size - MIN_CHUNK_SIZE
    <3>1. size + HEADER <= mcb[b].size
      BY <2>1, <1>1, <1>2 DEF MIN_CHUNK_SIZE
    <3> QED
      BY <3>1, <2>1, <1>1, <1>2, SplitListed DEF LoaderInv
  <2>2. CASE ~(size < mcb[b].size - MIN_CHUNK_SIZE)
    BY <2>2, <1>1 DEF LoaderInv, Keeps
  <2> QED
    BY <2>1, <2>2
<1>6. Holds(mcb)'
  <2> SUFFICES ASSUME NEW k \in DOMAIN live'
               PROVE  /\ live'[k].ptr \in Nat /\ live'[k].size \in Nat \ {0}
                      /\ live'[k].ptr - HEADER \in DOMAIN mcb'
                      /\ mcb'[live'[k].ptr - HEADER].magic = "USED"
                      /\ live'[k].size <= mcb'[live'[k].ptr - HEADER].size
    BY DEF Holds
  <2>1. CASE k = n
    BY <2>1, <1>1, <1>2, <1>3, <1>5 DEF b
  <2>2. CASE k # n
    BY <2>2, <1>3, <1>4, <1>5 DEF LoaderInv, Holds, Keeps
  <2> QED
    BY <2>1, <2>2
<1>7. \A k \in DOMAIN live : live'[k].ptr = live[k].ptr
  BY <1>3
<1> QED
  BY <1>3, <1>5, <1>6, <1>7 DEF LoaderInv, NotTwice

(* The list is whole, and what is held is in use and held once, in every
   state. *)
THEOREM LoaderInductive == Spec => []LoaderInv
<1>1. Init => LoaderInv
  BY InitListed DEF Init, LoaderInv, Holds, NotTwice, Moving
<1>2. LoaderInv /\ [Next]_loaderVars => LoaderInv'
  <2> SUFFICES ASSUME LoaderInv, [Next]_loaderVars PROVE LoaderInv'
    OBVIOUS
  <2>1. ASSUME NEW size \in RequestSizes, Malloc(size) PROVE LoaderInv'
    <3>1. CASE Freeze(size)
      BY <3>1 DEF Freeze, LoaderInv, Holds, NotTwice, Moving
    <3>2. CASE Takes(size) /\ UNCHANGED <<call, moving, vector2>>
      BY <3>2, TakesKeepsInv, <2>1 DEF LoaderInv, Moving
    <3> QED
      BY <2>1, <3>1, <3>2 DEF Malloc
  <2>2. ASSUME NEW n \in DOMAIN live, Mfree(n) PROVE LoaderInv'
    BY <2>2, GivesKeepsInv DEF Mfree, LoaderInv, Moving
  <2>3. ASSUME NEW n \in DOMAIN live, NEW size \in RequestSizes, Mrealloc(n, size)
        PROVE  LoaderInv'
    BY <2>3, MreallocKeepsInv DEF Mrealloc, LoaderInv, Moving
  <2>4. ASSUME NEW n \in DOMAIN live, NEW size \in RequestSizes, MreallocMalloc(n, size)
        PROVE  LoaderInv'
    <3>1. CASE Freeze(size)
      BY <3>1 DEF Freeze, LoaderInv, Holds, NotTwice, Moving
    <3>2. CASE Takes(size) /\ moving' = n
      <4>1. Listed(mcb') /\ Holds(mcb)' /\ NotTwice' /\ DOMAIN live \subseteq DOMAIN live'
        BY <3>2, TakesKeepsInv
      <4> QED
        BY <4>1, <3>2 DEF LoaderInv, Moving
    <3> QED
      BY <2>4, <3>1, <3>2 DEF MreallocMalloc
  <2>5. CASE MreallocFree
    BY <2>5, GivesKeepsInv DEF MreallocFree, LoaderInv, Moving
  <2>6. CASE UNCHANGED loaderVars
    BY <2>6 DEF loaderVars, LoaderInv, Holds, NotTwice, Moving
  <2> QED
    BY <2>1, <2>2, <2>3, <2>4, <2>5, <2>6 DEF Next
<1> QED
  BY <1>1, <1>2, PTL DEF Spec

(* The blocks cover all memory in the order of the list, after any calls. *)
THEOREM LoaderListSound == Spec => []LoaderListWhole
<1>1. LoaderInv => LoaderListWhole
  BY DEF LoaderInv, Listed, Typed, Forth, Back, Ordered, After, LoaderListWhole, NULL
<1> QED
  BY <1>1, LoaderInductive, PTL

(* What the callers hold is in use and as large as they asked, after any
   calls. *)
THEOREM LoaderHeld == Spec => []HeldAreUsed
<1>1. LoaderInv => HeldAreUsed
  BY DEF LoaderInv, Holds, HeldAreUsed
<1> QED
  BY <1>1, LoaderInductive, PTL

-----------------------------------------------------------------------------
Block(n) == [place |-> "memory", number |-> n, from |-> live[n].ptr,
             to |-> live[n].ptr + live[n].size]
Blocks == {Block(n) : n \in DOMAIN live}

(* Two runs of bytes behind the headers of two blocks share none. *)
LEMMA RunsApart ==
  ASSUME NEW m, Listed(m), NEW b \in DOMAIN m, NEW c \in DOMAIN m, b # c,
         NEW s \in Nat, s <= m[b].size, NEW t \in Nat, t <= m[c].size
  PROVE  b + HEADER + s <= c + HEADER \/ c + HEADER + t <= b + HEADER
<1>1. b \in Nat /\ c \in Nat /\ m[b].size \in Nat /\ m[c].size \in Nat
  BY DEF Listed, Typed
<1>2. b < c => b + 16 + m[b].size <= c
  BY DEF Listed, Ordered, After, HEADER
<1>3. c < b => c + 16 + m[c].size <= b
  BY DEF Listed, Ordered, After, HEADER
<1> QED
  BY <1>1, <1>2, <1>3 DEF HEADER

LEMMA AllocateRefines ==
  ASSUME LoaderInv, NEW size \in RequestSizes, Takes(size)
  PROVE  Abstract!Allocate
<1> USE DEF HEADER
<1>1. PICK b \in Fitting(size), n \in Unused : live' = With(n, b + HEADER, size)
  BY DEF Takes
<1>2. /\ b \in DOMAIN mcb /\ mcb[b].magic = "FREE" /\ mcb[b].size >= Needed(size)
      /\ b \in Nat /\ mcb[b].size \in Nat /\ n \notin DOMAIN live
  BY DEF Fitting, Unused, LoaderInv, Listed, Typed
<1>3. size \in Nat \ {0} /\ Needed(size) \in Nat /\ size <= Needed(size)
  BY RequestAssumption, NeededEnough
<1> DEFINE x == [place |-> "memory", number |-> n, from |-> b + 16, to |-> b + 16 + size]
<1>4. /\ DOMAIN live' = DOMAIN live \cup {n} /\ live'[n] = [ptr |-> b + 16, size |-> size]
      /\ \A k \in DOMAIN live : live'[k] = live[k]
  BY <1>1, <1>2 DEF With
<1>5. Block(n)' = x /\ \A k \in DOMAIN live : Block(k)' = Block(k)
  BY <1>4 DEF Block
<1>6. Blocks' = Blocks \cup {x}
  BY <1>4, <1>5 DEF Blocks
<1>7. x \notin Blocks
  <2>1. \A k \in DOMAIN live : Block(k).number = k /\ x.number = n
    BY DEF Block
  <2> QED
    BY <2>1, <1>2 DEF Blocks
<1>8. \A k \in DOMAIN live : x.to <= Block(k).from \/ Block(k).to <= x.from
  <2> TAKE k \in DOMAIN live
  <2> DEFINE c == live[k].ptr - 16
  <2>1. /\ c \in DOMAIN mcb /\ c # b /\ live[k].size \in Nat /\ live[k].size <= mcb[c].size
        /\ live[k].ptr \in Nat
    BY <1>2 DEF LoaderInv, Holds
  <2>2. size <= mcb[b].size
    BY <1>2, <1>3
  <2>3. b + 16 + size <= c + 16 \/ c + 16 + live[k].size <= b + 16
    BY <2>1, <2>2, <1>2, <1>3, RunsApart DEF LoaderInv
  <2>4. c + 16 = live[k].ptr
    BY <2>1
  <2> QED
    BY <2>3, <2>4 DEF Block
<1>9. x.place = "memory" /\ x.from < x.to
  BY <1>2, <1>3
<1> HIDE DEF x
<1>10. \A y \in Blocks : x.to <= y.from \/ y.to <= x.from
  BY <1>8 DEF Blocks
<1> QED
  BY <1>6, <1>7, <1>9, <1>10 DEF Abstract!Allocate, Abstract!Disjoint, Blocks, Block

LEMMA FreeRefines ==
  ASSUME NEW n \in DOMAIN live, Gives(n)
  PROVE  Abstract!Free
<1>1. DOMAIN live' = DOMAIN live \ {n} /\ \A k \in DOMAIN live' : live'[k] = live[k]
  BY DEF Gives, Without
<1>2. \A k \in DOMAIN live' : Block(k)' = Block(k)
  BY <1>1 DEF Block
<1>3. \A k \in DOMAIN live : Block(k) = Block(n) => k = n
  BY DEF Block
<1>4. Blocks' = Blocks \ {Block(n)}
  BY <1>1, <1>2, <1>3 DEF Blocks
<1>5. Block(n) \in Blocks
  BY DEF Blocks
<1> QED
  BY <1>4, <1>5 DEF Abstract!Free, Blocks, Block

LEMMA ResizeRefines ==
  ASSUME LoaderInv, NEW n \in DOMAIN live, NEW size \in RequestSizes, Mrealloc(n, size)
  PROVE  Abstract!Resize
<1> USE DEF HEADER
<1> DEFINE b == live[n].ptr - 16
           y == [place |-> "memory", number |-> n, from |-> live[n].ptr, to |-> live[n].ptr + size]
<1>1. /\ b \in DOMAIN mcb /\ live[n].ptr \in Nat /\ size <= mcb[b].size /\ mcb[b].size \in Nat
      /\ live' = With(n, live[n].ptr, size)
  BY DEF Mrealloc, Stays, LoaderInv, Listed, Typed, Holds
<1>2. size \in Nat \ {0}
  BY RequestAssumption
<1>3. /\ DOMAIN live' = DOMAIN live /\ live'[n] = [ptr |-> live[n].ptr, size |-> size]
      /\ \A k \in DOMAIN live \ {n} : live'[k] = live[k]
  BY <1>1 DEF With
<1>4. Block(n)' = y /\ \A k \in DOMAIN live \ {n} : Block(k)' = Block(k)
  BY <1>3 DEF Block
<1>5. \A k \in DOMAIN live : Block(k) = Block(n) => k = n
  BY DEF Block
<1>6. Blocks' = (Blocks \ {Block(n)}) \cup {y}
  BY <1>3, <1>4, <1>5 DEF Blocks
<1>7. y \in Blocks' /\ Block(n) \in Blocks
  BY <1>3, <1>4 DEF Blocks
<1>8. \A k \in DOMAIN live \ {n} : y.to <= Block(k).from \/ Block(k).to <= y.from
  <2> TAKE k \in DOMAIN live \ {n}
  <2> DEFINE c == live[k].ptr - 16
  <2>1. /\ c \in DOMAIN mcb /\ c # b /\ live[k].size \in Nat /\ live[k].size <= mcb[c].size
        /\ live[k].ptr \in Nat
    BY <1>1 DEF LoaderInv, Holds, NotTwice
  <2>2. b + 16 + size <= c + 16 \/ c + 16 + live[k].size <= b + 16
    BY <2>1, <1>1, <1>2, RunsApart DEF LoaderInv
  <2>3. c + 16 = live[k].ptr /\ b + 16 = live[n].ptr
    BY <2>1, <1>1
  <2> QED
    BY <2>2, <2>3 DEF Block
<1>9. y.place = Block(n).place /\ y.from = Block(n).from /\ y.from < y.to
  BY <1>1, <1>2 DEF Block
<1> HIDE DEF y
<1>10. \A z \in Blocks \ {Block(n)} : y.to <= z.from \/ z.to <= y.from
  BY <1>8 DEF Blocks
<1> QED
  BY <1>6, <1>7, <1>9, <1>10 DEF Abstract!Resize, Abstract!Disjoint, Blocks, Block

(* Every step of the loader's heap is one of the abstract heap, or changes
   nothing there: a mrealloc that moves is an allocation and then a free. *)
THEOREM LoaderRefines == Spec => LoaderIsHeap
<1>1. Init => Abstract!Init
  BY DEF Init, Abstract!Init
<1>2. LoaderInv /\ [Next]_loaderVars => [Abstract!Next]_Blocks
  <2> SUFFICES ASSUME LoaderInv, [Next]_loaderVars PROVE Abstract!Next \/ UNCHANGED Blocks
    OBVIOUS
  <2>1. ASSUME UNCHANGED live PROVE UNCHANGED Blocks
    BY <2>1 DEF Blocks, Block
  <2>2. ASSUME NEW size \in RequestSizes, Malloc(size) PROVE Abstract!Next \/ UNCHANGED Blocks
    BY <2>1, <2>2, AllocateRefines DEF Malloc, Freeze, Abstract!Next
  <2>3. ASSUME NEW n \in DOMAIN live, Mfree(n) PROVE Abstract!Next
    BY <2>3, FreeRefines DEF Mfree, Abstract!Next
  <2>4. ASSUME NEW n \in DOMAIN live, NEW size \in RequestSizes, Mrealloc(n, size)
        PROVE  Abstract!Next
    BY <2>4, ResizeRefines DEF Abstract!Next
  <2>5. ASSUME NEW n \in DOMAIN live, NEW size \in RequestSizes, MreallocMalloc(n, size)
        PROVE  Abstract!Next \/ UNCHANGED Blocks
    BY <2>1, <2>5, AllocateRefines DEF MreallocMalloc, Freeze, Abstract!Next
  <2>6. CASE MreallocFree
    BY <2>6, FreeRefines DEF MreallocFree, LoaderInv, Moving, Abstract!Next
  <2>7. CASE UNCHANGED loaderVars
    BY <2>1, <2>7 DEF loaderVars
  <2> QED
    BY <2>2, <2>3, <2>4, <2>5, <2>6, <2>7 DEF Next
<1> QED
  BY <1>1, <1>2, LoaderInductive, PTL DEF Spec, LoaderIsHeap, Abstract!Spec, Blocks, Block

-----------------------------------------------------------------------------
(* Type correctness: what LoaderInv does not say of the variables. *)
Entry == [ptr : Nat, size : RequestSizes]

CallsTyped ==
  /\ live \in [DOMAIN live -> Entry]
  /\ moving = 0 \/ moving \in DOMAIN live
  /\ call \in {"none", "mrealloc", "frozen"} /\ (moving # 0 <=> call = "mrealloc")
  /\ vector2 \in BOOLEAN
  /\ 0 \notin DOMAIN live

LEMMA WithTyped ==
  ASSUME live \in [DOMAIN live -> Entry], NEW n, NEW ptr \in Nat, NEW size \in RequestSizes
  PROVE  /\ With(n, ptr, size) \in [DOMAIN With(n, ptr, size) -> Entry]
         /\ DOMAIN With(n, ptr, size) = DOMAIN live \cup {n}
<1>1. [ptr |-> ptr, size |-> size] \in Entry
  BY DEF Entry
<1> QED
  BY <1>1 DEF With

LEMMA TakesTyped ==
  ASSUME LoaderInv, CallsTyped, NEW size \in RequestSizes, Takes(size)
  PROVE  /\ live' \in [DOMAIN live' -> Entry] /\ 0 \notin DOMAIN live'
         /\ DOMAIN live \subseteq DOMAIN live'
<1>1. PICK b \in Fitting(size), n \in Unused : live' = With(n, b + HEADER, size)
  BY DEF Takes
<1>2. b + HEADER \in Nat /\ n # 0
  BY DEF Fitting, Unused, LoaderInv, Listed, Typed, HEADER
<1>3. live \in [DOMAIN live -> Entry] /\ 0 \notin DOMAIN live
  BY DEF CallsTyped
<1>4. live' \in [DOMAIN live' -> Entry] /\ DOMAIN live' = DOMAIN live \cup {n}
  BY <1>1, <1>2, <1>3, WithTyped
<1> QED
  BY <1>2, <1>3, <1>4

LEMMA GivesTyped ==
  ASSUME LoaderInv, CallsTyped, NEW n \in DOMAIN live, Gives(n)
  PROVE  /\ live' \in [DOMAIN live' -> Entry] /\ 0 \notin DOMAIN live'
         /\ vector2' \in BOOLEAN
  BY DEF Gives, Without, CallsTyped

(* The variables of the loader's heap have their values: also the headers, after
   any split and merge, and mrealloc frees a block of the callers. *)
THEOREM LoaderTypes == Spec => []TypeOK
<1>1. Init => CallsTyped
  BY DEF Init, CallsTyped
<1>2. LoaderInv /\ CallsTyped /\ [Next]_loaderVars => CallsTyped'
  <2> SUFFICES ASSUME LoaderInv, CallsTyped, [Next]_loaderVars PROVE CallsTyped'
    OBVIOUS
  <2>1. ASSUME NEW size \in RequestSizes, Freeze(size), call = "none" PROVE CallsTyped'
    BY <2>1 DEF Freeze, CallsTyped
  <2>2. ASSUME NEW size \in RequestSizes, Malloc(size) PROVE CallsTyped'
    BY <2>1, <2>2, TakesTyped DEF Malloc, CallsTyped
  <2>3. ASSUME NEW n \in DOMAIN live, Mfree(n) PROVE CallsTyped'
    BY <2>3, GivesTyped DEF Mfree, CallsTyped
  <2>4. ASSUME NEW n \in DOMAIN live, NEW size \in RequestSizes, Mrealloc(n, size)
        PROVE  CallsTyped'
    <3>1. live[n].ptr \in Nat /\ DOMAIN live \cup {n} = DOMAIN live
      BY DEF LoaderInv, Holds
    <3>2. live' \in [DOMAIN live' -> Entry] /\ DOMAIN live' = DOMAIN live
      BY <2>4, <3>1, WithTyped DEF Mrealloc, CallsTyped
    <3> QED
      BY <2>4, <3>2 DEF Mrealloc, CallsTyped
  <2>5. ASSUME NEW n \in DOMAIN live, NEW size \in RequestSizes, MreallocMalloc(n, size)
        PROVE  CallsTyped'
    BY <2>1, <2>5, TakesTyped DEF MreallocMalloc, CallsTyped
  <2>6. CASE MreallocFree
    <3>1. moving \in DOMAIN live
      BY <2>6 DEF MreallocFree, LoaderInv, Moving
    <3> QED
      BY <2>6, <3>1, GivesTyped DEF MreallocFree, CallsTyped
  <2>7. CASE UNCHANGED loaderVars
    BY <2>7 DEF loaderVars, CallsTyped
  <2> QED
    BY <2>2, <2>3, <2>4, <2>5, <2>6, <2>7 DEF Next
<1>3. LoaderInv /\ CallsTyped => TypeOK
  BY DEF LoaderInv, Listed, Typed, CallsTyped, Entry, TypeOK
<1> QED
  BY <1>1, <1>2, <1>3, LoaderInductive, PTL DEF Spec
=============================================================================
