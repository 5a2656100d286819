-------------------------- MODULE KernelHeapProofs --------------------------
(***************************************************************************)
(* What no interleaving of the threads can do to kernel_heap: to its lock  *)
(* and its list of pebbles first, then to what lies in it, its record, its *)
(* free pebbles, and who owns the pebbles that are in use.  A bucket that  *)
(* mfree gives back can be unmapped under a thread that waits for its      *)
(* lock, so nothing is claimed of the others but the fields the argument   *)
(* needs; kernel_heap is persistent, and for it the lock does protect the  *)
(* list of pebbles.                                                        *)
(***************************************************************************)
EXTENDS BucketHeapProperties, TLAPS, WellFoundedInduction

-----------------------------------------------------------------------------
(* What the operations on a pebble list preserve, for every list *)

(* Headers are where SPLIT_PEBBLE and AlignedAt can put one, and so is what
   follows their bytes. *)
OnGrid(P) ==
  \A a \in DOMAIN P : a % PEBBLE_MIN_ALIGN = 0 /\ P[a].size % PEBBLE_MIN_ALIGN = 0

(* A pebble list of a bucket of this many bytes. *)
Sound(P, bytes) == IsList(P) /\ ListWellFormed(P, bytes) /\ OnGrid(P)

(* How far the pebble at a may reach. *)
Limit(P, a, bytes) == IF P[a].next = NULL THEN bytes ELSE P[a].next

(* A pebble that gives up bytes or changes its flags disturbs nothing. *)
LEMMA ShrinkSound ==
  ASSUME NEW P, NEW bytes \in Nat, Sound(P, bytes),
         NEW d \in DOMAIN P, NEW s \in Nat, s <= P[d].size,
         s % PEBBLE_MIN_ALIGN = 0
  PROVE  LET Q == [P EXCEPT ![d].size = s]
         IN  Sound(Q, bytes) /\ DOMAIN Q = DOMAIN P /\ Q[d] = [P[d] EXCEPT !.size = s]
<1> DEFINE Q == [P EXCEPT ![d].size = s]
<1> USE NullAssumption
<1>0. P \in [DOMAIN P -> Pebble] /\ DOMAIN P \subseteq Nat
  BY DEF Sound, IsList
<1>1. DOMAIN Q = DOMAIN P
  OBVIOUS
<1>2. \A x \in DOMAIN P : /\ Q[x].prev = P[x].prev /\ Q[x].next = P[x].next
                          /\ Q[x].size <= P[x].size /\ Q[x] \in Pebble
  BY <1>0 DEF Pebble
<1>3. IsList(Q)
  BY <1>0, <1>2 DEF IsList
<1>4. ListWellFormed(Q, bytes)
  BY <1>0, <1>1, <1>2 DEF Sound, ListWellFormed, LinksAgree, InOrder, Inside, EndOf, Pebble,
     FirstPebble, PEBBLE_SZ, BUCKET_SZ
<1>6. Q[d] = [P[d] EXCEPT !.size = s] /\ Q[d].size = s
  BY <1>0 DEF Pebble
<1>5. OnGrid(Q)
  BY <1>0, <1>1, <1>6 DEF Sound, OnGrid
<1> QED
  BY <1>1, <1>3, <1>4, <1>5, <1>6 DEF Sound

(* Marking a pebble free or in use keeps a list sound. *)
LEMMA FlagsSound ==
  ASSUME NEW P, NEW bytes \in Nat, Sound(P, bytes),
         NEW d \in DOMAIN P, NEW f \in SUBSET PebbleFlags
  PROVE  LET Q == [P EXCEPT ![d].lflags = f]
         IN  Sound(Q, bytes) /\ DOMAIN Q = DOMAIN P
<1> DEFINE Q == [P EXCEPT ![d].lflags = f]
<1> USE NullAssumption
<1>0. P \in [DOMAIN P -> Pebble] /\ DOMAIN P \subseteq Nat
  BY DEF Sound, IsList
<1>1. DOMAIN Q = DOMAIN P
  OBVIOUS
<1>2. \A x \in DOMAIN P : /\ Q[x].prev = P[x].prev /\ Q[x].next = P[x].next
                          /\ Q[x].size = P[x].size /\ Q[x] \in Pebble
  BY <1>0 DEF Pebble
<1>3. IsList(Q)
  BY <1>0, <1>2 DEF IsList
<1>4. ListWellFormed(Q, bytes)
  BY <1>0, <1>1, <1>2 DEF Sound, ListWellFormed, LinksAgree, InOrder, Inside, EndOf
<1>5. OnGrid(Q)
  BY <1>1, <1>2 DEF Sound, OnGrid
<1> QED
  BY <1>1, <1>3, <1>4, <1>5 DEF Sound

(* UPDATE_NODE in the room behind a pebble. *)
LEMMA InsertSound ==
  ASSUME NEW P, NEW bytes \in Nat, Sound(P, bytes),
         NEW d \in DOMAIN P, NEW a \in Nat, NEW p \in Pebble,
         EndOf(P, d) <= a, a + PEBBLE_SZ + p.size <= Limit(P, d, bytes),
         a % PEBBLE_MIN_ALIGN = 0, p.size % PEBBLE_MIN_ALIGN = 0
  PROVE  LET Q == UPDATE_NODE(P, a, p, d)
         IN  /\ Sound(Q, bytes)
             /\ a \notin DOMAIN P
             /\ DOMAIN Q = DOMAIN P \cup {a}
             /\ Q[a].size = p.size /\ Q[d].size = P[d].size
             /\ Limit(Q, a, bytes) = Limit(P, d, bytes)
<1> DEFINE n == P[d].next
           Q == UPDATE_NODE(P, a, p, d)
<1> USE NullAssumption
<1>0. P \in [DOMAIN P -> Pebble] /\ DOMAIN P \subseteq Nat
  BY DEF Sound, IsList
<1>1. DOMAIN Q = DOMAIN P \cup {a}
  BY DEF UPDATE_NODE
<1>2. n \in Nat \cup {NULL} /\ P[d].size \in Nat /\ p.size \in Nat
  BY <1>0 DEF Pebble
<1>3. a > d /\ (n # NULL => n \in DOMAIN P /\ a < n)
  BY <1>0, <1>2 DEF EndOf, Limit, PEBBLE_SZ, Sound, ListWellFormed, LinksAgree
<1>4. \A c \in DOMAIN P : c <= d \/ (n # NULL /\ n <= c)
  BY <1>0 DEF Sound, ListWellFormed, InOrder
<1>5. a \notin DOMAIN P
  BY <1>0, <1>2, <1>3, <1>4
<1>6. /\ Q[a] = [p EXCEPT !.prev = d, !.next = n]
      /\ Q[d] = [P[d] EXCEPT !.next = a]
      /\ n # NULL => Q[n] = [P[n] EXCEPT !.prev = a]
      /\ \A x \in DOMAIN P : x # d /\ x # n => Q[x] = P[x]
  BY <1>0, <1>2, <1>3, <1>5 DEF UPDATE_NODE
<1>n. n # NULL => P[n] \in Pebble /\ n # d /\ n # a
  BY <1>0, <1>3
<1>7. /\ Q[a].prev = d /\ Q[a].next = n /\ Q[a].size = p.size
      /\ Q[d].next = a /\ Q[d].prev = P[d].prev /\ Q[d].size = P[d].size
      /\ n # NULL => Q[n].prev = a /\ Q[n].next = P[n].next /\ Q[n].size = P[n].size
      /\ \A x \in DOMAIN Q : Q[x] \in Pebble
  <2>1. /\ Q[a].prev = d /\ Q[a].next = n /\ Q[a].size = p.size
        /\ Q[a] \in Pebble
    BY <1>0, <1>2, <1>6 DEF Pebble
  <2>2. /\ Q[d].next = a /\ Q[d].prev = P[d].prev /\ Q[d].size = P[d].size
        /\ Q[d] \in Pebble
    BY <1>0, <1>6 DEF Pebble
  <2>3. n # NULL => /\ Q[n].prev = a /\ Q[n].next = P[n].next /\ Q[n].size = P[n].size
                    /\ Q[n] \in Pebble
    BY <1>6, <1>n DEF Pebble
  <2>4. \A x \in DOMAIN Q : Q[x] \in Pebble
    BY <2>1, <2>2, <2>3, <1>0, <1>1, <1>2, <1>6
  <2> QED
    BY <2>1, <2>2, <2>3, <2>4
<1>8. IsList(Q)
  <2>1. Q = [x \in DOMAIN Q |-> Q[x]]
    BY DEF UPDATE_NODE
  <2> QED
    BY <1>0, <1>1, <1>7, <2>1 DEF IsList
<1>q. /\ Q[d] = [P[d] EXCEPT !.next = a]
      /\ \A x \in DOMAIN P : x # d /\ x # n => Q[x] = P[x]
  BY <1>6
<1> HIDE DEF Q
<1>9. LinksAgree(Q)
  <2> SUFFICES ASSUME NEW x \in DOMAIN Q
               PROVE  /\ Q[x].next # NULL => /\ Q[x].next \in DOMAIN Q
                                             /\ Q[Q[x].next].prev = x
                                             /\ EndOf(Q, x) <= Q[x].next
                      /\ Q[x].prev # NULL => Q[x].prev \in DOMAIN Q /\ Q[Q[x].prev].next = x
                      /\ (Q[x].prev = NULL) <=> (x = FirstPebble)
    BY DEF LinksAgree
  <2>0. LinksAgree(P) /\ FirstPebble \in DOMAIN P
    BY DEF Sound, ListWellFormed
  <2>1. CASE x = a
    BY <2>0, <2>1, <1>0, <1>1, <1>2, <1>3, <1>5, <1>7 DEF LinksAgree, EndOf, Limit
  <2>2. CASE x = d
    <3>1. P[d].prev # NULL => /\ P[d].prev \in DOMAIN P /\ P[P[d].prev].next = d
                              /\ P[d].prev # d /\ P[d].prev # n
      <4> SUFFICES ASSUME P[d].prev # NULL
                   PROVE  /\ P[d].prev \in DOMAIN P /\ P[P[d].prev].next = d
                          /\ P[d].prev # d /\ P[d].prev # n
        OBVIOUS
      <4>1. P[d].prev \in DOMAIN P /\ P[P[d].prev].next = d
        BY <2>0 DEF LinksAgree
      <4>2. P[d].prev < d
        BY <4>1, <2>0, <1>0 DEF LinksAgree, EndOf, PEBBLE_SZ, Pebble
      <4> QED
        BY <4>1, <4>2, <1>0, <1>2, <1>3
    <3>2. /\ Q[d].next = a /\ a \in DOMAIN Q /\ Q[a].prev = d /\ a # NULL
          /\ EndOf(Q, d) <= a
      BY <1>1, <1>7 DEF EndOf
    <3>3. P[d].prev # NULL => P[d].prev \in DOMAIN Q /\ Q[P[d].prev].next = d
      BY <3>1, <1>1, <1>q
    <3>4. (P[d].prev = NULL) <=> (d = FirstPebble)
      BY <2>0 DEF LinksAgree
    <3> QED
      BY <2>2, <3>2, <3>3, <3>4, <1>7
  <2>3. CASE n # NULL /\ x = n
    <3>1. x # d /\ x # a
      BY <2>3, <1>3, <1>0
    <3>2. P[x].next # NULL => /\ P[x].next \in DOMAIN P /\ P[P[x].next].prev = x
                              /\ EndOf(P, x) <= P[x].next
                              /\ P[x].next # d /\ P[x].next # x
      <4>1. P[x].next # NULL => P[x].next \in DOMAIN P /\ P[P[x].next].prev = x
                                /\ EndOf(P, x) <= P[x].next
        BY <2>0, <2>3, <1>3 DEF LinksAgree
      <4>2. P[x].next # NULL => P[x].next > x
        BY <4>1, <1>0, <1>3, <2>3 DEF EndOf, PEBBLE_SZ, Pebble
      <4> QED
        BY <4>1, <4>2, <1>0, <1>2, <1>3, <2>3
    <3>3. (P[x].prev = NULL) <=> (x = FirstPebble)
      BY <2>0, <2>3, <1>3 DEF LinksAgree
    <3>4. P[x].prev = d
      BY <2>0, <2>3 DEF LinksAgree
    <3>5. P[x].next # NULL => P[x].next \in DOMAIN Q /\ Q[P[x].next].prev = x
      BY <2>3, <3>2, <1>1, <1>q
    <3>6. EndOf(Q, x) = EndOf(P, x) /\ Q[x].next = P[x].next /\ Q[x].prev = a
      BY <2>3, <1>7 DEF EndOf
    <3>7. x # FirstPebble /\ a # NULL /\ a \in DOMAIN Q /\ Q[a].next = x
      BY <2>3, <3>3, <3>4, <1>0, <1>1, <1>7
    <3> QED
      BY <3>2, <3>5, <3>6, <3>7
  <2>4. CASE x # a /\ x # d /\ x # n
    <3>1. x \in DOMAIN P /\ Q[x] = P[x]
      BY <2>4, <1>1, <1>6
    <3>2. P[x].next # NULL => P[x].next # n /\ P[x].next \in DOMAIN P
      BY <2>0, <3>1, <2>4 DEF LinksAgree
    <3>3. P[x].prev # NULL => P[x].prev # d /\ P[x].prev \in DOMAIN P
      BY <2>0, <3>1, <2>4 DEF LinksAgree
    <3>4. P[x].next # NULL =>
            Q[P[x].next].prev = P[P[x].next].prev /\ P[x].next \in DOMAIN Q
      BY <3>2, <1>1, <1>7, <1>q
    <3>5. P[x].prev # NULL =>
            Q[P[x].prev].next = P[P[x].prev].next /\ P[x].prev \in DOMAIN Q
      BY <3>3, <1>1, <1>7, <1>q
    <3> QED
      BY <2>0, <3>1, <3>4, <3>5 DEF LinksAgree, EndOf
  <2>5. x # NULL
    BY <1>0, <1>1
  <2> QED
    BY <2>1, <2>2, <2>3, <2>4, <2>5
<1>10. InOrder(Q)
  <2> SUFFICES ASSUME NEW x \in DOMAIN Q, NEW c \in DOMAIN Q, x < c
               PROVE  Q[x].next # NULL /\ Q[x].next <= c
    BY DEF InOrder
  <2>0. \A y, z \in DOMAIN P : y < z => P[y].next # NULL /\ P[y].next <= z
    BY DEF Sound, ListWellFormed, InOrder
  <2>1. CASE x = a
    BY <2>1, <1>0, <1>1, <1>3, <1>4, <1>7
  <2>2. CASE x = d
    BY <2>2, <1>0, <1>1, <1>2, <1>3, <1>4, <1>7
  <2>3. CASE x # a /\ x # d
    <3>1. x \in DOMAIN P /\ Q[x].next = P[x].next
      BY <2>3, <1>0, <1>1, <1>7, <1>q
    <3>2. CASE c \in DOMAIN P
      BY <3>1, <3>2, <2>0
    <3>3. CASE c = a
      <4>1. x <= d
        BY <3>1, <3>3, <1>0, <1>2, <1>3, <1>4
      <4>2. P[x].next # NULL /\ P[x].next <= d
        BY <4>1, <3>1, <2>0, <2>3, <1>0
      <4>3. P[x].next \in Nat
        BY <4>2, <3>1, <1>0 DEF Pebble
      <4> QED
        BY <4>2, <4>3, <3>1, <3>3, <1>0, <1>3
    <3> QED
      BY <3>2, <3>3, <1>1
  <2> QED
    BY <2>1, <2>2, <2>3
<1>11. Inside(Q, bytes)
  <2>1. \A x \in DOMAIN P : FirstPebble <= x /\ EndOf(P, x) <= bytes
    BY DEF Sound, ListWellFormed, Inside
  <2>2. \A x \in DOMAIN P : EndOf(Q, x) = EndOf(P, x)
    <3>1. ASSUME NEW x \in DOMAIN P PROVE Q[x].size = P[x].size
      <4>1. x # NULL
        BY <1>0
      <4> QED
        BY <4>1, <1>7, <1>q
    <3> QED
      BY <3>1 DEF EndOf
  <2>3. FirstPebble <= a
    BY <2>1, <1>0, <1>3 DEF FirstPebble, BUCKET_SZ
  <2>4. EndOf(Q, a) <= Limit(P, d, bytes)
    BY <1>7 DEF EndOf
  <2>5. n # NULL => n <= bytes
    BY <2>1, <1>0, <1>3, <1>n DEF EndOf, PEBBLE_SZ, Pebble
  <2>6. EndOf(Q, a) <= bytes
    BY <2>4, <2>5, <1>2, <1>7 DEF Limit, EndOf, PEBBLE_SZ
  <2> QED
    BY <2>1, <2>2, <2>3, <2>6, <1>1 DEF Inside
<1>12. OnGrid(Q)
  <2>1. ASSUME NEW x \in DOMAIN P PROVE Q[x].size = P[x].size
    <3>1. x # NULL
      BY <1>0
    <3> QED
      BY <3>1, <1>7, <1>q
  <2> QED
    BY <2>1, <1>1, <1>7 DEF Sound, OnGrid
<1> QED
  BY <1>1, <1>5, <1>7, <1>8, <1>9, <1>10, <1>11, <1>12 DEF Sound, ListWellFormed, Limit, Q

(* A pebble takes over the one behind it. *)
LEMMA SwallowSound ==
  ASSUME NEW P, NEW bytes \in Nat, Sound(P, bytes),
         NEW a \in DOMAIN P, P[a].next # NULL
  PROVE  LET Q == SwallowNext(P, a)
         IN  /\ Sound(Q, bytes)
             /\ P[a].next \in DOMAIN P /\ P[a].next # a
             /\ DOMAIN Q = DOMAIN P \ {P[a].next}
<1> DEFINE n == P[a].next
           m == P[n].next
           Q == SwallowNext(P, a)
<1> USE NullAssumption
<1>0. P \in [DOMAIN P -> Pebble] /\ DOMAIN P \subseteq Nat
  BY DEF Sound, IsList
<1>1. DOMAIN Q = DOMAIN P \ {n}
  BY DEF SwallowNext
<1>l. LinksAgree(P) /\ InOrder(P) /\ Inside(P, bytes) /\ FirstPebble \in DOMAIN P
  BY DEF Sound, ListWellFormed
<1>2. n \in DOMAIN P /\ P[n].prev = a /\ EndOf(P, a) <= n /\ n # FirstPebble
  BY <1>l, <1>0 DEF LinksAgree
<1>3. n > a
  BY <1>2, <1>0 DEF EndOf, PEBBLE_SZ, Pebble
<1>4. m # NULL => m \in DOMAIN P /\ P[m].prev = n /\ EndOf(P, n) <= m
  BY <1>l, <1>2 DEF LinksAgree
<1>5. m # NULL => m > n
  BY <1>2, <1>4, <1>0 DEF EndOf, PEBBLE_SZ, Pebble
<1>6. /\ Q[a] = [P[a] EXCEPT !.size = P[a].size + P[n].size + PEBBLE_SZ, !.next = m]
      /\ m # NULL => Q[m] = [P[m] EXCEPT !.prev = a]
      /\ \A x \in DOMAIN Q : x # a /\ x # m => Q[x] = P[x]
  BY <1>0, <1>1, <1>2, <1>3, <1>4, <1>5 DEF SwallowNext
<1>7. /\ Q[a].prev = P[a].prev /\ Q[a].next = m
      /\ Q[a].size = P[a].size + P[n].size + PEBBLE_SZ
      /\ m # NULL => Q[m].prev = a /\ Q[m].next = P[m].next /\ Q[m].size = P[m].size
      /\ \A x \in DOMAIN Q : Q[x] \in Pebble
  <2>1. /\ Q[a].prev = P[a].prev /\ Q[a].next = m
        /\ Q[a].size = P[a].size + P[n].size + PEBBLE_SZ
        /\ Q[a] \in Pebble
    <3> DEFINE s == P[a].size + P[n].size + PEBBLE_SZ
    <3>1. P[a] \in Pebble /\ P[n] \in Pebble
      BY <1>0, <1>2
    <3>2. s \in Nat
      BY <3>1 DEF Pebble, PEBBLE_SZ
    <3>3. m \in Nat \cup {NULL}
      BY <3>1 DEF Pebble
    <3>4. Q[a] = [P[a] EXCEPT !.size = s, !.next = m]
      BY <1>6
    <3> HIDE DEF Q, s
    <3>5. Q[a].prev = P[a].prev /\ Q[a].next = m /\ Q[a].size = s /\ Q[a] \in Pebble
      BY <3>1, <3>2, <3>3, <3>4 DEF Pebble
    <3> QED
      BY <3>5 DEF s
  <2>2. m # NULL => /\ Q[m].prev = a /\ Q[m].next = P[m].next /\ Q[m].size = P[m].size
                    /\ Q[m] \in Pebble
    BY <1>0, <1>4, <1>6 DEF Pebble
  <2>3. ASSUME NEW x \in DOMAIN Q PROVE Q[x] \in Pebble
    <3>1. x # NULL
      BY <1>0, <1>1
    <3> QED
      BY <2>1, <2>2, <3>1, <1>0, <1>1, <1>6
  <2> QED
    BY <2>1, <2>2, <2>3
<1>8. IsList(Q)
  <2>1. Q = [x \in DOMAIN Q |-> Q[x]]
    BY DEF SwallowNext
  <2> QED
    BY <1>0, <1>1, <1>7, <2>1 DEF IsList
<1>q. \A x \in DOMAIN Q : x # a /\ x # m => Q[x] = P[x]
  BY <1>6
<1> HIDE DEF Q
<1>9. LinksAgree(Q)
  <2> SUFFICES ASSUME NEW x \in DOMAIN Q
               PROVE  /\ Q[x].next # NULL => /\ Q[x].next \in DOMAIN Q
                                             /\ Q[Q[x].next].prev = x
                                             /\ EndOf(Q, x) <= Q[x].next
                      /\ Q[x].prev # NULL => Q[x].prev \in DOMAIN Q /\ Q[Q[x].prev].next = x
                      /\ (Q[x].prev = NULL) <=> (x = FirstPebble)
    BY DEF LinksAgree
  <2>0. x \in DOMAIN P /\ x # n /\ x # NULL
    BY <1>0, <1>1
  <2>m. m # NULL => m \in DOMAIN Q /\ m # a /\ m # n /\ m # FirstPebble
    <3> SUFFICES ASSUME m # NULL PROVE m \in DOMAIN Q /\ m # a /\ m # n /\ m # FirstPebble
      OBVIOUS
    <3>1. m \in Nat /\ n \in Nat /\ a \in Nat
      BY <1>0, <1>2, <1>4
    <3>2. m # FirstPebble
      BY <1>4, <1>l, <1>0, <1>2 DEF LinksAgree
    <3> QED
      BY <3>1, <3>2, <1>1, <1>3, <1>4, <1>5
  <2>1. CASE x = a
    <3>1. m # NULL => EndOf(Q, a) <= m
      BY <1>0, <1>2, <1>4, <1>7 DEF EndOf, PEBBLE_SZ, Pebble
    <3>2. P[a].prev # NULL => /\ P[a].prev \in DOMAIN P /\ P[P[a].prev].next = a
                              /\ P[a].prev < a
      BY <1>l, <1>0 DEF LinksAgree, EndOf, PEBBLE_SZ, Pebble
    <3>3. P[a].prev # NULL => P[a].prev # n /\ P[a].prev # m /\ P[a].prev # a
      BY <3>2, <1>0, <1>2, <1>3, <1>4, <1>5
    <3>4. P[a].prev # NULL => P[a].prev \in DOMAIN Q /\ Q[P[a].prev].next = a
      BY <3>2, <3>3, <1>1, <1>q
    <3>5. (P[a].prev = NULL) <=> (a = FirstPebble)
      BY <1>l DEF LinksAgree
    <3> QED
      BY <2>1, <2>m, <3>1, <3>4, <3>5, <1>7
  <2>2. CASE x = m
    <3>1. m # NULL
      BY <2>0, <2>2
    <3>2. P[m].next # NULL => /\ P[m].next \in DOMAIN P /\ P[P[m].next].prev = m
                              /\ EndOf(P, m) <= P[m].next /\ P[m].next > m
      BY <3>1, <1>l, <1>0, <1>4 DEF LinksAgree, EndOf, PEBBLE_SZ, Pebble
    <3>3. P[m].next # NULL => P[m].next # n /\ P[m].next # m /\ P[m].next # a
      BY <3>1, <3>2, <1>0, <1>2, <1>3, <1>4, <1>5
    <3>4. P[m].next # NULL => /\ P[m].next \in DOMAIN Q /\ Q[P[m].next].prev = m
                              /\ EndOf(Q, m) <= P[m].next
      BY <3>1, <3>2, <3>3, <1>1, <1>7, <1>q DEF EndOf
    <3>5. a \in DOMAIN Q /\ a # NULL
      BY <1>0, <1>1, <1>2, <1>3
    <3> QED
      BY <2>2, <2>m, <3>1, <3>4, <3>5, <1>7
  <2>3. CASE x # a /\ x # m
    <3>1. Q[x] = P[x]
      BY <2>3, <1>q
    <3>2. P[x].next # NULL => P[x].next # n /\ P[x].next # m
      BY <1>l, <2>0, <2>3, <1>2, <1>4 DEF LinksAgree
    <3>3. P[x].prev # NULL => P[x].prev # n /\ P[x].prev # a
      BY <1>l, <2>0, <2>3, <1>2 DEF LinksAgree
    <3>4. P[x].next # NULL =>
            P[x].next \in DOMAIN Q /\ Q[P[x].next].prev = P[P[x].next].prev
      BY <3>2, <2>0, <1>l, <1>1, <1>7, <1>q DEF LinksAgree
    <3>5. P[x].prev # NULL =>
            P[x].prev \in DOMAIN Q /\ Q[P[x].prev].next = P[P[x].prev].next
      BY <3>3, <2>0, <1>l, <1>1, <1>7, <1>q DEF LinksAgree
    <3> QED
      BY <2>0, <3>1, <3>4, <3>5, <1>l DEF LinksAgree, EndOf
  <2> QED
    BY <2>1, <2>2, <2>3
<1>10. InOrder(Q)
  <2> SUFFICES ASSUME NEW x \in DOMAIN Q, NEW c \in DOMAIN Q, x < c
               PROVE  Q[x].next # NULL /\ Q[x].next <= c
    BY DEF InOrder
  <2>0. \A y, z \in DOMAIN P : y < z => P[y].next # NULL /\ P[y].next <= z
    BY <1>l DEF InOrder
  <2>1. x \in DOMAIN P /\ c \in DOMAIN P /\ c # n /\ x # n /\ x # NULL
    BY <1>0, <1>1
  <2>2. CASE x = a
    <3>1. n <= c
      BY <2>0, <2>1, <2>2
    <3>2. n < c
      BY <3>1, <2>1, <1>0, <1>2
    <3> QED
      BY <2>0, <2>1, <2>2, <3>2, <1>2, <1>7
  <2>3. CASE x # a
    <3>1. Q[x].next = P[x].next
      BY <2>1, <2>3, <1>7, <1>q
    <3> QED
      BY <2>0, <2>1, <3>1
  <2> QED
    BY <2>2, <2>3
<1>11. Inside(Q, bytes)
  <2>1. \A x \in DOMAIN P : FirstPebble <= x /\ EndOf(P, x) <= bytes
    BY <1>l DEF Inside
  <2> SUFFICES ASSUME NEW x \in DOMAIN Q PROVE FirstPebble <= x /\ EndOf(Q, x) <= bytes
    BY DEF Inside
  <2>2. x \in DOMAIN P /\ x # NULL
    BY <1>0, <1>1
  <2>3. CASE x = a
    BY <2>1, <2>3, <1>0, <1>2, <1>7 DEF EndOf, PEBBLE_SZ, Pebble
  <2>4. CASE x # a
    <3>1. Q[x].size = P[x].size
      BY <2>2, <2>4, <1>7, <1>q
    <3> QED
      BY <2>1, <2>2, <3>1 DEF EndOf
  <2> QED
    BY <2>3, <2>4
<1>12. OnGrid(Q)
  <2>1. ASSUME NEW x \in DOMAIN Q, x # a PROVE Q[x].size = P[x].size
    <3>1. x # NULL
      BY <1>0, <1>1
    <3> QED
      BY <2>1, <3>1, <1>7, <1>q
  <2>2. Q[a].size % PEBBLE_MIN_ALIGN = 0
    BY <1>0, <1>2, <1>7 DEF Sound, OnGrid, Pebble, PEBBLE_SZ, PEBBLE_MIN_ALIGN
  <2> QED
    BY <2>1, <2>2, <1>1 DEF Sound, OnGrid
<1> QED
  BY <1>0, <1>1, <1>2, <1>3, <1>8, <1>9, <1>10, <1>11, <1>12, <1>l
     DEF Sound, ListWellFormed, Q

-----------------------------------------------------------------------------
(* What the operations do to the pebbles they are not about *)

UsedAt(P) == {a \in DOMAIN P : ~PEBBLE_IS_FREE(P[a])}

(* The free pebbles before a free pebble. *)
Seams(P) == {a \in FreeAt(P) : P[a].next \in FreeAt(P)}

(* Q is P with one more pebble at a, cut off the one at d. *)
CutOff(P, Q, d, a) ==
  /\ a \in Nat \ DOMAIN P /\ d \in DOMAIN P
  /\ DOMAIN Q = DOMAIN P \cup {a}
  /\ Q[a].next = P[d].next /\ Q[a].size \in Nat
  /\ Q[d].next = a /\ Q[d].size \in Nat /\ Q[d].size <= P[d].size /\ Q[d].lflags = P[d].lflags
  /\ \A x \in DOMAIN P \ {d} : /\ Q[x].next = P[x].next /\ Q[x].size = P[x].size
                              /\ Q[x].lflags = P[x].lflags

(* UPDATE_NODE behind a pebble that has given up bytes. *)
LEMMA InsertCutsOff ==
  ASSUME NEW P, NEW bytes \in Nat, Sound(P, bytes),
         NEW d \in DOMAIN P, NEW s \in Nat, s <= P[d].size, NEW a \in Nat, a \notin DOMAIN P,
         NEW p \in Pebble
  PROVE  LET Q == UPDATE_NODE([P EXCEPT ![d].size = s], a, p, d)
         IN  CutOff(P, Q, d, a) /\ Q[a].size = p.size /\ Q[a].lflags = p.lflags
             /\ Q[d].size = s
<1> DEFINE n   == P[d].next
           one == [P EXCEPT ![d].size = s]
           Q   == UPDATE_NODE(one, a, p, d)
<1> USE NullAssumption
<1>0. P \in [DOMAIN P -> Pebble] /\ DOMAIN P \subseteq Nat
  BY DEF Sound, IsList
<1>1. /\ DOMAIN one = DOMAIN P /\ one[d] = [P[d] EXCEPT !.size = s]
      /\ \A x \in DOMAIN P \ {d} : one[x] = P[x]
  BY <1>0
<1>2. /\ one[d].next = n /\ one[d].lflags = P[d].lflags /\ one[d].size = s
      /\ \A x \in DOMAIN P : one[x] \in Pebble
  BY <1>0, <1>1 DEF Pebble
<1>3. n # NULL => n \in DOMAIN P /\ n # d
  BY <1>0 DEF Sound, ListWellFormed, LinksAgree, EndOf, Pebble, PEBBLE_SZ
<1> HIDE DEF one
<1>4. /\ DOMAIN Q = DOMAIN P \cup {a}
      /\ Q[a] = [p EXCEPT !.prev = d, !.next = n]
      /\ Q[d] = [one[d] EXCEPT !.next = a]
      /\ \A x \in DOMAIN P \ {d} : x # n => Q[x] = one[x]
      /\ n # NULL => Q[n] = [one[n] EXCEPT !.prev = a]
  BY <1>0, <1>1, <1>2, <1>3 DEF UPDATE_NODE
<1> HIDE DEF Q
<1>5. Q[a].next = n /\ Q[a].size = p.size /\ Q[a].lflags = p.lflags /\ p.size \in Nat
  BY <1>4 DEF Pebble
<1>6. Q[d].next = a /\ Q[d].size = s /\ Q[d].lflags = P[d].lflags
  BY <1>2, <1>4 DEF Pebble
<1>7. ASSUME NEW x \in DOMAIN P \ {d}
      PROVE  Q[x].next = P[x].next /\ Q[x].size = P[x].size /\ Q[x].lflags = P[x].lflags
  <2>1. CASE x = n
    BY <2>1, <1>0, <1>1, <1>2, <1>3, <1>4 DEF Pebble
  <2>2. CASE x # n
    BY <2>2, <1>1, <1>4
  <2> QED
    BY <2>1, <2>2
<1> QED
  BY <1>4, <1>5, <1>6, <1>7 DEF CutOff, Q, one

(* Where a seam can be after a pebble has been cut off. *)
LEMMA CutOffSeams ==
  ASSUME NEW P, NEW Q, NEW d, NEW a, CutOff(P, Q, d, a),
         NEW bytes, Sound(P, bytes)
  PROVE  \A x \in Seams(Q) :
           \/ x \in Seams(P) /\ x # d
           \/ x = d /\ d \in FreeAt(Q) /\ a \in FreeAt(Q)
           \/ x = a /\ a \in FreeAt(Q) /\ P[d].next \in FreeAt(Q)
<1> TAKE x \in Seams(Q)
<1>1. x \in FreeAt(Q) /\ Q[x].next \in FreeAt(Q)
  BY DEF Seams
<1>2. CASE x # a /\ x # d
  <2>1. x \in DOMAIN P /\ Q[x].next = P[x].next /\ Q[x].lflags = P[x].lflags
    BY <1>1, <1>2 DEF CutOff, FreeAt
  <2>2. x \in FreeAt(P)
    BY <1>1, <2>1 DEF FreeAt, PEBBLE_IS_FREE
  <2>3. CASE P[x].next \in DOMAIN P
    BY <1>1, <1>2, <2>1, <2>2, <2>3 DEF FreeAt, PEBBLE_IS_FREE, Seams, CutOff
  <2>4. P[x].next # NULL => P[x].next \in DOMAIN P
    BY <2>1 DEF Sound, ListWellFormed, LinksAgree
  <2>5. NULL \notin DOMAIN Q
    BY NullAssumption DEF CutOff, Sound, IsList
  <2> QED
    BY <1>1, <2>1, <2>3, <2>4, <2>5 DEF FreeAt
<1> QED
  BY <1>1, <1>2 DEF CutOff

-----------------------------------------------------------------------------
(* split_pebble *)

(* What SplitPlain is for: Q is P, or P with a tail cut off that has the flags of
   what it was cut off, and leaves the size asked for. *)
SplitOff(P, Q, a, size) ==
  \/ Q = P /\ ~SplitPays(P[a].size, size)
  \/ \E x \in DOMAIN Q :
       /\ CutOff(P, Q, a, x) /\ Q[x].lflags = P[a].lflags
       /\ Q[x].size = P[a].size - Q[a].size - PEBBLE_SZ /\ x = EndOf(Q, a)
       /\ Q[a].size >= size /\ Q[a].size = RoundUp(size, PEBBLE_MIN_ALIGN)

(* A split without alignment keeps a list sound. *)
LEMMA SplitPlainSound ==
  ASSUME NEW P, NEW bytes \in Nat, Sound(P, bytes),
         NEW a \in DOMAIN P, NEW size \in Nat
  PROVE  LET Q == SplitPlain(P, a, size)
         IN  Sound(Q, bytes) /\ a \in DOMAIN Q /\ SplitOff(P, Q, a, size)
<1> DEFINE keep == RoundUp(size, PEBBLE_MIN_ALIGN)
           left == P[a].size - keep - PEBBLE_SZ
           tail == [P[a] EXCEPT !.size = left]
           one  == [P EXCEPT ![a].size = keep]
           at   == a + PEBBLE_SZ + keep
<1> USE NullAssumption
<1>0. P \in [DOMAIN P -> Pebble] /\ DOMAIN P \subseteq Nat
  BY DEF Sound, IsList
<1> SUFFICES ASSUME SplitPays(P[a].size, size)
             PROVE  LET Q == UPDATE_NODE(one, at, tail, a)
                    IN  Sound(Q, bytes) /\ a \in DOMAIN Q /\ SplitOff(P, Q, a, size)
  <2>1. CASE SplitPays(P[a].size, size)
    BY <2>1, Zenon DEF SplitPlain
  <2>2. CASE ~SplitPays(P[a].size, size)
    <3>1. SplitPlain(P, a, size) = P
      BY <2>2, Zenon DEF SplitPlain
    <3> QED
      BY <2>2, <3>1 DEF SplitOff
  <2> QED
    BY <2>1, <2>2
<1>1. P[a] \in Pebble /\ P[a].size \in Nat /\ P[a].size % 64 = 0 /\ a % 64 = 0
  BY <1>0 DEF Pebble, Sound, OnGrid, PEBBLE_MIN_ALIGN
<1>2. keep \in Nat /\ keep % 64 = 0 /\ keep < size + 64
  BY DEF RoundUp, RoundDown, PEBBLE_MIN_ALIGN
<1>3. left \in Nat /\ left % 64 = 0 /\ keep <= P[a].size
  <2> HIDE DEF keep
  <2>1. P[a].size + 63 > size + 192
    BY <1>1 DEF SplitPays, ClearMinSizeBit, PEBBLE_SZ, PEBBLE_MIN_ALIGN, PEBBLE_MIN_SIZE
  <2>2. keep + 128 < P[a].size + 64
    BY <2>1, <1>1, <1>2
  <2>3. keep + 128 <= P[a].size
    BY <2>2, <1>1, <1>2
  <2> QED
    BY <2>3, <1>1, <1>2 DEF PEBBLE_SZ
<1>4. tail \in Pebble /\ tail.size = left
  BY <1>1, <1>3 DEF Pebble
<1>5. /\ Sound(one, bytes) /\ DOMAIN one = DOMAIN P
      /\ one[a] = [P[a] EXCEPT !.size = keep]
  BY <1>2, <1>3, ShrinkSound DEF PEBBLE_MIN_ALIGN
<1>6. one[a].size = keep /\ one[a].next = P[a].next
  BY <1>1, <1>5 DEF Pebble
<1>7. EndOf(P, a) <= Limit(P, a, bytes)
  BY DEF Sound, ListWellFormed, LinksAgree, Inside, Limit
<1>8. at \in Nat /\ at % 64 = 0 /\ EndOf(one, a) = at
  BY <1>0, <1>1, <1>2, <1>6 DEF EndOf, PEBBLE_SZ
<1>9. at + PEBBLE_SZ + tail.size <= Limit(one, a, bytes)
  <2>1. Limit(one, a, bytes) = Limit(P, a, bytes)
    BY <1>6 DEF Limit
  <2>2. at + PEBBLE_SZ + left = EndOf(P, a)
    BY <1>0, <1>1, <1>2 DEF EndOf, PEBBLE_SZ
  <2> QED
    BY <2>1, <2>2, <1>4, <1>7
<1>k. keep >= size /\ tail.lflags = P[a].lflags
  BY <1>1 DEF RoundUp, RoundDown, PEBBLE_MIN_ALIGN, Pebble
<1> HIDE DEF left, tail, at
<1>9a. a \in DOMAIN P /\ at \notin DOMAIN P
  <2>1. EndOf(one, a) <= at /\ at % PEBBLE_MIN_ALIGN = 0 /\ tail.size % PEBBLE_MIN_ALIGN = 0
        /\ a \in DOMAIN one
    BY <1>3, <1>4, <1>5, <1>8 DEF PEBBLE_MIN_ALIGN
  <2> HIDE DEF one
  <2> QED
    BY <1>4, <1>5, <1>8, <1>9, <2>1, InsertSound
<1>9b. LET Q == UPDATE_NODE(one, at, tail, a)
       IN  CutOff(P, Q, a, at) /\ Q[at].size = tail.size /\ Q[at].lflags = tail.lflags
           /\ Q[a].size = keep
  <2> HIDE DEF keep
  <2> QED
    BY <1>2, <1>3, <1>4, <1>8, <1>9a, InsertCutsOff
<1> HIDE DEF keep, one
<1>10. EndOf(one, a) <= at
  BY <1>8
<1>11. at % PEBBLE_MIN_ALIGN = 0 /\ tail.size % PEBBLE_MIN_ALIGN = 0 /\ a \in DOMAIN one
  BY <1>3, <1>4, <1>5, <1>8 DEF PEBBLE_MIN_ALIGN
<1>12. Sound(one, bytes) /\ at \in Nat /\ tail \in Pebble
  BY <1>4, <1>5, <1>8
<1>13. Sound(UPDATE_NODE(one, at, tail, a), bytes)
  BY <1>9, <1>10, <1>11, <1>12, InsertSound
<1>14. a \in DOMAIN UPDATE_NODE(one, at, tail, a)
  BY <1>11 DEF UPDATE_NODE
<1>15. SplitOff(P, UPDATE_NODE(one, at, tail, a), a, size)
  <2> DEFINE Q == UPDATE_NODE(one, at, tail, a)
  <2>1. at = EndOf(Q, a) /\ at \in DOMAIN Q
    BY <1>6, <1>8, <1>9b DEF EndOf, CutOff
  <2> HIDE DEF Q
  <2>2. CutOff(P, Q, a, at) /\ Q[at].lflags = P[a].lflags /\ Q[a].size >= size
        /\ Q[a].size = RoundUp(size, PEBBLE_MIN_ALIGN)
    BY <1>k, <1>9b DEF Q, keep
  <2>3. Q[at].size = P[a].size - Q[a].size - PEBBLE_SZ
    BY <1>4, <1>9b DEF Q, left
  <2> QED
    BY <2>1, <2>2, <2>3 DEF SplitOff, Q
<1> QED
  BY <1>13, <1>14, <1>15

(* What kmalloc makes of an alignment up to a page. *)
WantedAlignments == {64, 128, 256, 512, 1024, 2048, 4096}

(* The arithmetic of an aligned split: what is left is a multiple of 64
   bytes. *)
LEMMA RestOnGrid ==
  ASSUME NEW z \in Nat, NEW f \in Nat, NEW y \in Nat, NEW m \in Nat,
         f % 64 = 0, z % 64 = 0, y % 64 = 0, f <= m, z >= y + m + 128
  PROVE  LET r == z - f - (y + 128) IN r \in Nat /\ r % 64 = 0 /\ f <= z
OBVIOUS

(* Behind the pebble at a, of the same size as before, a free one is cut off. *)
DummyOff(P, Q, a, most) ==
  \E e \in DOMAIN Q : /\ CutOff(P, Q, a, e) /\ Q[a].size = P[a].size
                      /\ Q[e].lflags = {} /\ Q[e].size <= most

(* RoundDown ends on the boundary. *)
LEMMA OnBoundary ==
  ASSUME NEW x \in Nat, NEW m \in WantedAlignments
  PROVE  (x - (x % m)) % m = 0
  BY DEF WantedAlignments

(* A split with alignment keeps a list sound, if the pebble had the room
   place_pebble asks for. *)
LEMMA SplitAlignedSound ==
  ASSUME NEW P, NEW bytes \in Nat, Sound(P, bytes), NEW a \in DOMAIN P,
         NEW src, src.size \in Nat, src.size % 64 = 0, src.lflags \in SUBSET PebbleFlags,
         src.alignment \in WantedAlignments,
         P[a].size >= src.size + src.alignment + PEBBLE_SZ
  PROVE  LET s == SplitAligned(P, a, src)
         IN  /\ Sound(s.list, bytes) /\ s.at \in DOMAIN s.list
             /\ (s.at + PEBBLE_SZ) % src.alignment = 0
             /\ \E two : /\ CutOff(P, two, a, s.at) /\ Sound(two, bytes)
                         /\ two[s.at].size = src.size /\ two[s.at].lflags = src.lflags
                         /\ s.list = two \/ DummyOff(two, s.list, s.at, P[a].size)
<1> DEFINE m     == src.alignment
           at    == AlignedAt(a, m)
           front == at - a - PEBBLE_SZ
           rest  == P[a].size - front - (src.size + PEBBLE_SZ)
           new   == [lflags |-> src.lflags, size |-> src.size, prev |-> NULL, next |-> NULL]
           one   == [P EXCEPT ![a].size = front]
           two   == UPDATE_NODE(one, at, new, a)
           dummy == [lflags |-> {}, size |-> rest - PEBBLE_SZ, prev |-> NULL, next |-> NULL]
           three == UPDATE_NODE(two, EndOf(two, at), dummy, at)
<1> USE NullAssumption
<1>0. P \in [DOMAIN P -> Pebble] /\ DOMAIN P \subseteq Nat
  BY DEF Sound, IsList
<1>1. P[a] \in Pebble /\ P[a].size \in Nat /\ P[a].size % 64 = 0 /\ a % 64 = 0 /\ a \in Nat
  BY <1>0 DEF Pebble, Sound, OnGrid, PEBBLE_MIN_ALIGN
<1>2. /\ at \in Nat /\ at % 64 = 0 /\ at >= a + 192 /\ at <= a + 128 + m
      /\ (at + PEBBLE_SZ) % m = 0
  <2>0. m \in WantedAlignments /\ m \in Nat
    BY DEF WantedAlignments
  <2> HIDE DEF m
  <2>1. at = (a + 319 + m) - ((a + 319 + m) % m) - 128
    <3>1. a + 2 * PEBBLE_SZ + PEBBLE_MIN_SIZE + (m - 1) = a + 319 + m
      BY <1>1, <2>0 DEF PEBBLE_SZ, PEBBLE_MIN_SIZE
    <3> QED
      BY <3>1 DEF AlignedAt, RoundDown, PEBBLE_SZ
  <2> HIDE DEF at
  <2>2. /\ at \in Nat /\ at % 64 = 0 /\ at >= a + 192 /\ at <= a + 128 + m
    BY <2>0, <2>1, <1>1 DEF WantedAlignments
  <2>3. at + PEBBLE_SZ = (a + 319 + m) - ((a + 319 + m) % m) /\ a + 319 + m \in Nat
    BY <2>0, <2>1, <2>2, <1>1 DEF PEBBLE_SZ
  <2>4. (at + PEBBLE_SZ) % m = 0
    <3> DEFINE x == a + 319 + m
               y == at + PEBBLE_SZ
    <3>1. x \in Nat /\ m \in WantedAlignments /\ y = x - (x % m)
      BY <2>0, <2>3
    <3> HIDE DEF x, y, m
    <3>2. (x - (x % m)) % m = 0
      BY <3>1, OnBoundary
    <3>3. y % m = 0
      BY <3>1, <3>2
    <3> QED
      BY <3>3 DEF y
  <2> QED
    BY <2>2, <2>4
<1>3. m \in Nat /\ front \in Nat /\ front % 64 = 0 /\ front <= m
  <2> HIDE DEF at
  <2> QED
    BY <1>1, <1>2 DEF WantedAlignments, PEBBLE_SZ
<1>4. rest \in Nat /\ rest % 64 = 0 /\ front <= P[a].size
  <2>1. /\ front \in Nat /\ P[a].size \in Nat /\ m \in Nat
        /\ front % 64 = 0 /\ P[a].size % 64 = 0 /\ front <= m
        /\ P[a].size >= src.size + m + 128
    BY <1>1, <1>3 DEF PEBBLE_SZ
  <2>2. rest = P[a].size - front - (src.size + 128)
    BY DEF PEBBLE_SZ
  <2> HIDE DEF front, rest, m
  <2> QED
    BY <2>1, <2>2, RestOnGrid
<1>5. new \in Pebble /\ new.size = src.size
  BY DEF Pebble
<1>6. /\ Sound(one, bytes) /\ DOMAIN one = DOMAIN P
      /\ one[a] = [P[a] EXCEPT !.size = front]
  <2> HIDE DEF front
  <2> QED
    BY <1>3, <1>4, ShrinkSound DEF PEBBLE_MIN_ALIGN
<1>7. one[a].size = front /\ one[a].next = P[a].next
  BY <1>1, <1>6 DEF Pebble
<1>8. EndOf(one, a) = at /\ Limit(one, a, bytes) = Limit(P, a, bytes)
  <2>1. EndOf(one, a) = a + PEBBLE_SZ + front
    BY <1>7 DEF EndOf
  <2> HIDE DEF at, one
  <2> QED
    BY <2>1, <1>1, <1>2, <1>7 DEF Limit, PEBBLE_SZ
<1>9. EndOf(P, a) <= Limit(P, a, bytes)
  BY DEF Sound, ListWellFormed, LinksAgree, Inside, Limit
<1>10. at + PEBBLE_SZ + src.size + rest = EndOf(P, a)
  <2> HIDE DEF at
  <2> QED
    BY <1>1, <1>2 DEF EndOf, PEBBLE_SZ
<1>l. Limit(P, a, bytes) \in Nat
  <2>1. P[a].next # NULL => P[a].next \in Nat
    BY <1>1 DEF Pebble
  <2> QED
    BY <2>1 DEF Limit
<1>11. EndOf(one, a) <= at /\ at + PEBBLE_SZ + new.size <= Limit(one, a, bytes)
  <2> HIDE DEF at, one, new, rest
  <2> QED
    BY <1>1, <1>2, <1>4, <1>5, <1>8, <1>9, <1>10, <1>l DEF PEBBLE_SZ
<1>12. /\ at % PEBBLE_MIN_ALIGN = 0 /\ new.size % PEBBLE_MIN_ALIGN = 0
       /\ a \in DOMAIN one
  BY <1>2, <1>5, <1>6 DEF PEBBLE_MIN_ALIGN
<1>r. rest >= PEBBLE_SZ + PEBBLE_MIN_SIZE => dummy \in Pebble /\ dummy.size = rest - PEBBLE_SZ
  <2> HIDE DEF rest
  <2> QED
    BY <1>4 DEF Pebble, PEBBLE_SZ, PEBBLE_MIN_SIZE
<1>s. /\ SplitAligned(P, a, src).list =
           IF rest >= PEBBLE_SZ + PEBBLE_MIN_SIZE THEN three ELSE two
      /\ SplitAligned(P, a, src).at = at
  BY DEF SplitAligned
<1>0e. dummy.size = rest - PEBBLE_SZ
  OBVIOUS
<1>0r. rest - PEBBLE_SZ <= P[a].size
  <2>1. front \in Nat /\ P[a].size \in Nat /\ src.size \in Nat
    BY <1>1, <1>3
  <2> HIDE DEF front
  <2> QED
    BY <2>1 DEF PEBBLE_SZ
<1>0f. new.lflags = src.lflags /\ dummy.lflags = {}
  OBVIOUS
<1> HIDE DEF at, front, rest, new, two, dummy
<1>c. CutOff(P, two, a, at) /\ two[at].size = src.size /\ two[at].lflags = src.lflags
  <2>1. at \notin DOMAIN P
    <3>1. /\ Sound(one, bytes) /\ a \in DOMAIN one /\ at \in Nat /\ new \in Pebble
          /\ EndOf(one, a) <= at /\ at + PEBBLE_SZ + new.size <= Limit(one, a, bytes)
          /\ at % PEBBLE_MIN_ALIGN = 0 /\ new.size % PEBBLE_MIN_ALIGN = 0
      BY <1>2, <1>5, <1>6, <1>11, <1>12
    <3> HIDE DEF one
    <3>2. at \notin DOMAIN one
      BY <3>1, InsertSound
    <3> QED
      BY <1>6, <3>2
  <2>2. LET Q == UPDATE_NODE([P EXCEPT ![a].size = front], at, new, a)
        IN  CutOff(P, Q, a, at) /\ Q[at].size = new.size /\ Q[at].lflags = new.lflags
    BY <1>2, <1>3, <1>4, <1>5, <2>1, InsertCutsOff
  <2> QED
    BY <2>2, <1>5, <1>0f DEF two
<1> HIDE DEF one
<1>13. /\ Sound(two, bytes)
       /\ two[at].size = new.size
       /\ Limit(two, at, bytes) = Limit(one, a, bytes)
  <2>1. Sound(UPDATE_NODE(one, at, new, a), bytes)
    BY <1>2, <1>5, <1>6, <1>11, <1>12, InsertSound
  <2>n. at # a /\ at # one[a].next
    BY <1>1, <1>2, <1>5, <1>8, <1>11 DEF Limit, PEBBLE_SZ
  <2>2. two[at] = [new EXCEPT !.prev = a, !.next = one[a].next]
    BY <2>n DEF two, UPDATE_NODE
  <2>3. two[at].size = new.size /\ two[at].next = one[a].next
    BY <2>2, <1>5 DEF Pebble
  <2> QED
    BY <2>1, <2>3 DEF two, Limit
<1>14. at \in DOMAIN two
  BY DEF two, UPDATE_NODE
<1>15. EndOf(two, at) = at + PEBBLE_SZ + src.size
  BY <1>5, <1>13 DEF EndOf
<1>16. ASSUME rest >= PEBBLE_SZ + PEBBLE_MIN_SIZE
       PROVE  Sound(three, bytes) /\ at \in DOMAIN three /\ DummyOff(two, three, at, P[a].size)
  <2> DEFINE e == EndOf(two, at)
  <2>1. e \in Nat /\ e % PEBBLE_MIN_ALIGN = 0
    BY <1>2, <1>15 DEF PEBBLE_SZ, PEBBLE_MIN_ALIGN
  <2>2. dummy \in Pebble /\ dummy.size % PEBBLE_MIN_ALIGN = 0
    BY <1>r, <1>16, <1>4 DEF PEBBLE_SZ, PEBBLE_MIN_ALIGN
  <2>3. e + PEBBLE_SZ + dummy.size <= Limit(two, at, bytes)
    BY <1>2, <1>4, <1>0e, <1>8, <1>9, <1>10, <1>13, <1>15 DEF PEBBLE_SZ
  <2>4. EndOf(two, at) <= e
    BY <2>1
  <2>d. dummy.size <= P[a].size
    BY <1>0e, <1>0r
  <2> HIDE DEF e
  <2>5. Sound(UPDATE_NODE(two, e, dummy, at), bytes) /\ e \notin DOMAIN two
    BY <1>13, <1>14, <2>1, <2>2, <2>3, <2>4, InsertSound
  <2>6. at \in DOMAIN UPDATE_NODE(two, e, dummy, at)
    BY <1>14 DEF UPDATE_NODE
  <2>7. two[at].size \in Nat /\ [two EXCEPT ![at].size = two[at].size] = two
    <3>1. two \in [DOMAIN two -> Pebble]
      BY <1>13 DEF Sound, IsList
    <3>2. two[at] \in Pebble /\ [two[at] EXCEPT !.size = two[at].size] = two[at]
      BY <3>1, <1>14 DEF Pebble
    <3> QED
      BY <3>1, <3>2 DEF Pebble
  <2>8. LET Q == UPDATE_NODE([two EXCEPT ![at].size = two[at].size], e, dummy, at)
        IN  CutOff(two, Q, at, e) /\ Q[e].size = dummy.size /\ Q[e].lflags = dummy.lflags
            /\ Q[at].size = two[at].size
    BY <1>13, <1>14, <2>1, <2>2, <2>5, <2>7, InsertCutsOff
  <2>9. DummyOff(two, UPDATE_NODE(two, e, dummy, at), at, P[a].size)
    <3> DEFINE Q == UPDATE_NODE(two, e, dummy, at)
    <3>1. CutOff(two, Q, at, e) /\ Q[e].size = dummy.size /\ Q[e].lflags = dummy.lflags
          /\ Q[at].size = two[at].size
      BY <2>7, <2>8
    <3> HIDE DEF Q
    <3>2. e \in DOMAIN Q /\ Q[e].size <= P[a].size /\ Q[e].lflags = {}
      BY <3>1, <2>d, <1>0f DEF CutOff
    <3> QED
      BY <3>1, <3>2 DEF DummyOff, Q
  <2> QED
    BY <2>5, <2>6, <2>9 DEF e
<1> HIDE DEF three
<1> QED
  BY <1>s, <1>2, <1>c, <1>13, <1>14, <1>16

(* split_pebble keeps a list sound, aligned or not, if the pebble had the
   room place_pebble asks for. *)
LEMMA SplitPebbleSound ==
  ASSUME NEW P, NEW bytes \in Nat, Sound(P, bytes), NEW a \in DOMAIN P,
         NEW src, src.size \in Nat, src.size % 64 = 0, src.lflags \in SUBSET PebbleFlags,
         src.alignment \in WantedAlignments,
         P[a].size >= NeededSize(src)
  PROVE  LET s == split_pebble(P, a, src)
         IN  Sound(s.list, bytes) /\ s.at \in DOMAIN s.list
<1> DEFINE s == split_pebble(P, a, src)
<1>1. CASE "ALIGNED" \in src.lflags /\ ~IsAligned(a, src.alignment)
  <2>1. s = SplitAligned(P, a, src)
    BY <1>1 DEF split_pebble
  <2>2. P[a].size >= src.size + src.alignment + PEBBLE_SZ
    BY <1>1 DEF NeededSize
  <2>3. LET r == SplitAligned(P, a, src) IN Sound(r.list, bytes) /\ r.at \in DOMAIN r.list
    BY <2>2, SplitAlignedSound
  <2> QED
    BY <2>1, <2>3
<1>2. CASE ~("ALIGNED" \in src.lflags /\ ~IsAligned(a, src.alignment))
  <2>1. s = [list |-> SplitPlain(P, a, src.size), at |-> a]
    BY <1>2 DEF split_pebble
  <2>2. LET Q == SplitPlain(P, a, src.size) IN Sound(Q, bytes) /\ a \in DOMAIN Q
    BY SplitPlainSound
  <2> QED
    BY <2>1, <2>2
<1> QED
  BY <1>1, <1>2

-----------------------------------------------------------------------------
(* Which pebbles are in use afterwards, how large they are, and where free ones
   lie side by side *)

(* P with the flags of the pebble at a set to f. *)
Marked(P, a, f) == [P EXCEPT ![a].lflags = f]

(* Setting the flags of one pebble changes nothing else. *)
LEMMA MarkEffect ==
  ASSUME NEW P, IsList(P), NEW a \in DOMAIN P, NEW f
  PROVE  /\ DOMAIN Marked(P, a, f) = DOMAIN P /\ Marked(P, a, f)[a].lflags = f
         /\ \A x \in DOMAIN P : /\ Marked(P, a, f)[x].size = P[x].size
                                /\ Marked(P, a, f)[x].next = P[x].next
         /\ \A x \in DOMAIN P \ {a} : Marked(P, a, f)[x].lflags = P[x].lflags
<1> DEFINE Q == Marked(P, a, f)
<1>1. P \in [DOMAIN P -> Pebble]
  BY DEF IsList
<1>2. /\ DOMAIN Q = DOMAIN P /\ Q[a] = [P[a] EXCEPT !.lflags = f]
      /\ \A x \in DOMAIN P \ {a} : Q[x] = P[x]
  BY <1>1 DEF Marked
<1>3. Q[a].lflags = f /\ Q[a].size = P[a].size /\ Q[a].next = P[a].next
  BY <1>1, <1>2 DEF Pebble
<1> QED
  BY <1>2, <1>3

(* A pebble that is marked as in use ends the seams at it. *)
LEMMA MarkUsed ==
  ASSUME NEW P, IsList(P), NEW a \in DOMAIN P, NEW f, "IN_USE" \in f
  PROVE  /\ UsedAt(Marked(P, a, f)) = UsedAt(P) \cup {a}
         /\ Seams(Marked(P, a, f)) \subseteq Seams(P) \ {a}
<1> DEFINE Q == Marked(P, a, f)
<1>1. /\ DOMAIN Q = DOMAIN P /\ Q[a].lflags = f
      /\ \A x \in DOMAIN P : Q[x].next = P[x].next
      /\ \A x \in DOMAIN P \ {a} : Q[x].lflags = P[x].lflags
  BY MarkEffect
<1> HIDE DEF Q
<1>2. UsedAt(Q) = UsedAt(P) \cup {a} /\ FreeAt(Q) = FreeAt(P) \ {a}
  BY <1>1 DEF UsedAt, FreeAt, PEBBLE_IS_FREE
<1>3. Seams(Q) \subseteq Seams(P) \ {a}
  BY <1>1, <1>2 DEF Seams, FreeAt
<1> QED
  BY <1>2, <1>3 DEF Q

(* A pebble that is marked as free makes at most two seams: at it and before
   it. *)
LEMMA MarkFree ==
  ASSUME NEW P, IsList(P), NEW a \in DOMAIN P
  PROVE  /\ UsedAt(Marked(P, a, {})) = UsedAt(P) \ {a}
         /\ \A x \in Seams(Marked(P, a, {})) : x \in Seams(P) \/ a \in {x, P[x].next}
<1> DEFINE Q == Marked(P, a, {})
<1>1. /\ DOMAIN Q = DOMAIN P /\ Q[a].lflags = {}
      /\ \A x \in DOMAIN P : Q[x].next = P[x].next
      /\ \A x \in DOMAIN P \ {a} : Q[x].lflags = P[x].lflags
  BY MarkEffect
<1> HIDE DEF Q
<1>2. UsedAt(Q) = UsedAt(P) \ {a} /\ FreeAt(Q) = FreeAt(P) \cup {a}
  BY <1>1 DEF UsedAt, FreeAt, PEBBLE_IS_FREE
<1>3. \A x \in Seams(Q) : x \in Seams(P) \/ a \in {x, P[x].next}
  BY <1>1, <1>2 DEF Seams, FreeAt
<1> QED
  BY <1>2, <1>3 DEF Q

(* A pebble cut off leaves the others in use as they are. *)
LEMMA CutOffUsed ==
  ASSUME NEW P, NEW Q, NEW d, NEW a, CutOff(P, Q, d, a)
  PROVE  /\ UsedAt(P) \subseteq UsedAt(Q) /\ UsedAt(Q) \subseteq UsedAt(P) \cup {a}
         /\ a \in UsedAt(Q) <=> "IN_USE" \in Q[a].lflags
         /\ FreeAt(P) \subseteq FreeAt(Q) /\ FreeAt(Q) \subseteq FreeAt(P) \cup {a}
  BY DEF CutOff, UsedAt, FreeAt, PEBBLE_IS_FREE

(* What split_pebble does for kmalloc: the pebble at at is in use, and nothing
   that was in use is disturbed. *)
Placed(P, Q, at, size) ==
  /\ DOMAIN P \subseteq DOMAIN Q /\ at \in DOMAIN Q \ UsedAt(P)
  /\ UsedAt(Q) = UsedAt(P) \cup {at}
  /\ \A x \in UsedAt(P) : Q[x].size = P[x].size
  /\ Q[at].size >= size
  /\ \A n \in Nat : (\A y \in DOMAIN P : P[y].size <= n) => \A x \in DOMAIN Q : Q[x].size <= n
  /\ Seams(P) = {} => Seams(Q) = {}

(* The split without alignment, for a free pebble. *)
LEMMA PlainPlaces ==
  ASSUME NEW P, NEW bytes \in Nat, Sound(P, bytes), NEW a \in FreeAt(P),
         NEW size \in Nat, size <= P[a].size, NEW f \in SUBSET PebbleFlags, "IN_USE" \in f
  PROVE  Placed(P, Marked(SplitPlain(P, a, size), a, f), a, size)
<1> DEFINE R == SplitPlain(P, a, size)
           Q == Marked(R, a, f)
<1> SUFFICES Placed(P, Q, a, size)
  OBVIOUS
<1>0. a \in DOMAIN P /\ a \notin UsedAt(P) /\ P \in [DOMAIN P -> Pebble]
  BY DEF FreeAt, UsedAt, Sound, IsList
<1>1. Sound(R, bytes) /\ a \in DOMAIN R /\ SplitOff(P, R, a, size)
  BY <1>0, SplitPlainSound
<1> HIDE DEF R
<1>2. IsList(R) /\ R \in [DOMAIN R -> Pebble]
  BY <1>1 DEF Sound, IsList
<1>u. UsedAt(Q) = UsedAt(R) \cup {a} /\ Seams(Q) \subseteq Seams(R) \ {a}
  BY <1>1, <1>2, MarkUsed
<1>3. DOMAIN Q = DOMAIN R /\ \A x \in DOMAIN R : Q[x].size = R[x].size
  BY <1>1, <1>2, MarkEffect
<1> HIDE DEF Q
<1>4. CASE R = P
  <2>1. \A x \in UsedAt(P) : x \in DOMAIN P
    BY DEF UsedAt
  <2> QED
    BY <1>0, <1>u, <1>3, <1>4, <2>1 DEF Placed
<1>5. CASE R # P
  <2>1. PICK x \in DOMAIN R :
          /\ CutOff(P, R, a, x) /\ R[x].lflags = P[a].lflags
          /\ R[x].size = P[a].size - R[a].size - PEBBLE_SZ
          /\ R[a].size >= size
    BY <1>1, <1>5 DEF SplitOff
  <2>2. /\ UsedAt(P) \subseteq UsedAt(R) /\ UsedAt(R) \subseteq UsedAt(P) \cup {x}
        /\ x \in UsedAt(R) <=> "IN_USE" \in R[x].lflags
        /\ FreeAt(R) \subseteq FreeAt(P) \cup {x}
    BY <2>1, CutOffUsed
  <2>3. UsedAt(R) = UsedAt(P)
    BY <2>1, <2>2 DEF FreeAt, PEBBLE_IS_FREE
  <2>4. R[x].size <= P[a].size /\ R[a].size <= P[a].size /\ P[a].size \in Nat
    <3>1. P[a].size \in Nat /\ R[a].size \in Nat
      BY <1>0, <1>1, <1>2 DEF Pebble
    <3> QED
      BY <3>1, <2>1 DEF CutOff, PEBBLE_SZ
  <2>5. Seams(P) = {} => Seams(R) \subseteq {a}
    <3> SUFFICES ASSUME Seams(P) = {}, NEW y \in Seams(R) PROVE y = a
      OBVIOUS
    <3>1. y = a \/ (y = x /\ P[a].next \in FreeAt(R))
      BY <2>1, CutOffSeams
    <3>2. P[a].next \notin FreeAt(P)
      BY DEF Seams
    <3>3. P[a].next # x
      BY <1>0, <2>1, NullAssumption DEF CutOff, Sound, ListWellFormed, LinksAgree
    <3> QED
      BY <2>2, <3>1, <3>2, <3>3
  <2>6. \A y \in DOMAIN P \ {a} : R[y].size = P[y].size
    BY <2>1 DEF CutOff
  <2>7. ASSUME NEW n \in Nat, \A y \in DOMAIN P : P[y].size <= n
        PROVE  \A y \in DOMAIN R : R[y].size <= n
    <3> TAKE y \in DOMAIN R
    <3>1. R[y].size \in Nat /\ P[a].size <= n
      BY <1>0, <1>2, <2>7 DEF Pebble
    <3>2. y \in DOMAIN P \ {a} \/ y \in {a, x}
      BY <2>1 DEF CutOff
    <3> QED
      BY <3>1, <3>2, <2>4, <2>6, <2>7
  <2>8. a \in DOMAIN Q /\ DOMAIN P \subseteq DOMAIN Q /\ Q[a].size >= size
    BY <1>1, <1>3, <2>1 DEF CutOff
  <2>9. \A y \in UsedAt(P) : Q[y].size = P[y].size
    BY <1>0, <1>3, <2>1, <2>6 DEF UsedAt, CutOff
  <2> QED
    BY <1>0, <1>u, <1>3, <2>3, <2>5, <2>7, <2>8, <2>9 DEF Placed
<1> QED
  BY <1>4, <1>5

(* The split with alignment, for a free pebble with the room it takes. *)
LEMMA AlignedPlaces ==
  ASSUME NEW P, NEW bytes \in Nat, Sound(P, bytes), NEW a \in FreeAt(P),
         NEW src, src.size \in Nat, src.size % 64 = 0, src.lflags \in SUBSET PebbleFlags,
         "IN_USE" \in src.lflags, src.alignment \in WantedAlignments,
         P[a].size >= src.size + src.alignment + PEBBLE_SZ
  PROVE  LET s == SplitAligned(P, a, src)
         IN  /\ Placed(P, Marked(s.list, s.at, src.lflags), s.at, src.size)
             /\ (s.at + PEBBLE_SZ) % src.alignment = 0
<1> DEFINE s == SplitAligned(P, a, src)
           at == s.at
           R == s.list
           Q == Marked(R, at, src.lflags)
<1>0. a \in DOMAIN P /\ a \notin UsedAt(P) /\ P \in [DOMAIN P -> Pebble]
  BY DEF FreeAt, UsedAt, Sound, IsList
<1>1. /\ Sound(R, bytes) /\ at \in DOMAIN R /\ (at + PEBBLE_SZ) % src.alignment = 0
      /\ \E two : /\ CutOff(P, two, a, at) /\ Sound(two, bytes)
                  /\ two[at].size = src.size /\ two[at].lflags = src.lflags
                  /\ R = two \/ DummyOff(two, R, at, P[a].size)
  BY <1>0, SplitAlignedSound
<1> SUFFICES Placed(P, Q, at, src.size)
  BY <1>1
<1> HIDE DEF s, R, at
<1>2. IsList(R) /\ R \in [DOMAIN R -> Pebble]
  BY <1>1 DEF Sound, IsList
<1>3. UsedAt(Q) = UsedAt(R) \cup {at} /\ Seams(Q) \subseteq Seams(R) \ {at}
  BY <1>1, <1>2, MarkUsed
<1>4. DOMAIN Q = DOMAIN R /\ \A x \in DOMAIN R : Q[x].size = R[x].size
  BY <1>1, <1>2, MarkEffect
<1> HIDE DEF Q
<1>5. PICK two : /\ CutOff(P, two, a, at) /\ Sound(two, bytes)
                 /\ two[at].size = src.size /\ two[at].lflags = src.lflags
                 /\ R = two \/ DummyOff(two, R, at, P[a].size)
  BY <1>1
<1>6. /\ UsedAt(two) = UsedAt(P) \cup {at} /\ at \notin FreeAt(two)
      /\ FreeAt(two) \subseteq FreeAt(P) \cup {at} /\ at \notin UsedAt(P)
  BY <1>5, CutOffUsed DEF CutOff, UsedAt, FreeAt, PEBBLE_IS_FREE
<1>7. P[a].size \in Nat /\ P[a].next # at /\ at \in DOMAIN two /\ two \in [DOMAIN two -> Pebble]
  BY <1>0, <1>5, NullAssumption
     DEF Pebble, CutOff, Sound, IsList, ListWellFormed, LinksAgree
<1>8. Seams(P) = {} => Seams(two) = {}
  BY <1>5, <1>6, CutOffSeams
<1>9. \A x \in DOMAIN two : x \in DOMAIN P \/ x = at
  BY <1>5 DEF CutOff
<1>10. /\ DOMAIN P \subseteq DOMAIN two /\ \A x \in UsedAt(P) : two[x].size = P[x].size
       /\ two[a].size <= P[a].size /\ \A x \in DOMAIN P \ {a} : two[x].size = P[x].size
  BY <1>0, <1>5 DEF CutOff, UsedAt
<1>11. src.size <= P[a].size
  BY <1>7 DEF WantedAlignments, PEBBLE_SZ
<1>12. ASSUME NEW n \in Nat, \A y \in DOMAIN P : P[y].size <= n
       PROVE  \A x \in DOMAIN two : two[x].size <= n
  <2> TAKE x \in DOMAIN two
  <2>1. two[x].size \in Nat /\ P[a].size <= n
    BY <1>0, <1>7, <1>12 DEF Pebble
  <2>2. CASE x \in {a, at}
    BY <2>1, <2>2, <1>5, <1>7, <1>10, <1>11
  <2>3. CASE x \notin {a, at}
    BY <2>1, <2>3, <1>9, <1>10, <1>12
  <2> QED
    BY <2>2, <2>3
<1>13. CASE R = two
  <2>1. Q[at].size >= src.size
    BY <1>4, <1>5, <1>7, <1>13
  <2>2. \A x \in UsedAt(P) : Q[x].size = P[x].size /\ x \in DOMAIN P
    BY <1>4, <1>10, <1>13 DEF UsedAt
  <2> QED
    BY <1>3, <1>4, <1>6, <1>7, <1>8, <1>10, <1>12, <1>13, <2>1, <2>2 DEF Placed
<1>14. CASE DummyOff(two, R, at, P[a].size)
  <2>1. PICK e \in DOMAIN R : /\ CutOff(two, R, at, e) /\ R[at].size = two[at].size
                              /\ R[e].lflags = {} /\ R[e].size <= P[a].size
    BY <1>14 DEF DummyOff
  <2>2. UsedAt(R) = UsedAt(two) /\ FreeAt(R) \subseteq FreeAt(two) \cup {e}
    <3>1. /\ UsedAt(two) \subseteq UsedAt(R) /\ UsedAt(R) \subseteq UsedAt(two) \cup {e}
          /\ e \in UsedAt(R) <=> "IN_USE" \in R[e].lflags
          /\ FreeAt(R) \subseteq FreeAt(two) \cup {e}
      BY <2>1, CutOffUsed
    <3> QED
      BY <2>1, <3>1
  <2>3. Seams(P) = {} => Seams(R) = {}
    <3> SUFFICES ASSUME Seams(P) = {}, NEW y \in Seams(R) PROVE FALSE
      OBVIOUS
    <3>1. \/ y \in Seams(two) \/ at \in FreeAt(R)
          \/ two[at].next \in FreeAt(R)
      BY <1>5, <2>1, CutOffSeams
    <3>2. at \notin FreeAt(R)
      BY <1>6, <2>1, <2>2 DEF CutOff
    <3>3. two[at].next = P[a].next /\ two[at].next # e
      BY <1>5, <1>7, <2>1, NullAssumption DEF CutOff, Sound, ListWellFormed, LinksAgree
    <3>4. P[a].next \notin FreeAt(P)
      BY DEF Seams
    <3> QED
      BY <1>6, <1>7, <1>8, <2>2, <3>1, <3>2, <3>3, <3>4
  <2>4. /\ \A x \in DOMAIN two : x \in DOMAIN R /\ R[x].size = two[x].size
        /\ \A x \in DOMAIN R : x \in DOMAIN two \/ x = e
    BY <2>1 DEF CutOff
  <2>5. ASSUME NEW n \in Nat, \A y \in DOMAIN P : P[y].size <= n
        PROVE  \A x \in DOMAIN R : R[x].size <= n
    <3> TAKE x \in DOMAIN R
    <3>1. R[x].size \in Nat /\ P[a].size <= n
      BY <1>0, <1>2, <2>5 DEF Pebble
    <3>2. \A y \in DOMAIN two : two[y].size <= n
      BY <1>12, <2>5
    <3> QED
      BY <3>1, <3>2, <1>7, <2>1, <2>4
  <2>6. Q[at].size >= src.size
    BY <1>1, <1>4, <1>5, <2>1
  <2>7. \A x \in UsedAt(P) : Q[x].size = P[x].size
    BY <1>4, <1>10, <2>4 DEF UsedAt
  <2>8. UsedAt(Q) = UsedAt(P) \cup {at} /\ DOMAIN P \subseteq DOMAIN Q
        /\ at \in DOMAIN Q \ UsedAt(P)
    BY <1>1, <1>3, <1>4, <1>6, <1>10, <2>2, <2>4
  <2>9. Seams(P) = {} => Seams(Q) = {}
    BY <1>3, <2>3
  <2>10. \A n \in Nat : (\A y \in DOMAIN P : P[y].size <= n)
                           => \A x \in DOMAIN Q : Q[x].size <= n
    BY <1>4, <2>5
  <2> QED
    BY <2>6, <2>7, <2>8, <2>9, <2>10 DEF Placed
<1> QED
  BY <1>5, <1>13, <1>14

(* What kmalloc gets from split_pebble for the free pebble that place_pebble
   chose. *)
LEMMA SplitPlaces ==
  ASSUME NEW P, NEW bytes \in Nat, Sound(P, bytes), NEW a \in FreeAt(P),
         NEW src, src.size \in Nat, src.size % 64 = 0, src.lflags \in SUBSET PebbleFlags,
         "IN_USE" \in src.lflags, src.alignment \in WantedAlignments,
         P[a].size >= NeededSize(src)
  PROVE  LET s == split_pebble(P, a, src)
         IN  /\ Placed(P, Marked(s.list, s.at, src.lflags), s.at, src.size)
             /\ "ALIGNED" \in src.lflags => (s.at + PEBBLE_SZ) % src.alignment = 0
<1> DEFINE s == split_pebble(P, a, src)
<1>1. CASE "ALIGNED" \in src.lflags /\ ~IsAligned(a, src.alignment)
  <2>1. s = SplitAligned(P, a, src)
    BY <1>1 DEF split_pebble
  <2>2. P[a].size >= src.size + src.alignment + PEBBLE_SZ
    BY <1>1 DEF NeededSize
  <2>3. LET r == SplitAligned(P, a, src)
        IN  /\ Placed(P, Marked(r.list, r.at, src.lflags), r.at, src.size)
            /\ (r.at + PEBBLE_SZ) % src.alignment = 0
    BY <2>2, AlignedPlaces
  <2> QED
    BY <2>1, <2>3
<1>2. CASE ~("ALIGNED" \in src.lflags /\ ~IsAligned(a, src.alignment))
  <2>1. s.list = SplitPlain(P, a, src.size) /\ s.at = a
    BY <1>2 DEF split_pebble
  <2>2. src.size <= P[a].size
    <3>1. P[a].size \in Nat
      BY DEF Sound, IsList, FreeAt, Pebble
    <3> QED
      BY <3>1 DEF NeededSize, WantedAlignments, PEBBLE_SZ
  <2>3. Placed(P, Marked(SplitPlain(P, a, src.size), a, src.lflags), a, src.size)
    BY <2>2, PlainPlaces
  <2> QED
    BY <1>2, <2>1, <2>3 DEF IsAligned
<1> QED
  BY <1>1, <1>2

(* What realloc to a smaller size does to the pebble it shrinks, and to no
   other: the bytes it gives up stay in use. *)
Shrunk(P, Q, a, size) ==
  /\ DOMAIN P \subseteq DOMAIN Q /\ UsedAt(P) \subseteq UsedAt(Q)
  /\ \A x \in UsedAt(P) \ {a} : Q[x].size = P[x].size
  /\ Q[a].size >= size
  /\ \A n \in Nat : (\A y \in DOMAIN P : P[y].size <= n) => \A x \in DOMAIN Q : Q[x].size <= n
  /\ Seams(Q) \subseteq Seams(P)

(* The split without alignment, for a pebble in use. *)
LEMMA PlainShrinks ==
  ASSUME NEW P, NEW bytes \in Nat, Sound(P, bytes), NEW a \in UsedAt(P),
         NEW size \in Nat, size <= P[a].size
  PROVE  Shrunk(P, SplitPlain(P, a, size), a, size)
<1> DEFINE Q == SplitPlain(P, a, size)
<1> SUFFICES Shrunk(P, Q, a, size)
  OBVIOUS
<1>0. a \in DOMAIN P /\ "IN_USE" \in P[a].lflags /\ P \in [DOMAIN P -> Pebble]
  BY DEF UsedAt, PEBBLE_IS_FREE, Sound, IsList
<1>1. Sound(Q, bytes) /\ a \in DOMAIN Q /\ SplitOff(P, Q, a, size)
  BY <1>0, SplitPlainSound
<1> HIDE DEF Q
<1>2. Q \in [DOMAIN Q -> Pebble]
  BY <1>1 DEF Sound, IsList
<1>3. CASE Q = P
  BY <1>0, <1>3 DEF UsedAt, Shrunk
<1>4. CASE Q # P
  <2>1. PICK x \in DOMAIN Q :
          /\ CutOff(P, Q, a, x) /\ Q[x].lflags = P[a].lflags
          /\ Q[x].size = P[a].size - Q[a].size - PEBBLE_SZ
          /\ Q[a].size >= size
    BY <1>1, <1>4 DEF SplitOff
  <2>2. /\ UsedAt(P) \subseteq UsedAt(Q) /\ x \in UsedAt(Q)
        /\ FreeAt(Q) \subseteq FreeAt(P) \cup {x}
    BY <1>0, <2>1, CutOffUsed
  <2>3. x \notin FreeAt(Q) /\ a \notin FreeAt(Q)
    BY <2>2 DEF UsedAt, FreeAt
  <2>4. \A y \in Seams(Q) : y \in Seams(P)
    BY <2>1, <2>3, CutOffSeams
  <2>5. Q[x].size <= P[a].size /\ Q[a].size <= P[a].size /\ P[a].size \in Nat
    <3>1. P[a].size \in Nat /\ Q[a].size \in Nat
      BY <1>0, <1>1, <1>2 DEF Pebble
    <3> QED
      BY <3>1, <2>1 DEF CutOff, PEBBLE_SZ
  <2>6. /\ \A y \in DOMAIN P \ {a} : Q[y].size = P[y].size
        /\ DOMAIN Q = DOMAIN P \cup {x}
    BY <2>1 DEF CutOff
  <2>7. ASSUME NEW n \in Nat, \A y \in DOMAIN P : P[y].size <= n
        PROVE  \A y \in DOMAIN Q : Q[y].size <= n
    <3> TAKE y \in DOMAIN Q
    <3>1. Q[y].size \in Nat /\ P[a].size <= n
      BY <1>0, <1>2, <2>7 DEF Pebble
    <3>2. y \in DOMAIN P \ {a} \/ y \in {a, x}
      BY <2>6
    <3> QED
      BY <3>1, <3>2, <2>5, <2>6, <2>7
  <2>8. \A y \in UsedAt(P) \ {a} : Q[y].size = P[y].size
    BY <2>6 DEF UsedAt
  <2> QED
    BY <2>1, <2>2, <2>4, <2>6, <2>7, <2>8 DEF Shrunk
<1> QED
  BY <1>3, <1>4

(* What a merge of two free pebbles does to the others. *)
LEMMA SwallowEffect ==
  ASSUME NEW P, NEW bytes \in Nat, Sound(P, bytes), NEW a \in FreeAt(P),
         P[a].next \in FreeAt(P)
  PROVE  LET n == P[a].next
             Q == SwallowNext(P, a)
         IN  /\ n # a /\ DOMAIN Q = DOMAIN P \ {n} /\ UsedAt(Q) = UsedAt(P)
             /\ Q[a].size = P[a].size + P[n].size + PEBBLE_SZ
             /\ \A x \in DOMAIN Q \ {a} : Q[x].size = P[x].size
             /\ \A x \in Seams(Q) : \/ x = a /\ n \in Seams(P)
                                    \/ x # a /\ x # n /\ x \in Seams(P)
<1> DEFINE n == P[a].next
           m == P[n].next
           Q == SwallowNext(P, a)
<1> USE NullAssumption
<1>0. /\ P \in [DOMAIN P -> Pebble] /\ DOMAIN P \subseteq Nat
      /\ a \in DOMAIN P /\ n \in DOMAIN P /\ n # NULL
  BY DEF Sound, IsList, FreeAt
<1>1. P[n].prev = a /\ P[a].next = n /\ a + PEBBLE_SZ + P[a].size <= n
  BY <1>0 DEF Sound, ListWellFormed, LinksAgree, EndOf
<1>2. n # a /\ m # n /\ m # a
  <2>1. P[a].size \in Nat /\ P[n].size \in Nat
    BY <1>0 DEF Pebble
  <2>2. m # NULL => n + PEBBLE_SZ + P[n].size <= m
    BY <1>0 DEF Sound, ListWellFormed, LinksAgree, EndOf
  <2> HIDE DEF n, m
  <2> QED
    BY <1>0, <1>1, <2>1, <2>2 DEF PEBBLE_SZ
<1>3. /\ DOMAIN Q = DOMAIN P \ {n}
      /\ Q[a] = [P[a] EXCEPT !.size = @ + P[n].size + PEBBLE_SZ, !.next = m]
      /\ \A x \in DOMAIN Q : x # a =>
           Q[x] = IF x = m THEN [P[m] EXCEPT !.prev = a] ELSE P[x]
  <2>1. Q = [x \in DOMAIN P \ {n} |->
               CASE x = a -> [P[a] EXCEPT !.size = @ + P[n].size + PEBBLE_SZ, !.next = m]
                 [] x = m -> [P[m] EXCEPT !.prev = a]
                 [] OTHER -> P[x]]
    BY DEF SwallowNext
  <2>2. a \in DOMAIN P \ {n} /\ m # a
    BY <1>0, <1>2
  <2> HIDE DEF n, m, Q
  <2>3. DOMAIN Q = DOMAIN P \ {n}
    BY <2>1
  <2>4. Q[a] = [P[a] EXCEPT !.size = @ + P[n].size + PEBBLE_SZ, !.next = m]
    BY <2>1, <2>2
  <2>5. ASSUME NEW x \in DOMAIN Q, x # a
        PROVE  Q[x] = IF x = m THEN [P[m] EXCEPT !.prev = a] ELSE P[x]
    BY <2>1, <2>5
  <2> QED
    BY <2>3, <2>4, <2>5
<1> HIDE DEF n, m, Q
<1>4. /\ Q[a].size = P[a].size + P[n].size + PEBBLE_SZ
      /\ Q[a].next = m /\ Q[a].lflags = P[a].lflags
  <2>1. P[a] \in Pebble
    BY <1>0
  <2> QED
    BY <1>3, <2>1 DEF Pebble
<1>5. \A x \in DOMAIN Q \ {a} : /\ Q[x].size = P[x].size /\ Q[x].next = P[x].next
                                /\ Q[x].lflags = P[x].lflags
  BY <1>0, <1>3 DEF Pebble
<1>6. FreeAt(Q) = FreeAt(P) \ {n} /\ UsedAt(Q) = UsedAt(P)
  <2>1. n \notin UsedAt(P) /\ a \in DOMAIN Q
    BY <1>0, <1>2, <1>3 DEF UsedAt, FreeAt, n
  <2>2. \A x \in DOMAIN Q : Q[x].lflags = P[x].lflags
    BY <1>4, <1>5
  <2> QED
    BY <1>0, <1>3, <2>1, <2>2 DEF FreeAt, UsedAt, PEBBLE_IS_FREE
<1>7. \A x \in Seams(Q) : \/ x = a /\ n \in Seams(P)
                          \/ x # a /\ x # n /\ x \in Seams(P)
  <2> TAKE x \in Seams(Q)
  <2>1. x \in FreeAt(P) \ {n} /\ Q[x].next \in FreeAt(P) /\ x \in DOMAIN Q
    BY <1>6 DEF Seams, FreeAt
  <2>2. CASE x = a
    BY <1>4, <2>1, <2>2 DEF Seams, m, n
  <2>3. CASE x # a
    BY <1>5, <2>1, <2>3 DEF Seams
  <2> QED
    BY <2>2, <2>3
<1> QED
  BY <1>2, <1>3, <1>4, <1>5, <1>6, <1>7 DEF n, Q

-----------------------------------------------------------------------------
(* The shapes of the records *)

(* The fields of a bucket record, those the argument is about typed. *)
HasShape(bk) ==
  bk \in [lflags   : SUBSET MallocFlags,
          low      : {bk.low},
          bytes    : Nat,
          largest  : {bk.largest},
          spinlock : {0, 1},
          first    : {bk.first},
          prev     : BucketIds \cup {NULL},
          next     : BucketIds \cup {NULL},
          list     : {bk.list}]

RequestShape == [size      : Nat,
                 alignment : {0, 1, 2, 4, 8, 16, 32} \cup WantedAlignments,
                 flags     : SUBSET MallocFlags]

IsPointer(p)    == p \in [b : BucketIds, at : {p.at}]
PointerShape(p) == p = NULL \/ IsPointer(p)

LocalsShape(l) ==
  /\ l \in [op  : Ops,
            req : RequestShape,
            cur : BucketIds \cup {NULL},
            at  : {l.at},
            reg : {l.reg},
            old : {l.old},
            ret : {l.ret}]
  /\ PointerShape(l.old)
  /\ PointerShape(l.ret)

BlockShape(k) == k \in [p : {k.p}, req : RequestShape] /\ IsPointer(k.p)

(* The next of no bucket is kernel_heap: the list does not come back to it. *)
BucketsInv ==
  /\ DOMAIN buckets \subseteq BucketIds
  /\ buckets = [b \in DOMAIN buckets |-> buckets[b]]
  /\ \A b \in DOMAIN buckets : HasShape(buckets[b]) /\ buckets[b].next # KernelHeap

CallsInv ==
  /\ pc \in [Threads -> PCs]
  /\ loc = [t \in Threads |-> loc[t]]
  /\ \A t \in Threads : LocalsShape(loc[t])
  /\ \A k \in live : BlockShape(k)

ShapeInv == BucketsInv /\ CallsInv

-----------------------------------------------------------------------------
(* The operations on a bucket record keep its fields apart. *)

(* spin_unlock leaves a bucket a bucket. *)
LEMMA UnlockedShape ==
  ASSUME NEW bk, HasShape(bk)
  PROVE  LET r == Unlocked(bk)
         IN  /\ HasShape(r)
             /\ r.lflags = bk.lflags /\ r.bytes = bk.bytes /\ r.next = bk.next
             /\ r.list = bk.list /\ r.spinlock = 0
  BY DEF HasShape, Unlocked

(* bucket_update_largest with a size leaves a bucket a bucket. *)
LEMMA UpdateLargestShape ==
  ASSUME NEW bk, HasShape(bk), NEW n
  PROVE  LET r == bucket_update_largest(bk, n)
         IN  /\ HasShape(r)
             /\ r.lflags = bk.lflags /\ r.bytes = bk.bytes /\ r.next = bk.next
             /\ r.list = bk.list /\ r.spinlock = bk.spinlock
  BY DEF HasShape, bucket_update_largest

(* Setting bucket->first leaves a bucket a bucket. *)
LEMMA FirstShape ==
  ASSUME NEW bk, HasShape(bk), NEW n
  PROVE  LET r == [bk EXCEPT !.first = n]
         IN  /\ HasShape(r)
             /\ r.lflags = bk.lflags /\ r.bytes = bk.bytes /\ r.next = bk.next
             /\ r.list = bk.list /\ r.spinlock = bk.spinlock
  BY DEF HasShape

(* Giving a bucket another pebble list leaves it a bucket. *)
LEMMA ListShape ==
  ASSUME NEW bk, HasShape(bk), NEW P
  PROVE  LET r == [bk EXCEPT !.list = P]
         IN  /\ HasShape(r)
             /\ r.lflags = bk.lflags /\ r.bytes = bk.bytes /\ r.next = bk.next
             /\ r.list = P /\ r.spinlock = bk.spinlock
  BY DEF HasShape

(* absorb_next leaves a bucket a bucket, its links, lock and size untouched.
   *)
LEMMA AbsorbShape ==
  ASSUME NEW bk, HasShape(bk), NEW a
  PROVE  LET r == absorb_next(bk, a)
         IN  /\ HasShape(r)
             /\ r.lflags = bk.lflags /\ r.bytes = bk.bytes /\ r.next = bk.next
             /\ r.spinlock = bk.spinlock
             /\ r.list \in {bk.list, SwallowNext(bk.list, a)}
             /\ r.list # bk.list => bk.list[a].next # NULL
<1> DEFINE n == bk.list[a].next
           s == [bk EXCEPT !.list  = SwallowNext(bk.list, a),
                           !.first = IF @ = n THEN a ELSE @]
           z == bk.list[a].size + bk.list[n].size + PEBBLE_SZ
           r == absorb_next(bk, a)
<1>1. /\ HasShape(s)
      /\ s.lflags = bk.lflags /\ s.bytes = bk.bytes /\ s.next = bk.next
      /\ s.spinlock = bk.spinlock /\ s.list = SwallowNext(bk.list, a)
  BY DEF HasShape
<1>2. r = bk \/ (r = bucket_update_largest(s, z) /\ n # NULL)
  BY DEF absorb_next
<1> HIDE DEF s, r, z
<1>3. CASE r = bk
  BY <1>3 DEF r
<1>4. CASE r = bucket_update_largest(s, z) /\ n # NULL
  <2>1. /\ HasShape(r)
        /\ r.lflags = s.lflags /\ r.bytes = s.bytes /\ r.next = s.next
        /\ r.list = s.list /\ r.spinlock = s.spinlock
    BY <1>1, <1>4, UpdateLargestShape
  <2> QED
    BY <1>1, <1>4, <2>1 DEF r
<1> HIDE DEF n
<1> QED
  BY <1>2, <1>3, <1>4 DEF r
-----------------------------------------------------------------------------
(* Writing one bucket; returning from a call *)

(* A step that changes one bucket changes no other. *)
LEMMA OneBucket ==
  ASSUME BucketsInv, NEW b \in DOMAIN buckets, NEW bk, HasShape(bk), bk.next # KernelHeap,
         buckets' = [buckets EXCEPT ![b] = bk]
  PROVE  /\ BucketsInv'
         /\ DOMAIN buckets' = DOMAIN buckets
         /\ buckets'[b] = bk
         /\ \A x \in DOMAIN buckets : x # b => buckets'[x] = buckets[x]
<1>1. /\ DOMAIN buckets' = DOMAIN buckets
      /\ buckets'[b] = bk
      /\ \A x \in DOMAIN buckets : x # b => buckets'[x] = buckets[x]
  BY DEF BucketsInv
<1>2. ASSUME NEW x \in DOMAIN buckets
      PROVE  HasShape(buckets'[x]) /\ buckets'[x].next # KernelHeap
  BY <1>1 DEF BucketsInv
<1> QED
  BY <1>1, <1>2 DEF BucketsInv, HasShape

(* The threads other than t are where they were. *)
Others(t) == \A u \in Threads : u # t => pc'[u] = pc[u] /\ loc'[u] = loc[u]

(* No bucket is at address NULL. *)
LEMMA NullId == NULL \notin BucketIds /\ KernelHeap \in BucketIds /\ KernelHeap # NULL
  BY HeapAssumptions DEF BucketAssumption

(* The local variables of a thread outside the heap have their shape. *)
LEMMA NoLocalsShape == LocalsShape(NoLocals)
  BY DEF LocalsShape, NoLocals, PointerShape, NoRequest, RequestShape, Ops

(* Goto moves one thread to a place that exists. *)
LEMMA GotoShape ==
  ASSUME CallsInv, NEW t \in Threads, NEW l \in PCs, Goto(t, l)
  PROVE  /\ pc' \in [Threads -> PCs] /\ pc'[t] = l
         /\ \A u \in Threads : u # t => pc'[u] = pc[u]
  BY DEF CallsInv, Goto

(* Changing one thread's local variables keeps everybody's shape. *)
LEMMA LocShape ==
  ASSUME CallsInv, NEW t \in Threads, NEW x, LocalsShape(x),
         loc' = [loc EXCEPT ![t] = x]
  PROVE  /\ loc' = [u \in Threads |-> loc'[u]] /\ loc'[t] = x
         /\ \A u \in Threads : LocalsShape(loc'[u])
         /\ \A u \in Threads : u # t => loc'[u] = loc[u]
<1>1. /\ loc' = [u \in Threads |-> loc'[u]] /\ loc'[t] = x
      /\ \A u \in Threads : u # t => loc'[u] = loc[u]
  BY DEF CallsInv
<1> QED
  BY <1>1 DEF CallsInv

(* What the new values of pc, loc and live must be for CallsInv to hold of
   them. *)
LEMMA CallsPrime ==
  ASSUME pc' \in [Threads -> PCs], loc' = [u \in Threads |-> loc'[u]],
         \A u \in Threads : LocalsShape(loc'[u]), \A k \in live' : BlockShape(k)
  PROVE  CallsInv'
  BY DEF CallsInv, LocalsShape, BlockShape, PointerShape, IsPointer

(* The block kmalloc hands to its caller has the shape of a block. *)
LEMMA HandedShape ==
  ASSUME CallsInv, NEW t \in Threads, NEW p, IsPointer(p)
  PROVE  BlockShape(Handed(t, p))
<1>1. loc[t].req \in RequestShape
  BY DEF CallsInv, LocalsShape
<1> QED
  BY <1>1 DEF BlockShape, Handed

(* A return of kmalloc, to its caller or into realloc, keeps the threads'
   shape. *)
LEMMA KmallocReturnsShape ==
  ASSUME CallsInv, NEW t \in Threads, NEW p, PointerShape(p), KmallocReturns(t, p)
  PROVE  CallsInv' /\ Others(t) /\ pc'[t] \in {"f_lock", "idle"}
<1>1. CASE loc[t].op = "realloc" /\ loc[t].old # NULL
  <2> DEFINE x == [loc[t] EXCEPT !.cur = loc[t].old.b, !.at = loc[t].old.at, !.ret = p]
  <2>1. loc[t].old.b \in BucketIds
    BY <1>1 DEF CallsInv, LocalsShape, PointerShape, IsPointer
  <2>2. LocalsShape(x)
    BY <2>1 DEF CallsInv, LocalsShape
  <2>3. /\ Goto(t, "f_lock") /\ loc' = [loc EXCEPT ![t] = x] /\ live' = live
    BY <1>1 DEF KmallocReturns
  <2> HIDE DEF x
  <2>4. pc' \in [Threads -> PCs] /\ pc'[t] = "f_lock"
        /\ \A u \in Threads : u # t => pc'[u] = pc[u]
    BY <2>3, GotoShape DEF PCs
  <2>5. /\ loc' = [u \in Threads |-> loc'[u]]
        /\ \A u \in Threads : LocalsShape(loc'[u])
        /\ \A u \in Threads : u # t => loc'[u] = loc[u]
    BY <2>2, <2>3, LocShape
  <2>6. \A k \in live' : BlockShape(k)
    BY <2>3 DEF CallsInv
  <2> QED
    BY <2>4, <2>5, <2>6, CallsPrime DEF Others
<1>2. CASE ~(loc[t].op = "realloc" /\ loc[t].old # NULL)
  <2>3. /\ Goto(t, "idle") /\ loc' = [loc EXCEPT ![t] = NoLocals]
        /\ live' = IF p = NULL THEN live ELSE live \cup {Handed(t, p)}
    BY <1>2 DEF KmallocReturns
  <2>4. pc' \in [Threads -> PCs] /\ pc'[t] = "idle"
        /\ \A u \in Threads : u # t => pc'[u] = pc[u]
    BY <2>3, GotoShape DEF PCs
  <2>5. /\ loc' = [u \in Threads |-> loc'[u]]
        /\ \A u \in Threads : LocalsShape(loc'[u])
        /\ \A u \in Threads : u # t => loc'[u] = loc[u]
    BY <2>3, NoLocalsShape, LocShape
  <2>6. \A k \in live' : BlockShape(k)
    BY <2>3, HandedShape DEF CallsInv, PointerShape
  <2> QED
    BY <2>4, <2>5, <2>6, CallsPrime DEF Others
<1> QED
  BY <1>1, <1>2

(* A return of mfree, to its caller or into realloc, keeps the threads'
   shape. *)
LEMMA MfreeReturnsShape ==
  ASSUME CallsInv, NEW t \in Threads, MfreeReturns(t)
  PROVE  CallsInv' /\ Others(t) /\ pc'[t] = "idle"
<1>1. PointerShape(loc[t].ret)
  BY DEF CallsInv, LocalsShape
<1>3. /\ Goto(t, "idle") /\ loc' = [loc EXCEPT ![t] = NoLocals]
      /\ live' = IF loc[t].ret = NULL THEN live ELSE live \cup {Handed(t, loc[t].ret)}
  BY DEF MfreeReturns
<1>4. pc' \in [Threads -> PCs] /\ pc'[t] = "idle"
      /\ \A u \in Threads : u # t => pc'[u] = pc[u]
  BY <1>3, GotoShape DEF PCs
<1>5. /\ loc' = [u \in Threads |-> loc'[u]]
      /\ \A u \in Threads : LocalsShape(loc'[u])
      /\ \A u \in Threads : u # t => loc'[u] = loc[u]
  BY <1>3, NoLocalsShape, LocShape
<1>6. \A k \in live' : BlockShape(k)
  BY <1>1, <1>3, HandedShape DEF CallsInv, PointerShape
<1> QED
  BY <1>4, <1>5, <1>6, CallsPrime DEF Others

(* A step that goes to l and leaves the locals and the blocks alone. *)
LEMMA GoesShape ==
  ASSUME CallsInv, NEW t \in Threads, NEW l \in PCs, Goto(t, l), UNCHANGED <<loc, live>>
  PROVE  CallsInv' /\ Others(t) /\ pc'[t] = l /\ loc'[t] = loc[t]
<1>1. pc' \in [Threads -> PCs] /\ pc'[t] = l
      /\ \A u \in Threads : u # t => pc'[u] = pc[u]
  BY GotoShape
<1> QED
  BY <1>1 DEF CallsInv, Others

(* A step that goes to l with new locals. *)
LEMMA MovesShape ==
  ASSUME CallsInv, NEW t \in Threads, NEW l \in PCs, Goto(t, l),
         NEW x, LocalsShape(x), loc' = [loc EXCEPT ![t] = x], live' \subseteq live
  PROVE  CallsInv' /\ Others(t) /\ pc'[t] = l /\ loc'[t] = x
<1>1. pc' \in [Threads -> PCs] /\ pc'[t] = l
      /\ \A u \in Threads : u # t => pc'[u] = pc[u]
  BY GotoShape
<1>2. /\ loc' = [u \in Threads |-> loc'[u]] /\ loc'[t] = x
      /\ \A u \in Threads : LocalsShape(loc'[u])
      /\ \A u \in Threads : u # t => loc'[u] = loc[u]
  BY LocShape
<1>3. \A k \in live' : BlockShape(k)
  BY DEF CallsInv
<1> QED
  BY <1>1, <1>2, <1>3, CallsPrime DEF Others

-----------------------------------------------------------------------------
(* The lock of kernel_heap *)

(* Where a call works on a bucket that mfree may give back: never kernel_heap. *)
AwayPCs == {"i_lock", "i_link", "n_lock", "n_try", "n_split", "n_largest", "n_first",
            "n_store", "f_first", "f_free", "f_again", "f_prev", "f_last", "f_next",
            "u_walk", "r_prev", "r_next", "r_unmap"}
Away(t) == pc[t] \in AwayPCs => loc[t].cur # KernelHeap

HoldsHeap(t) == Holds(t, KernelHeap)

(* Whoever is in a critical section of kernel_heap has set its spinlock, and is
   there alone. *)
LockInv ==
  /\ KernelHeap \in DOMAIN buckets
  /\ "PERSISTENT" \in buckets[KernelHeap].lflags
  /\ \A t \in Threads : Away(t)
  /\ \A t \in Threads :
       HoldsHeap(t) => /\ buckets[KernelHeap].spinlock = 1
                       /\ \A u \in Threads : HoldsHeap(u) => u = t

(* The steps that write the list of pebbles of the bucket at hand. *)
WritesList(t) ==
  SplitPebble(t) \/ FreeMark(t) \/ FreeMelt(t) \/ FreeAbsorb(t) \/ ShrinkSplit(t)

(* What a step of t may do to kernel_heap: take its lock when it is free, give it
   back, or write the list between the two. *)
StepOK(t) ==
  /\ ShapeInv'
  /\ Others(t)
  /\ KernelHeap \in DOMAIN buckets'
  /\ buckets'[KernelHeap].lflags = buckets[KernelHeap].lflags
  /\ buckets'[KernelHeap].bytes = buckets[KernelHeap].bytes
  /\ Away(t)'
  /\ \/ /\ buckets'[KernelHeap].spinlock = buckets[KernelHeap].spinlock
        /\ HoldsHeap(t)' => HoldsHeap(t)
     \/ buckets[KernelHeap].spinlock = 0 /\ buckets'[KernelHeap].spinlock = 1
     \/ HoldsHeap(t) /\ ~HoldsHeap(t)'
  /\ \/ buckets'[KernelHeap].list = buckets[KernelHeap].list
     \/ HoldsHeap(t) /\ loc[t].cur = KernelHeap /\ WritesList(t)
  /\ pc'[t] = "k_split" => WalkTry(t)

(* A step with the lock of the bucket at hand, which it may give back. *)
LEMMA CriticalWrite ==
  ASSUME ShapeInv, LockInv, NEW t \in Threads, NEW b \in DOMAIN buckets, b = loc[t].cur,
         pc[t] \in CriticalPCs \ {"i_link"},
         NEW bk, HasShape(bk), bk.lflags = buckets[b].lflags, bk.bytes = buckets[b].bytes,
         bk.next = buckets[b].next,
         buckets' = [buckets EXCEPT ![b] = bk],
         CallsInv', Others(t), Away(t)', pc'[t] # "k_split",
         \/ bk.spinlock = buckets[b].spinlock /\ pc'[t] # "i_link" /\ loc'[t].cur = b
         \/ pc'[t] \notin CriticalPCs,
         bk.list = buckets[b].list \/ WritesList(t)
  PROVE  StepOK(t)
<1>1. /\ BucketsInv'
      /\ DOMAIN buckets' = DOMAIN buckets
      /\ buckets'[b] = bk
      /\ \A x \in DOMAIN buckets : x # b => buckets'[x] = buckets[x]
  <2>1. BucketsInv /\ bk.next # KernelHeap
    BY DEF ShapeInv, BucketsInv
  <2> QED
    BY <2>1, OneBucket
<1>2. KernelHeap \in DOMAIN buckets
  BY DEF LockInv
<1>3. LockOf(t) = b /\ (HoldsHeap(t) <=> b = KernelHeap)
  BY DEF HoldsHeap, Holds, LockOf, CriticalPCs
<1>4. (pc'[t] # "i_link" /\ loc'[t].cur = b) => (HoldsHeap(t)' => b = KernelHeap)
  BY DEF HoldsHeap, Holds, LockOf, CriticalPCs
<1>5. pc'[t] \notin CriticalPCs => ~HoldsHeap(t)'
  BY DEF HoldsHeap, Holds
<1>6. CASE b = KernelHeap
  BY <1>1, <1>2, <1>3, <1>4, <1>5, <1>6 DEF StepOK, ShapeInv
<1>7. CASE b # KernelHeap
  BY <1>1, <1>2, <1>3, <1>4, <1>5, <1>7 DEF StepOK, ShapeInv
<1> QED
  BY <1>6, <1>7

(* A step that writes no bucket, or one other than kernel_heap. *)
LEMMA ElsewhereOK ==
  ASSUME BucketsInv', LockInv, NEW t \in Threads,
         KernelHeap \in DOMAIN buckets',
         buckets'[KernelHeap].lflags = buckets[KernelHeap].lflags,
         buckets'[KernelHeap].bytes = buckets[KernelHeap].bytes,
         buckets'[KernelHeap].spinlock = buckets[KernelHeap].spinlock,
         buckets'[KernelHeap].list = buckets[KernelHeap].list,
         CallsInv', Others(t), Away(t)', pc'[t] = "k_split" => WalkTry(t),
         HoldsHeap(t)' => HoldsHeap(t)
  PROVE  StepOK(t)
  BY DEF StepOK, ShapeInv

(* A step that writes to no bucket is fine, unless it enters a critical
   section of kernel_heap. *)
LEMMA NoWriteOK ==
  ASSUME ShapeInv, LockInv, NEW t \in Threads, buckets' = buckets,
         CallsInv', Others(t), Away(t)', pc'[t] = "k_split" => WalkTry(t),
         HoldsHeap(t)' => HoldsHeap(t)
  PROVE  StepOK(t)
<1>1. BucketsInv'
  BY DEF ShapeInv, BucketsInv, HasShape
<1>2. KernelHeap \in DOMAIN buckets
  BY DEF LockInv
<1> QED
  BY <1>1, <1>2, ElsewhereOK

(* A step with no lock held that writes one bucket other than kernel_heap. *)
LEMMA UnlockedWrite ==
  ASSUME ShapeInv, LockInv, NEW t \in Threads, NEW b \in DOMAIN buckets, b # KernelHeap,
         NEW bk, HasShape(bk), bk.next # KernelHeap,
         buckets' = [buckets EXCEPT ![b] = bk],
         CallsInv', Others(t), Away(t)', pc'[t] \notin CriticalPCs
  PROVE  StepOK(t)
<1>1. /\ BucketsInv'
      /\ DOMAIN buckets' = DOMAIN buckets
      /\ buckets'[b] = bk
      /\ \A x \in DOMAIN buckets : x # b => buckets'[x] = buckets[x]
  BY OneBucket DEF ShapeInv
<1>2. KernelHeap \in DOMAIN buckets
  BY DEF LockInv
<1>3. ~HoldsHeap(t)' /\ pc'[t] # "k_split"
  BY DEF HoldsHeap, Holds, CriticalPCs
<1> QED
  BY <1>1, <1>2, <1>3, ElsewhereOK

-----------------------------------------------------------------------------
(* One lemma per action: the calls *)

(* The start of kmalloc's walk over the buckets. *)
LEMMA StartKmallocOK ==
  ASSUME ShapeInv, LockInv, NEW t \in Threads, NEW op \in Ops, NEW req \in RequestShape,
         NEW old, PointerShape(old), StartKmalloc(t, op, req, old),
         live' \subseteq live, buckets' = buckets
  PROVE  StepOK(t)
<1> DEFINE x == [NoLocals EXCEPT !.op = op, !.req = req, !.cur = KernelHeap, !.old = old]
<1>1. LocalsShape(x)
  BY NoLocalsShape, NullId DEF LocalsShape, NoLocals
<1>2. Goto(t, "k_lock") /\ loc' = [loc EXCEPT ![t] = x] /\ "k_lock" \in PCs
  BY DEF StartKmalloc, PCs
<1> HIDE DEF x
<1>3. CallsInv' /\ Others(t) /\ pc'[t] = "k_lock"
  BY <1>1, <1>2, MovesShape DEF ShapeInv
<1>4. Away(t)' /\ ~HoldsHeap(t)'
  BY <1>3 DEF Away, AwayPCs, HoldsHeap, Holds, CriticalPCs
<1> QED
  BY <1>3, <1>4, NoWriteOK

(* A call of kmalloc touches no bucket before it has a lock. *)
LEMMA KmallocOK ==
  ASSUME ShapeInv, LockInv, NEW t \in Threads, Kmalloc(t)
  PROVE  StepOK(t)
<1>1. PICK size \in Sizes, flags \in FlagSets, alignment \in Alignments \cup {1} :
        StartKmalloc(t, "kmalloc",
          [size |-> size, alignment |-> alignment, flags |-> Default(flags)], NULL)
  BY DEF Kmalloc
<1> DEFINE req == [size |-> size, alignment |-> alignment, flags |-> Default(flags)]
<1>2. size \in Nat
  BY HeapAssumptions DEF SizeAssumption
<1>3. Default(flags) \in SUBSET MallocFlags
  BY HeapAssumptions DEF FlagAssumption, Default, MallocFlags
<1>4. alignment \in {0, 1, 2, 4, 8, 16, 32} \cup WantedAlignments
  BY HeapAssumptions DEF AlignAssumption, WantedAlignments
<1>5. req \in RequestShape
  BY <1>2, <1>3, <1>4 DEF RequestShape
<1>6. StartKmalloc(t, "kmalloc", req, NULL) /\ buckets' = buckets /\ live' = live
  BY <1>1 DEF Kmalloc
<1>7. PointerShape(NULL) /\ "kmalloc" \in Ops
  BY DEF PointerShape, Ops
<1> HIDE DEF req
<1> QED
  BY <1>5, <1>6, <1>7, StartKmallocOK

(* Locals of a call on a block. *)
LEMMA BlockLocals ==
  ASSUME CallsInv, NEW k \in live
  PROVE  k.p.b \in BucketIds /\ k.req \in RequestShape /\ PointerShape(k.p)
  BY DEF CallsInv, BlockShape, PointerShape, IsPointer

(* A call of mfree touches no bucket before it has a lock. *)
LEMMA MfreeOK ==
  ASSUME ShapeInv, LockInv, NEW t \in Threads, Mfree(t)
  PROVE  StepOK(t)
<1>1. PICK k \in live :
       /\ live' = live \ {k}
       /\ loc' = [loc EXCEPT ![t] = [NoLocals EXCEPT !.op = "mfree", !.cur = k.p.b,
                                                     !.at = k.p.at]]
  BY DEF Mfree
<1> DEFINE x == [NoLocals EXCEPT !.op = "mfree", !.cur = k.p.b, !.at = k.p.at]
<1>2. LocalsShape(x)
  BY NoLocalsShape, BlockLocals DEF LocalsShape, NoLocals, Ops, ShapeInv
<1>3. Goto(t, "f_lock") /\ buckets' = buckets /\ "f_lock" \in PCs
  BY DEF Mfree, PCs
<1>4. loc' = [loc EXCEPT ![t] = x] /\ live' \subseteq live
  BY <1>1
<1> HIDE DEF x
<1>5. CallsInv' /\ Others(t) /\ pc'[t] = "f_lock"
  BY <1>2, <1>3, <1>4, MovesShape DEF ShapeInv
<1>6. Away(t)' /\ ~HoldsHeap(t)'
  BY <1>5 DEF Away, AwayPCs, HoldsHeap, Holds, CriticalPCs
<1> QED
  BY <1>3, <1>5, <1>6, NoWriteOK

(* A call of realloc that shrinks touches no bucket before it has a lock. *)
LEMMA ReallocShrinkOK ==
  ASSUME ShapeInv, LockInv, NEW t \in Threads, ReallocShrink(t)
  PROVE  StepOK(t)
<1>1. PICK k \in live, size \in ReallocSizes \ {0} :
       /\ live' = live \ {k}
       /\ loc' = [loc EXCEPT ![t] =
            [NoLocals EXCEPT !.op = "realloc", !.cur = k.p.b, !.at = k.p.at,
               !.req = [k.req EXCEPT !.size = size]]]
  BY DEF ReallocShrink
<1> DEFINE x == [NoLocals EXCEPT !.op = "realloc", !.cur = k.p.b, !.at = k.p.at,
                                 !.req = [k.req EXCEPT !.size = size]]
<1>r. [k.req EXCEPT !.size = size] \in RequestShape
  BY BlockLocals, HeapAssumptions DEF RequestShape, SizeAssumption, ShapeInv
<1>2. LocalsShape(x)
  BY <1>r, NoLocalsShape, BlockLocals DEF LocalsShape, NoLocals, Ops, ShapeInv
<1>3. Goto(t, "s_lock") /\ buckets' = buckets /\ "s_lock" \in PCs
  BY DEF ReallocShrink, PCs
<1>4. loc' = [loc EXCEPT ![t] = x] /\ live' \subseteq live
  BY <1>1
<1> HIDE DEF x
<1>5. CallsInv' /\ Others(t) /\ pc'[t] = "s_lock"
  BY <1>2, <1>3, <1>4, MovesShape DEF ShapeInv
<1>6. Away(t)' /\ ~HoldsHeap(t)'
  BY <1>5 DEF Away, AwayPCs, HoldsHeap, Holds, CriticalPCs
<1> QED
  BY <1>3, <1>5, <1>6, NoWriteOK

(* A call of realloc that grows begins as kmalloc does. *)
LEMMA ReallocGrowOK ==
  ASSUME ShapeInv, LockInv, NEW t \in Threads, ReallocGrow(t)
  PROVE  StepOK(t)
<1>1. PICK k \in live, size \in ReallocSizes \ {0} :
        LET pebble == buckets[k.p.b].list[k.p.at]
            req == [size |-> size, alignment |-> 1, flags |-> ReallocFlags(pebble.lflags)]
        IN  /\ live' = live \ {k}
            /\ IF Refused(req.flags)
               THEN /\ Goto(t, "f_lock")
                    /\ loc' = [loc EXCEPT ![t] =
                         [NoLocals EXCEPT !.op = "realloc", !.req = req, !.old = k.p,
                                          !.cur = k.p.b, !.at = k.p.at]]
               ELSE StartKmalloc(t, "realloc", req, k.p)
  BY DEF ReallocGrow
<1> DEFINE f   == ReallocFlags(buckets[k.p.b].list[k.p.at].lflags)
           req == [size |-> size, alignment |-> 1, flags |-> f]
           x   == [NoLocals EXCEPT !.op = "realloc", !.req = req, !.old = k.p,
                                   !.cur = k.p.b, !.at = k.p.at]
<1>2. f \in SUBSET MallocFlags
  BY DEF ReallocFlags, MallocFlags
<1>3. buckets' = buckets
  BY DEF ReallocGrow
<1>4. /\ live' \subseteq live
      /\ \/ Goto(t, "f_lock") /\ loc' = [loc EXCEPT ![t] = x]
         \/ StartKmalloc(t, "realloc", req, k.p)
  BY <1>1
<1> HIDE DEF f
<1>5. req \in RequestShape
  BY <1>2, HeapAssumptions DEF RequestShape, SizeAssumption
<1> HIDE DEF req
<1>6. LocalsShape(x) /\ "f_lock" \in PCs /\ "realloc" \in Ops
  BY <1>5, NoLocalsShape, BlockLocals DEF LocalsShape, NoLocals, Ops, ShapeInv, PCs
<1> HIDE DEF x
<1>7. CASE StartKmalloc(t, "realloc", req, k.p)
  BY <1>3, <1>4, <1>5, <1>6, <1>7, BlockLocals, StartKmallocOK DEF ShapeInv
<1>8. CASE Goto(t, "f_lock") /\ loc' = [loc EXCEPT ![t] = x]
  <2>1. CallsInv' /\ Others(t) /\ pc'[t] = "f_lock"
    BY <1>4, <1>6, <1>8, MovesShape DEF ShapeInv
  <2>2. Away(t)' /\ ~HoldsHeap(t)'
    BY <2>1 DEF Away, AwayPCs, HoldsHeap, Holds, CriticalPCs
  <2> QED
    BY <1>3, <2>1, <2>2, NoWriteOK
<1> QED
  BY <1>4, <1>7, <1>8

-----------------------------------------------------------------------------
(* One lemma per action: the steps of kmalloc *)

(* What is known of the bucket a thread is at. *)
LEMMA CurShape ==
  ASSUME CallsInv, NEW t \in Threads
  PROVE  loc[t].cur \in BucketIds \cup {NULL} /\ pc[t] \in PCs /\ loc[t].req \in RequestShape
  BY DEF CallsInv, LocalsShape

(* A thread that takes kernel_heap's lock is the only one inside. *)
LEMMA SpinLockOK ==
  ASSUME ShapeInv, LockInv, NEW t \in Threads, SpinLock(t)
  PROVE  StepOK(t)
<1> DEFINE b == LockOf(t)
           bk == [buckets[b] EXCEPT !.spinlock = 1]
           l == AfterLock(pc[t])
<1>1. /\ pc[t] \in LockPCs /\ b \in DOMAIN buckets /\ buckets[b].spinlock = 0
      /\ buckets' = [buckets EXCEPT ![b] = bk]
      /\ Goto(t, l) /\ UNCHANGED <<loc, live>>
  BY DEF SpinLock, Mapped
<1>2. \/ pc[t] = "k_lock" /\ l = "k_try"
      \/ pc[t] = "i_lock" /\ l = "i_link"
      \/ pc[t] = "n_lock" /\ l = "n_try"
      \/ pc[t] = "f_lock" /\ l = "f_mark"
      \/ pc[t] = "s_lock" /\ l = "s_split"
  BY <1>1 DEF AfterLock, LockPCs
<1>3. HasShape(buckets[b]) /\ buckets[b].next # KernelHeap
  BY <1>1 DEF ShapeInv, BucketsInv
<1>4. /\ HasShape(bk) /\ bk.next # KernelHeap /\ bk.spinlock = 1
      /\ bk.lflags = buckets[b].lflags /\ bk.bytes = buckets[b].bytes
      /\ bk.list = buckets[b].list
  BY <1>3 DEF HasShape
<1>5. l \in PCs
  BY <1>2 DEF PCs
<1> HIDE DEF bk, l
<1>6. CallsInv' /\ Others(t) /\ pc'[t] = l /\ loc'[t] = loc[t]
  BY <1>1, <1>5, GoesShape DEF ShapeInv
<1>7. Away(t)' /\ pc'[t] # "k_split"
  BY <1>2, <1>6 DEF LockInv, Away, AwayPCs
<1>8. LockOf(t)' = b
  BY <1>2, <1>6 DEF LockOf
<1> HIDE DEF b
<1>9. /\ BucketsInv' /\ DOMAIN buckets' = DOMAIN buckets /\ buckets'[b] = bk
      /\ \A x \in DOMAIN buckets : x # b => buckets'[x] = buckets[x]
  BY <1>1, <1>4, OneBucket DEF ShapeInv
<1>10. KernelHeap \in DOMAIN buckets
  BY DEF LockInv
<1>11. CASE b = KernelHeap
  BY <1>1, <1>4, <1>6, <1>7, <1>9, <1>10, <1>11 DEF StepOK, ShapeInv
<1>12. CASE b # KernelHeap
  <2>1. ~HoldsHeap(t)'
    BY <1>8, <1>12 DEF HoldsHeap, Holds
  <2> QED
    BY <2>1, <1>6, <1>7, <1>9, <1>10, <1>12 DEF StepOK, ShapeInv
<1> QED
  BY <1>11, <1>12

(* A search that ends with a pebble leaves the thread inside, with that
   pebble in hand. *)
LEMMA FoundOK ==
  ASSUME ShapeInv, LockInv, NEW t \in Threads,
         NEW l \in {"k_split", "n_split"}, Found(t, l),
         \/ l = "k_split" /\ pc[t] = "k_try" /\ WalkTry(t)
         \/ l = "n_split" /\ pc[t] = "n_try"
  PROVE  StepOK(t)
<1> DEFINE x == [loc[t] EXCEPT !.at = FirstFound(buckets[loc[t].cur], Wanted(loc[t].req))]
<1>1. /\ buckets' = buckets /\ live' = live /\ Goto(t, l)
      /\ loc' = [loc EXCEPT ![t] = x]
  BY DEF Found
<1>2. LocalsShape(x) /\ x.cur = loc[t].cur
  BY DEF ShapeInv, CallsInv, LocalsShape
<1>l. l \in PCs
  BY DEF PCs
<1> HIDE DEF x
<1>3. CallsInv' /\ Others(t) /\ pc'[t] = l /\ loc'[t] = x
  BY <1>1, <1>2, <1>l, MovesShape DEF ShapeInv
<1>4. Away(t)' /\ (HoldsHeap(t)' => HoldsHeap(t))
  BY <1>2, <1>3 DEF LockInv, Away, AwayPCs, HoldsHeap, Holds, LockOf, CriticalPCs
<1> QED
  BY <1>1, <1>3, <1>4, NoWriteOK

(* A thread that walks for ever stays inside and changes nothing. *)
LEMMA HangOK ==
  ASSUME ShapeInv, LockInv, NEW t \in Threads, pc[t] \in {"k_try", "n_try"}, FoundNever(t)
  PROVE  StepOK(t)
<1>1. buckets' = buckets /\ Goto(t, "hang") /\ UNCHANGED <<loc, live>> /\ "hang" \in PCs
  BY DEF FoundNever, PCs
<1>2. CallsInv' /\ Others(t) /\ pc'[t] = "hang" /\ loc'[t] = loc[t]
  BY <1>1, GoesShape DEF ShapeInv
<1>3. Away(t)' /\ (HoldsHeap(t)' => HoldsHeap(t))
  BY <1>2 DEF Away, AwayPCs, HoldsHeap, Holds, LockOf, CriticalPCs
<1> QED
  BY <1>1, <1>2, <1>3, NoWriteOK

(* place_pebble's search, or passing on to the next bucket, keeps the lock's
   discipline. *)
LEMMA WalkTryOK ==
  ASSUME ShapeInv, LockInv, NEW t \in Threads, WalkTry(t)
  PROVE  StepOK(t)
<1> DEFINE b == loc[t].cur
<1>0. pc[t] = "k_try" /\ b \in DOMAIN buckets
  BY DEF WalkTry, Mapped
<1>1. CASE Found(t, "k_split")
  BY <1>0, <1>1, FoundOK
<1>2. CASE FoundNever(t)
  BY <1>0, <1>2, HangOK
<1>3. CASE /\ buckets' = [buckets EXCEPT ![b] = Unlocked(@)]
           /\ Goto(t, "k_next")
           /\ UNCHANGED <<loc, live>>
  <2> DEFINE bk == Unlocked(buckets[b])
  <2>1. HasShape(buckets[b])
    BY <1>0 DEF ShapeInv, BucketsInv
  <2>2. /\ HasShape(bk)
        /\ bk.lflags = buckets[b].lflags /\ bk.bytes = buckets[b].bytes
        /\ bk.next = buckets[b].next /\ bk.list = buckets[b].list
    BY <2>1, UnlockedShape
  <2>3. buckets' = [buckets EXCEPT ![b] = bk] /\ "k_next" \in PCs
    BY <1>3 DEF PCs
  <2> HIDE DEF bk
  <2>4. CallsInv' /\ Others(t) /\ pc'[t] = "k_next"
    BY <1>3, <2>3, GoesShape DEF ShapeInv
  <2>5. /\ Away(t)' /\ pc'[t] \notin CriticalPCs /\ pc'[t] # "k_split"
        /\ pc[t] \in CriticalPCs \ {"i_link"}
    BY <1>0, <2>4 DEF Away, AwayPCs, CriticalPCs
  <2> QED
    BY <1>0, <2>2, <2>3, <2>4, <2>5, CriticalWrite
<1> QED
  BY <1>1, <1>2, <1>3 DEF WalkTry

(* The split of the pebble found is made inside, by the thread that found
   it. *)
LEMMA SplitPebbleOK ==
  ASSUME ShapeInv, LockInv, NEW t \in Threads, SplitPebble(t)
  PROVE  StepOK(t)
<1> DEFINE b  == loc[t].cur
           s  == split_pebble(buckets[b].list, loc[t].at, Wanted(loc[t].req))
           P  == [s.list EXCEPT ![s.at].lflags = Wanted(loc[t].req).lflags]
           bk == [buckets[b] EXCEPT !.list = P]
           l  == IF pc[t] = "k_split" THEN "k_first" ELSE "n_largest"
           x  == [loc[t] EXCEPT !.at = s.at]
<1>0. pc[t] \in {"k_split", "n_split"} /\ b \in DOMAIN buckets
  BY DEF SplitPebble, AtHand, Mapped
<1>1. /\ buckets' = [buckets EXCEPT ![b] = bk] /\ Goto(t, l)
      /\ loc' = [loc EXCEPT ![t] = x] /\ live' \subseteq live
  BY DEF SplitPebble
<1> HIDE DEF s, P
<1>2. HasShape(buckets[b])
  BY <1>0 DEF ShapeInv, BucketsInv
<1>3. /\ HasShape(bk)
      /\ bk.lflags = buckets[b].lflags /\ bk.bytes = buckets[b].bytes
      /\ bk.next = buckets[b].next /\ bk.spinlock = buckets[b].spinlock
  BY <1>2, ListShape
<1>4. LocalsShape(x) /\ x.cur = b
  BY DEF ShapeInv, CallsInv, LocalsShape
<1>5. l \in PCs
  BY DEF PCs
<1> HIDE DEF bk, x
<1>6. CallsInv' /\ Others(t) /\ pc'[t] = l /\ loc'[t] = x
  BY <1>1, <1>4, <1>5, MovesShape DEF ShapeInv
<1>7. /\ Away(t)' /\ pc'[t] # "k_split" /\ pc'[t] # "i_link" /\ loc'[t].cur = b
      /\ pc[t] \in CriticalPCs \ {"i_link"}
  BY <1>0, <1>4, <1>6 DEF LockInv, Away, AwayPCs, CriticalPCs
<1>8. WritesList(t)
  BY DEF WritesList
<1> HIDE DEF l
<1> QED
  BY <1>0, <1>1, <1>3, <1>6, <1>7, <1>8, CriticalWrite

(* Updating first and largest and unlocking leaves the bucket unlocked with
   nobody inside. *)
LEMMA WalkFirstOK ==
  ASSUME ShapeInv, LockInv, NEW t \in Threads, WalkFirst(t)
  PROVE  StepOK(t)
<1> DEFINE b  == loc[t].cur
           f  == [buckets[b] EXCEPT !.first = buckets[b].list[loc[t].at].next]
           g  == bucket_update_largest(f, Wanted(loc[t].req).size)
           bk == Unlocked(g)
           p  == [b |-> b, at |-> loc[t].at]
<1>0. pc[t] = "k_first" /\ b \in DOMAIN buckets /\ b \in BucketIds
  BY DEF WalkFirst, AtHand, Mapped, ShapeInv, BucketsInv
<1>1. buckets' = [buckets EXCEPT ![b] = bk] /\ KmallocReturns(t, p)
  BY DEF WalkFirst
<1>2. HasShape(buckets[b])
  BY <1>0 DEF ShapeInv, BucketsInv
<1>3. /\ HasShape(f) /\ f.lflags = buckets[b].lflags /\ f.bytes = buckets[b].bytes
      /\ f.next = buckets[b].next /\ f.list = buckets[b].list
  BY <1>2, FirstShape
<1> HIDE DEF f
<1>4. /\ HasShape(g) /\ g.lflags = f.lflags /\ g.bytes = f.bytes
      /\ g.next = f.next /\ g.list = f.list
  BY <1>3, UpdateLargestShape
<1> HIDE DEF g
<1>5. /\ HasShape(bk) /\ bk.lflags = g.lflags /\ bk.bytes = g.bytes
      /\ bk.next = g.next /\ bk.list = g.list
  BY <1>4, UnlockedShape
<1>6. PointerShape(p)
  BY <1>0 DEF PointerShape, IsPointer
<1> HIDE DEF bk, p
<1>7. CallsInv' /\ Others(t) /\ pc'[t] \in {"f_lock", "idle"}
  BY <1>1, <1>6, KmallocReturnsShape DEF ShapeInv
<1>8. /\ Away(t)' /\ pc'[t] \notin CriticalPCs /\ pc'[t] # "k_split"
      /\ pc[t] \in CriticalPCs \ {"i_link"}
  BY <1>0, <1>7 DEF Away, AwayPCs, CriticalPCs
<1> QED
  BY <1>0, <1>1, <1>3, <1>4, <1>5, <1>7, <1>8, CriticalWrite

(* Going on to the next bucket never comes back to kernel_heap. *)
LEMMA WalkNextOK ==
  ASSUME ShapeInv, LockInv, NEW t \in Threads, WalkNext(t)
  PROVE  StepOK(t)
<1> DEFINE n == buckets[loc[t].cur].next
           l == IF n = NULL THEN "k_create" ELSE "k_lock"
           x == [loc[t] EXCEPT !.cur = n]
<1>1. /\ buckets' = buckets /\ live' \subseteq live /\ Goto(t, l)
      /\ loc' = [loc EXCEPT ![t] = x]
  BY DEF WalkNext
<1>2. n \in BucketIds \cup {NULL}
  BY DEF WalkNext, Mapped, ShapeInv, BucketsInv, HasShape
<1>3. LocalsShape(x)
  BY <1>2 DEF ShapeInv, CallsInv, LocalsShape
<1>4. l \in PCs
  BY DEF PCs
<1> HIDE DEF x, n
<1>5. CallsInv' /\ Others(t) /\ pc'[t] = l
  BY <1>1, <1>3, <1>4, MovesShape DEF ShapeInv
<1>6. Away(t)' /\ ~HoldsHeap(t)' /\ pc'[t] # "k_split"
  BY <1>5 DEF Away, AwayPCs, HoldsHeap, Holds, CriticalPCs
<1> QED
  BY <1>1, <1>5, <1>6, NoWriteOK

(* create_bucket makes a bucket. *)
LEMMA CreateShape ==
  ASSUME NEW size, NEW flags \in SUBSET MallocFlags, NEW low, BucketBytes(size, flags) \in Nat
  PROVE  LET r == create_bucket(size, flags, low)
         IN  HasShape(r) /\ r.next = NULL /\ r.spinlock = 0
  BY DEF HasShape, create_bucket

(* The size of a new bucket is a number of bytes with room for its headers.
   *)
LEMMA BucketBytesRange ==
  ASSUME NEW size \in Nat, NEW flags
  PROVE  /\ BucketBytes(size, flags) \in Nat
         /\ BucketBytes(size, flags) >= ALLOC_MIN
         /\ BucketBytes(size, flags) % PAGE_SIZE = 0
<1> DEFINE least == IF size < ALLOC_MIN THEN ALLOC_MIN ELSE size
           pages == RoundUp(least, PAGE_SIZE)
<1>1. least \in Nat /\ least >= 65728
  BY DEF ALLOC_MIN, BUCKET_SZ, PEBBLE_SZ
<1> HIDE DEF least
<1>2. pages \in Nat /\ pages >= 65728 /\ pages % 4096 = 0
  BY <1>1 DEF RoundUp, RoundDown, PAGE_SIZE
<1>3. BucketBytes(size, flags) \in {pages, pages + 4096}
  BY DEF BucketBytes, PAGE_SIZE, least
<1> HIDE DEF pages
<1> QED
  BY <1>2, <1>3 DEF ALLOC_MIN, BUCKET_SZ, PEBBLE_SZ, PAGE_SIZE

(* The size kmalloc asks of create_bucket is a number of bytes. *)
LEMMA NewBucketSizeNat ==
  ASSUME NEW req \in RequestShape
  PROVE  NewBucketSize(req) \in Nat
<1>1. req.size \in Nat /\ req.alignment \in Nat
  BY DEF RequestShape, WantedAlignments
<1>2. /\ AtLeast(req.size, PEBBLE_MIN_SIZE) \in Nat
      /\ AtLeast(req.alignment, PEBBLE_MIN_ALIGN) \in Nat
  BY <1>1 DEF AtLeast, PEBBLE_MIN_SIZE, PEBBLE_MIN_ALIGN
<1> QED
  BY <1>2 DEF NewBucketSize, BUCKET_SZ, PEBBLE_SZ

(* Mapping a new bucket touches no other, and none can be at kernel_heap. *)
LEMMA CreateBucketOK ==
  ASSUME ShapeInv, LockInv, NEW t \in Threads, CreateBucket(t)
  PROVE  StepOK(t)
<1>1. CASE KmallocReturns(t, NULL) /\ UNCHANGED buckets
  <2>1. PointerShape(NULL)
    BY DEF PointerShape, IsPointer
  <2>2. CallsInv' /\ Others(t) /\ pc'[t] \in {"f_lock", "idle"}
    BY <1>1, <2>1, KmallocReturnsShape DEF ShapeInv
  <2>3. Away(t)' /\ ~HoldsHeap(t)' /\ pc'[t] # "k_split"
    BY <2>2 DEF Away, AwayPCs, HoldsHeap, Holds, CriticalPCs
  <2> QED
    BY <1>1, <2>2, <2>3, NoWriteOK
<1>2. CASE \E b \in BucketIds \ DOMAIN buckets, low \in BOOLEAN :
          /\ buckets' = [x \in DOMAIN buckets \cup {b} |->
               IF x = b
               THEN create_bucket(NewBucketSize(loc[t].req), loc[t].req.flags, low)
               ELSE buckets[x]]
          /\ loc' = [loc EXCEPT ![t].cur = b]
          /\ Goto(t, "i_lock")
          /\ UNCHANGED live
  <2>1. PICK b \in BucketIds \ DOMAIN buckets, low \in BOOLEAN :
          /\ buckets' = [x \in DOMAIN buckets \cup {b} |->
               IF x = b
               THEN create_bucket(NewBucketSize(loc[t].req), loc[t].req.flags, low)
               ELSE buckets[x]]
          /\ loc' = [loc EXCEPT ![t].cur = b]
          /\ Goto(t, "i_lock")
          /\ UNCHANGED live
    BY <1>2
  <2> DEFINE new == create_bucket(NewBucketSize(loc[t].req), loc[t].req.flags, low)
             x   == [loc[t] EXCEPT !.cur = b]
  <2>2. loc[t].req \in RequestShape /\ loc[t].req.flags \in SUBSET MallocFlags
    BY CurShape DEF ShapeInv, RequestShape
  <2>3. HasShape(new) /\ new.next = NULL
    BY <2>2, NewBucketSizeNat, BucketBytesRange, CreateShape
  <2> HIDE DEF new
  <2>4. /\ DOMAIN buckets' = DOMAIN buckets \cup {b}
        /\ buckets' = [y \in DOMAIN buckets' |-> buckets'[y]]
        /\ buckets'[b] = new
        /\ \A y \in DOMAIN buckets : buckets'[y] = buckets[y]
    BY <2>1 DEF new
  <2>5. BucketsInv'
    <3>1. ASSUME NEW y \in DOMAIN buckets'
          PROVE  HasShape(buckets'[y]) /\ buckets'[y].next # KernelHeap
      BY <2>3, <2>4, NullId DEF ShapeInv, BucketsInv
    <3> QED
      BY <2>4, <3>1 DEF ShapeInv, BucketsInv, HasShape
  <2>6. LocalsShape(x) /\ x.cur = b /\ "i_lock" \in PCs
    BY DEF ShapeInv, CallsInv, LocalsShape, PCs
  <2>7. loc' = [loc EXCEPT ![t] = x] /\ Goto(t, "i_lock") /\ live' \subseteq live
    BY <2>1
  <2> HIDE DEF x
  <2>8. CallsInv' /\ Others(t) /\ pc'[t] = "i_lock" /\ loc'[t] = x
    BY <2>6, <2>7, MovesShape DEF ShapeInv
  <2>9. KernelHeap \in DOMAIN buckets /\ b # KernelHeap
    BY DEF LockInv
  <2>10. Away(t)' /\ ~HoldsHeap(t)' /\ pc'[t] # "k_split"
    BY <2>6, <2>8, <2>9 DEF Away, HoldsHeap, Holds, CriticalPCs
  <2> QED
    BY <2>4, <2>5, <2>8, <2>9, <2>10, ElsewhereOK
<1> QED
  BY <1>1, <1>2 DEF CreateBucket

(* Linking a new bucket behind kernel_heap is done inside kernel_heap. *)
LEMMA InsertLinkOK ==
  ASSUME ShapeInv, LockInv, NEW t \in Threads, InsertLink(t)
  PROVE  StepOK(t)
<1> DEFINE b == loc[t].cur
           h == KernelHeap
           n == buckets[h].next
           hk == [buckets[h] EXCEPT !.next = b]
<1>0. h \in DOMAIN buckets /\ h \in BucketIds /\ h # NULL
  BY NullId DEF LockInv
<1>1. /\ pc[t] = "i_link" /\ b \in DOMAIN buckets
      /\ n # NULL => n \in DOMAIN buckets
      /\ buckets' = [x \in DOMAIN buckets |->
           CASE x = b -> [buckets[b] EXCEPT !.next = n, !.prev = KernelHeap]
             [] x = h -> Unlocked([buckets[x] EXCEPT !.next = b])
             [] x = n -> [buckets[x] EXCEPT !.prev = b]
             [] OTHER -> buckets[x]]
      /\ Goto(t, "n_lock") /\ UNCHANGED <<loc, live>>
  BY DEF InsertLink, Mapped
<1>2. b # h /\ n # h /\ b \in BucketIds /\ n \in BucketIds \cup {NULL}
  BY <1>0, <1>1 DEF LockInv, Away, AwayPCs, ShapeInv, BucketsInv, HasShape
<1>3. \A x \in DOMAIN buckets : HasShape(buckets[x]) /\ buckets[x].next # h
  BY DEF ShapeInv, BucketsInv
<1>4. /\ HasShape(hk) /\ hk.next = b /\ hk.lflags = buckets[h].lflags
      /\ hk.bytes = buckets[h].bytes /\ hk.list = buckets[h].list
      /\ hk.spinlock = buckets[h].spinlock
  BY <1>0, <1>2, <1>3 DEF HasShape
<1>5. /\ HasShape(Unlocked(hk)) /\ Unlocked(hk).next = b
      /\ Unlocked(hk).lflags = buckets[h].lflags
      /\ Unlocked(hk).bytes = buckets[h].bytes /\ Unlocked(hk).list = buckets[h].list
  <2> HIDE DEF hk
  <2> QED
    BY <1>4, UnlockedShape
<1>6. buckets'[h] = Unlocked(hk) /\ DOMAIN buckets' = DOMAIN buckets
  BY <1>0, <1>1, <1>2
<1>7. ASSUME NEW x \in DOMAIN buckets
      PROVE  HasShape(buckets'[x]) /\ buckets'[x].next # h
  <2>1. CASE x = h
    BY <2>1, <1>2, <1>5, <1>6
  <2>2. CASE x # h
    <3>1. \/ buckets'[x] = [buckets[x] EXCEPT !.next = n, !.prev = KernelHeap]
          \/ buckets'[x] = [buckets[x] EXCEPT !.prev = b]
          \/ buckets'[x] = buckets[x]
      <4>1. CASE x = b /\ x = n
        BY <1>1, <2>2, <4>1
      <4>2. CASE x = b /\ x # n
        BY <1>1, <2>2, <4>2
      <4>3. CASE x # b /\ x = n
        BY <1>1, <2>2, <4>3
      <4>4. CASE x # b /\ x # n
        BY <1>1, <2>2, <4>4
      <4> QED
        BY <4>1, <4>2, <4>3, <4>4
    <3>2. HasShape(buckets[x]) /\ buckets[x].next # h
      BY <1>3
    <3> HIDE DEF n, b, h
    <3> QED
      BY <3>1, <3>2, <1>0, <1>2 DEF HasShape, h
  <2> QED
    BY <2>1, <2>2
<1>8. BucketsInv'
  <2>1. buckets' = [x \in DOMAIN buckets' |-> buckets'[x]]
    BY <1>1
  <2> QED
    BY <1>6, <1>7, <2>1 DEF ShapeInv, BucketsInv, HasShape
<1>9. CallsInv' /\ Others(t) /\ pc'[t] = "n_lock" /\ loc'[t] = loc[t]
  BY <1>1, GoesShape DEF ShapeInv, PCs
<1>10. Away(t)' /\ ~HoldsHeap(t)' /\ HoldsHeap(t) /\ pc'[t] # "k_split"
  BY <1>1, <1>2, <1>9 DEF Away, HoldsHeap, Holds, CriticalPCs, LockOf
<1> QED
  BY <1>0, <1>5, <1>6, <1>8, <1>9, <1>10 DEF StepOK, ShapeInv

(* The search in a new bucket is not inside kernel_heap. *)
LEMMA NewTryOK ==
  ASSUME ShapeInv, LockInv, NEW t \in Threads, NewTry(t)
  PROVE  StepOK(t)
<1> DEFINE b == loc[t].cur
<1>0. pc[t] = "n_try" /\ b \in DOMAIN buckets
  BY DEF NewTry, Mapped
<1>1. CASE Found(t, "n_split")
  BY <1>0, <1>1, FoundOK
<1>2. CASE FoundNever(t)
  BY <1>0, <1>2, HangOK
<1>3. CASE /\ buckets' = [buckets EXCEPT ![b] =
                 Unlocked(bucket_update_largest(@, Wanted(loc[t].req).size))]
           /\ KmallocReturns(t, NULL)
  <2> DEFINE g  == bucket_update_largest(buckets[b], Wanted(loc[t].req).size)
             bk == Unlocked(g)
  <2>1. HasShape(buckets[b])
    BY <1>0 DEF ShapeInv, BucketsInv
  <2>2. /\ HasShape(g) /\ g.lflags = buckets[b].lflags /\ g.bytes = buckets[b].bytes
        /\ g.next = buckets[b].next /\ g.list = buckets[b].list
    BY <2>1, UpdateLargestShape
  <2> HIDE DEF g
  <2>3. /\ HasShape(bk) /\ bk.lflags = g.lflags /\ bk.bytes = g.bytes
        /\ bk.next = g.next /\ bk.list = g.list
    BY <2>2, UnlockedShape
  <2>4. buckets' = [buckets EXCEPT ![b] = bk] /\ PointerShape(NULL)
    BY <1>3 DEF g, PointerShape
  <2> HIDE DEF bk
  <2>5. CallsInv' /\ Others(t) /\ pc'[t] \in {"f_lock", "idle"}
    BY <1>3, <2>4, KmallocReturnsShape DEF ShapeInv
  <2>6. /\ Away(t)' /\ pc'[t] \notin CriticalPCs /\ pc'[t] # "k_split"
        /\ pc[t] \in CriticalPCs \ {"i_link"}
    BY <1>0, <2>5 DEF Away, AwayPCs, CriticalPCs
  <2> QED
    BY <1>0, <2>2, <2>3, <2>4, <2>5, <2>6, CriticalWrite
<1> QED
  BY <1>1, <1>2, <1>3 DEF NewTry

(* Unlocking a new bucket does not touch kernel_heap's lock. *)
LEMMA NewLargestOK ==
  ASSUME ShapeInv, LockInv, NEW t \in Threads, NewLargest(t)
  PROVE  StepOK(t)
<1> DEFINE b  == loc[t].cur
           g  == bucket_update_largest(buckets[b], Wanted(loc[t].req).size)
           bk == Unlocked(g)
<1>0. pc[t] = "n_largest" /\ b \in DOMAIN buckets
  BY DEF NewLargest, Mapped
<1>1. HasShape(buckets[b])
  BY <1>0 DEF ShapeInv, BucketsInv
<1>2. /\ HasShape(g) /\ g.lflags = buckets[b].lflags /\ g.bytes = buckets[b].bytes
      /\ g.next = buckets[b].next /\ g.list = buckets[b].list
  BY <1>1, UpdateLargestShape
<1> HIDE DEF g
<1>3. /\ HasShape(bk) /\ bk.lflags = g.lflags /\ bk.bytes = g.bytes
      /\ bk.next = g.next /\ bk.list = g.list
  BY <1>2, UnlockedShape
<1>4. /\ buckets' = [buckets EXCEPT ![b] = bk]
      /\ Goto(t, "n_first") /\ UNCHANGED <<loc, live>> /\ "n_first" \in PCs
  BY DEF NewLargest, g, PCs
<1> HIDE DEF bk
<1>5. CallsInv' /\ Others(t) /\ pc'[t] = "n_first" /\ loc'[t] = loc[t]
  BY <1>4, GoesShape DEF ShapeInv
<1>6. /\ Away(t)' /\ pc'[t] \notin CriticalPCs /\ pc'[t] # "k_split"
      /\ pc[t] \in CriticalPCs \ {"i_link"}
  BY <1>0, <1>5 DEF LockInv, Away, AwayPCs, CriticalPCs
<1> QED
  BY <1>0, <1>2, <1>3, <1>4, <1>5, <1>6, CriticalWrite

(* Loading ret->next of the block in a new bucket writes nothing. *)
LEMMA NewFirstOK ==
  ASSUME ShapeInv, LockInv, NEW t \in Threads, NewFirst(t)
  PROVE  StepOK(t)
<1> DEFINE x == [loc[t] EXCEPT !.reg = buckets[loc[t].cur].list[loc[t].at].next]
<1>0. pc[t] = "n_first" /\ loc[t].cur # KernelHeap
  BY DEF NewFirst, LockInv, Away, AwayPCs
<1>1. /\ Goto(t, "n_store") /\ live' \subseteq live /\ "n_store" \in PCs
      /\ loc' = [loc EXCEPT ![t] = x] /\ buckets' = buckets
  BY DEF NewFirst, PCs
<1>2. LocalsShape(x) /\ x.cur = loc[t].cur
  BY DEF ShapeInv, CallsInv, LocalsShape
<1> HIDE DEF x
<1>3. CallsInv' /\ Others(t) /\ pc'[t] = "n_store" /\ loc'[t] = x
  BY <1>1, <1>2, MovesShape DEF ShapeInv
<1>4. Away(t)' /\ ~HoldsHeap(t)' /\ pc'[t] # "k_split"
  BY <1>0, <1>2, <1>3 DEF Away, HoldsHeap, Holds, CriticalPCs
<1> QED
  BY <1>1, <1>3, <1>4, NoWriteOK

(* Writing first of a new bucket does not touch kernel_heap. *)
LEMMA NewFirstStoreOK ==
  ASSUME ShapeInv, LockInv, NEW t \in Threads, NewFirstStore(t)
  PROVE  StepOK(t)
<1> DEFINE b  == loc[t].cur
           bk == [buckets[b] EXCEPT !.first = loc[t].reg]
           p  == [b |-> b, at |-> loc[t].at]
<1>0. pc[t] = "n_store" /\ b \in DOMAIN buckets /\ b \in BucketIds /\ b # KernelHeap
  BY DEF NewFirstStore, Mapped, ShapeInv, BucketsInv, LockInv, Away, AwayPCs
<1>1. buckets' = [buckets EXCEPT ![b] = bk] /\ KmallocReturns(t, p)
  BY DEF NewFirstStore
<1>2. HasShape(buckets[b]) /\ buckets[b].next # KernelHeap
  BY <1>0 DEF ShapeInv, BucketsInv
<1>3. HasShape(bk) /\ bk.next # KernelHeap
  BY <1>2, FirstShape
<1>4. PointerShape(p)
  BY <1>0 DEF PointerShape, IsPointer
<1> HIDE DEF bk, p
<1>5. CallsInv' /\ Others(t) /\ pc'[t] \in {"f_lock", "idle"}
  BY <1>1, <1>4, KmallocReturnsShape DEF ShapeInv
<1>6. Away(t)' /\ pc'[t] \notin CriticalPCs
  BY <1>5 DEF Away, AwayPCs, CriticalPCs
<1> QED
  BY <1>0, <1>1, <1>3, <1>5, <1>6, UnlockedWrite

-----------------------------------------------------------------------------
(* One lemma per action: the steps of mfree, remove_bucket and realloc *)

(* mfree marks the pebble free inside its bucket. *)
LEMMA FreeMarkOK ==
  ASSUME ShapeInv, LockInv, NEW t \in Threads, FreeMark(t)
  PROVE  StepOK(t)
<1> DEFINE b  == loc[t].cur
           P  == [buckets[b].list EXCEPT ![loc[t].at].lflags = {}]
           bk == [buckets[b] EXCEPT !.list = P]
<1>0. pc[t] = "f_mark" /\ b \in DOMAIN buckets
  BY DEF FreeMark, AtHand, Mapped
<1>1. HasShape(buckets[b])
  BY <1>0 DEF ShapeInv, BucketsInv
<1>2. /\ buckets' = [buckets EXCEPT ![b] = bk]
      /\ Goto(t, "f_melt") /\ UNCHANGED <<loc, live>> /\ "f_melt" \in PCs
  BY DEF FreeMark, PCs
<1> HIDE DEF P
<1>3. /\ HasShape(bk) /\ bk.lflags = buckets[b].lflags /\ bk.bytes = buckets[b].bytes
      /\ bk.next = buckets[b].next /\ bk.spinlock = buckets[b].spinlock
  BY <1>1, ListShape
<1> HIDE DEF bk
<1>4. CallsInv' /\ Others(t) /\ pc'[t] = "f_melt" /\ loc'[t] = loc[t]
  BY <1>2, GoesShape DEF ShapeInv
<1>5. /\ Away(t)' /\ pc'[t] # "k_split" /\ pc'[t] # "i_link" /\ loc'[t].cur = b
      /\ pc[t] \in CriticalPCs \ {"i_link"} /\ WritesList(t)
  BY <1>0, <1>4 DEF Away, AwayPCs, CriticalPCs, WritesList
<1> QED
  BY <1>0, <1>2, <1>3, <1>4, <1>5, CriticalWrite

(* melt_prev leaves a bucket a bucket, its links, lock and size untouched.
   *)
LEMMA MeltShape ==
  ASSUME NEW bk, HasShape(bk), NEW a
  PROVE  LET r == melt_prev(bk, a)
         IN  /\ HasShape(r)
             /\ r.lflags = bk.lflags /\ r.bytes = bk.bytes /\ r.next = bk.next
             /\ r.spinlock = bk.spinlock
<1>1. melt_prev(bk, a) = bk \/ melt_prev(bk, a) = absorb_next(bk, bk.list[a].prev)
  BY DEF melt_prev
<1> QED
  BY <1>1, AbsorbShape

(* melt_prev is done inside the bucket. *)
LEMMA FreeMeltOK ==
  ASSUME ShapeInv, LockInv, NEW t \in Threads, FreeMelt(t)
  PROVE  StepOK(t)
<1> DEFINE b  == loc[t].cur
           bk == melt_prev(buckets[b], loc[t].at)
           x  == [loc[t] EXCEPT !.at = MeltedInto(buckets[b], @)]
<1>0. pc[t] = "f_melt" /\ b \in DOMAIN buckets
  BY DEF FreeMelt, AtHand, Mapped
<1>1. HasShape(buckets[b])
  BY <1>0 DEF ShapeInv, BucketsInv
<1>2. /\ buckets' = [buckets EXCEPT ![b] = bk]
      /\ Goto(t, "f_absorb") /\ live' \subseteq live /\ "f_absorb" \in PCs
      /\ loc' = [loc EXCEPT ![t] = x]
  BY DEF FreeMelt, PCs
<1>3. /\ HasShape(bk) /\ bk.lflags = buckets[b].lflags /\ bk.bytes = buckets[b].bytes
      /\ bk.next = buckets[b].next /\ bk.spinlock = buckets[b].spinlock
  BY <1>1, MeltShape
<1> HIDE DEF bk
<1>x. LocalsShape(x) /\ x.cur = b
  BY DEF ShapeInv, CallsInv, LocalsShape
<1> HIDE DEF x
<1>4. CallsInv' /\ Others(t) /\ pc'[t] = "f_absorb" /\ loc'[t] = x
  BY <1>2, <1>x, MovesShape DEF ShapeInv
<1>5. /\ Away(t)' /\ pc'[t] # "k_split" /\ pc'[t] # "i_link" /\ loc'[t].cur = b
      /\ pc[t] \in CriticalPCs \ {"i_link"} /\ WritesList(t)
  BY <1>0, <1>x, <1>4 DEF Away, AwayPCs, CriticalPCs, WritesList
<1> QED
  BY <1>0, <1>2, <1>3, <1>4, <1>5, CriticalWrite

(* absorb_next and the unlock leave the bucket unlocked with nobody inside.
   *)
LEMMA FreeAbsorbOK ==
  ASSUME ShapeInv, LockInv, NEW t \in Threads, FreeAbsorb(t)
  PROVE  StepOK(t)
<1> DEFINE b  == loc[t].cur
           g  == absorb_next(buckets[b], loc[t].at)
           bk == Unlocked(g)
<1>0. pc[t] = "f_absorb" /\ b \in DOMAIN buckets
  BY DEF FreeAbsorb, AtHand, Mapped
<1>1. HasShape(buckets[b])
  BY <1>0 DEF ShapeInv, BucketsInv
<1>2. /\ buckets' = [buckets EXCEPT ![b] = bk]
      /\ Goto(t, "f_check") /\ UNCHANGED <<loc, live>> /\ "f_check" \in PCs
  BY DEF FreeAbsorb, PCs
<1>3. /\ HasShape(g) /\ g.lflags = buckets[b].lflags /\ g.bytes = buckets[b].bytes
      /\ g.next = buckets[b].next
  BY <1>1, AbsorbShape
<1> HIDE DEF g
<1>4. /\ HasShape(bk) /\ bk.lflags = g.lflags /\ bk.bytes = g.bytes /\ bk.next = g.next
  BY <1>3, UnlockedShape
<1> HIDE DEF bk
<1>5. CallsInv' /\ Others(t) /\ pc'[t] = "f_check" /\ loc'[t] = loc[t]
  BY <1>2, GoesShape DEF ShapeInv
<1>6. /\ Away(t)' /\ pc'[t] \notin CriticalPCs /\ pc'[t] # "k_split"
      /\ pc[t] \in CriticalPCs \ {"i_link"} /\ WritesList(t)
  BY <1>0, <1>5 DEF Away, AwayPCs, CriticalPCs, WritesList
<1> QED
  BY <1>0, <1>2, <1>3, <1>4, <1>5, <1>6, CriticalWrite

(* A shrink splits inside the bucket and unlocks it. *)
LEMMA ShrinkSplitOK ==
  ASSUME ShapeInv, LockInv, NEW t \in Threads, ShrinkSplit(t)
  PROVE  StepOK(t)
<1> DEFINE b  == loc[t].cur
           P  == SplitPlain(buckets[b].list, loc[t].at, loc[t].req.size)
           g  == [buckets[b] EXCEPT !.list = P]
           bk == Unlocked(g)
           p  == [b |-> b, at |-> loc[t].at]
<1>0. pc[t] = "s_split" /\ b \in DOMAIN buckets /\ b \in BucketIds
  BY DEF ShrinkSplit, AtHand, Mapped, ShapeInv, BucketsInv
<1>1. HasShape(buckets[b])
  BY <1>0 DEF ShapeInv, BucketsInv
<1>2. /\ buckets' = [buckets EXCEPT ![b] = bk]
      /\ Goto(t, "idle") /\ loc' = [loc EXCEPT ![t] = NoLocals] /\ "idle" \in PCs
      /\ live' = live \cup {Handed(t, p)}
  BY DEF ShrinkSplit, shrink_pebble, PCs
<1>p. IsPointer(p)
  BY <1>0 DEF IsPointer
<1> HIDE DEF P
<1>3. /\ HasShape(g) /\ g.lflags = buckets[b].lflags /\ g.bytes = buckets[b].bytes
      /\ g.next = buckets[b].next
  BY <1>1, ListShape
<1> HIDE DEF g
<1>4. /\ HasShape(bk) /\ bk.lflags = g.lflags /\ bk.bytes = g.bytes /\ bk.next = g.next
  BY <1>3, UnlockedShape
<1> HIDE DEF bk, p
<1>5. CallsInv' /\ Others(t) /\ pc'[t] = "idle"
  <2>1. pc' \in [Threads -> PCs] /\ pc'[t] = "idle"
        /\ \A u \in Threads : u # t => pc'[u] = pc[u]
    BY <1>2, GotoShape DEF ShapeInv
  <2>2. /\ loc' = [u \in Threads |-> loc'[u]]
        /\ \A u \in Threads : LocalsShape(loc'[u])
        /\ \A u \in Threads : u # t => loc'[u] = loc[u]
    BY <1>2, NoLocalsShape, LocShape DEF ShapeInv
  <2>3. \A k \in live' : BlockShape(k)
    BY <1>2, <1>p, HandedShape DEF ShapeInv, CallsInv, PointerShape
  <2> QED
    BY <2>1, <2>2, <2>3, CallsPrime DEF Others
<1>6. /\ Away(t)' /\ pc'[t] \notin CriticalPCs /\ pc'[t] # "k_split"
      /\ pc[t] \in CriticalPCs \ {"i_link"} /\ WritesList(t)
  BY <1>0, <1>5 DEF Away, AwayPCs, CriticalPCs, WritesList
<1> QED
  BY <1>0, <1>2, <1>3, <1>4, <1>5, <1>6, CriticalWrite

(* mfree's look at the bucket's flags writes nothing, and kernel_heap is never
   looked at further. *)
LEMMA FreeCheckOK ==
  ASSUME ShapeInv, LockInv, NEW t \in Threads, FreeCheck(t)
  PROVE  StepOK(t)
<1> DEFINE b == loc[t].cur
<1>1. CASE MfreeReturns(t) /\ buckets' = buckets
  <2>1. CallsInv' /\ Others(t) /\ pc'[t] = "idle"
    BY <1>1, MfreeReturnsShape DEF ShapeInv
  <2>2. Away(t)' /\ ~HoldsHeap(t)' /\ pc'[t] # "k_split"
    BY <2>1 DEF Away, AwayPCs, HoldsHeap, Holds, CriticalPCs
  <2> QED
    BY <1>1, <2>1, <2>2, NoWriteOK
<1>2. CASE /\ "PERSISTENT" \notin buckets[b].lflags
           /\ Goto(t, "f_first") /\ UNCHANGED <<buckets, loc, live>>
  <2>1. b # KernelHeap
    BY <1>2 DEF LockInv
  <2>2. CallsInv' /\ Others(t) /\ pc'[t] = "f_first" /\ loc'[t] = loc[t]
    BY <1>2, GoesShape DEF ShapeInv, PCs
  <2>3. Away(t)' /\ ~HoldsHeap(t)' /\ pc'[t] # "k_split"
    BY <2>1, <2>2 DEF Away, HoldsHeap, Holds, CriticalPCs
  <2> QED
    BY <1>2, <2>2, <2>3, NoWriteOK
<1> QED
  BY <1>1, <1>2 DEF FreeCheck

(* A step that writes nothing, moves the walk to another pebble of the bucket at
   hand or leaves it where it is, and stays away from kernel_heap. *)
LEMMA LooksOK ==
  ASSUME ShapeInv, LockInv, NEW t \in Threads, NEW l \in PCs, Goto(t, l),
         pc[t] \in AwayPCs, l \notin CriticalPCs,
         NEW a, loc' = loc \/ loc' = [loc EXCEPT ![t].at = a],
         UNCHANGED <<buckets, live>>
  PROVE  StepOK(t) /\ CallsInv' /\ Others(t) /\ pc'[t] = l
<1> DEFINE x == IF loc' = loc THEN loc[t] ELSE [loc[t] EXCEPT !.at = a]
<1>1. LocalsShape(x) /\ x.cur = loc[t].cur
  BY DEF ShapeInv, CallsInv, LocalsShape
<1>2. loc' = [loc EXCEPT ![t] = x]
  BY DEF ShapeInv, CallsInv
<1> HIDE DEF x
<1>3. CallsInv' /\ Others(t) /\ pc'[t] = l /\ loc'[t] = x
  BY <1>1, <1>2, MovesShape DEF ShapeInv
<1>4. Away(t)' /\ ~HoldsHeap(t)' /\ pc'[t] # "k_split"
  BY <1>1, <1>3 DEF LockInv, Away, HoldsHeap, Holds, CriticalPCs
<1> QED
  BY <1>3, <1>4, NoWriteOK

(* mfree loading bucket->first. *)
LEMMA LoadFirstOK ==
  ASSUME ShapeInv, LockInv, NEW t \in Threads, LoadFirst(t)
  PROVE  StepOK(t)
<1> DEFINE l == CASE pc[t] = "f_first" -> "f_free"
                  [] pc[t] = "f_again" -> "f_prev"
                  [] pc[t] = "f_last"  -> "f_next"
<1>1. Goto(t, l) /\ UNCHANGED <<buckets, live>> /\ pc[t] \in LoadPCs
  BY DEF LoadFirst
<1>2. l \in PCs /\ l \notin CriticalPCs /\ pc[t] \in AwayPCs
  BY <1>1 DEF LoadPCs, PCs, CriticalPCs, AwayPCs
<1>3. loc' = loc \/ loc' = [loc EXCEPT ![t].at = buckets[loc[t].cur].first]
  BY DEF LoadFirst
<1> HIDE DEF l
<1> QED
  BY <1>1, <1>2, <1>3, LooksOK

(* mfree looking at a field of the pebble it found at bucket->first. *)
LEMMA TestFirstOK ==
  ASSUME ShapeInv, LockInv, NEW t \in Threads, TestFirst(t)
  PROVE  StepOK(t)
<1>1. UNCHANGED <<buckets, live>> /\ pc[t] \in AwayPCs /\ pc[t] \in TestPCs
  BY DEF TestFirst, TestPCs, AwayPCs
<1>2. CASE UNCHANGED loc /\ Goto(t, CASE pc[t] = "f_free" -> "f_again"
                                      [] pc[t] = "f_prev" -> "f_last"
                                      [] pc[t] = "f_next" -> "r_prev")
  <2> DEFINE l == CASE pc[t] = "f_free" -> "f_again"
                    [] pc[t] = "f_prev" -> "f_last"
                    [] pc[t] = "f_next" -> "r_prev"
  <2>1. l \in PCs /\ l \notin CriticalPCs
    BY <1>1 DEF TestPCs, PCs, CriticalPCs
  <2>2. Goto(t, l) /\ loc' = loc
    BY <1>2
  <2> HIDE DEF l
  <2> QED
    BY <1>1, <2>1, <2>2, LooksOK
<1>3. CASE Goto(t, "u_walk") /\ loc' = [loc EXCEPT ![t].at = FirstPebble]
  <2>1. "u_walk" \in PCs /\ "u_walk" \notin CriticalPCs
    BY DEF PCs, CriticalPCs
  <2> QED
    BY <1>1, <1>3, <2>1, LooksOK
<1> QED
  BY <1>2, <1>3 DEF TestFirst

(* mfree's walk for largest writes no bucket but the one at hand, which is not
   kernel_heap. *)
LEMMA WalkLargestOK ==
  ASSUME ShapeInv, LockInv, NEW t \in Threads, WalkLargest(t)
  PROVE  StepOK(t)
<1> DEFINE b  == loc[t].cur
           bk == bucket_update_largest(buckets[b], buckets[b].list[loc[t].at].size)
<1>0. pc[t] = "u_walk" /\ b \in DOMAIN buckets /\ b # KernelHeap
  BY DEF WalkLargest, Mapped, LockInv, Away, AwayPCs
<1>1. CallsInv' /\ Others(t) /\ Away(t)' /\ pc'[t] \notin CriticalPCs
  <2>1. PICK n : IF n = NULL THEN MfreeReturns(t)
                 ELSE loc' = [loc EXCEPT ![t].at = n] /\ UNCHANGED <<pc, live>>
    BY DEF WalkLargest
  <2>2. CASE MfreeReturns(t)
    <3>1. CallsInv' /\ Others(t) /\ pc'[t] = "idle"
      BY <2>2, MfreeReturnsShape DEF ShapeInv
    <3> QED
      BY <3>1 DEF Away, AwayPCs, CriticalPCs
  <2>3. CASE loc' = [loc EXCEPT ![t].at = n] /\ UNCHANGED <<pc, live>>
    <3> DEFINE x == [loc[t] EXCEPT !.at = n]
    <3>1. LocalsShape(x) /\ x.cur = b
      BY DEF ShapeInv, CallsInv, LocalsShape
    <3>2. loc' = [loc EXCEPT ![t] = x] /\ live' \subseteq live
      BY <2>3
    <3>3. Goto(t, "u_walk") /\ "u_walk" \in PCs
      BY <1>0, <2>3 DEF Goto, ShapeInv, CallsInv, PCs
    <3> HIDE DEF x
    <3>4. CallsInv' /\ Others(t) /\ pc'[t] = "u_walk" /\ loc'[t] = x
      BY <3>1, <3>2, <3>3, MovesShape DEF ShapeInv
    <3> QED
      BY <1>0, <3>1, <3>4 DEF Away, CriticalPCs
  <2> QED
    BY <2>1, <2>2, <2>3
<1>2. CASE buckets' = buckets
  <2>1. ~HoldsHeap(t)' /\ pc'[t] # "k_split"
    BY <1>1 DEF HoldsHeap, Holds, CriticalPCs
  <2> QED
    BY <1>1, <1>2, <2>1, NoWriteOK
<1>3. CASE buckets' = [buckets EXCEPT ![b] = bk]
  <2>1. HasShape(buckets[b]) /\ buckets[b].next # KernelHeap
    BY <1>0 DEF ShapeInv, BucketsInv
  <2>2. HasShape(bk) /\ bk.next # KernelHeap
    BY <2>1, UpdateLargestShape
  <2> HIDE DEF bk
  <2> QED
    BY <1>0, <1>1, <1>3, <2>2, UnlockedWrite
<1> QED
  BY <1>2, <1>3 DEF WalkLargest

(* remove_bucket's write to the bucket before changes only its next. *)
LEMMA RemovePrevOK ==
  ASSUME ShapeInv, LockInv, NEW t \in Threads, RemovePrev(t)
  PROVE  StepOK(t)
<1> DEFINE b  == loc[t].cur
           p  == buckets[b].prev
           bk == [buckets[p] EXCEPT !.next = buckets[b].next]
<1>0. pc[t] = "r_prev" /\ b \in DOMAIN buckets /\ (p # NULL => p \in DOMAIN buckets)
  BY DEF RemovePrev, Mapped
<1>1. Goto(t, "r_next") /\ UNCHANGED <<loc, live>> /\ "r_next" \in PCs
  BY DEF RemovePrev, PCs
<1>2. CallsInv' /\ Others(t) /\ pc'[t] = "r_next" /\ loc'[t] = loc[t]
  BY <1>1, GoesShape DEF ShapeInv
<1>3. /\ Away(t)' /\ ~HoldsHeap(t)' /\ pc'[t] # "k_split"
  BY <1>0, <1>2 DEF LockInv, Away, AwayPCs, HoldsHeap, Holds, CriticalPCs
<1>4. CASE p = NULL
  <2>1. buckets' = buckets
    BY <1>4 DEF RemovePrev
  <2> QED
    BY <2>1, <1>2, <1>3, NoWriteOK
<1>5. CASE p # NULL
  <2>1. buckets' = [buckets EXCEPT ![p] = bk]
    BY <1>5 DEF RemovePrev
  <2>2. p \in DOMAIN buckets /\ KernelHeap \in DOMAIN buckets
    BY <1>0, <1>5 DEF LockInv
  <2>3. /\ HasShape(buckets[p]) /\ buckets[b].next # KernelHeap
        /\ buckets[b].next \in BucketIds \cup {NULL}
    BY <1>0, <2>2 DEF ShapeInv, BucketsInv, HasShape
  <2>4. /\ HasShape(bk) /\ bk.next # KernelHeap
        /\ bk.lflags = buckets[p].lflags /\ bk.bytes = buckets[p].bytes
        /\ bk.list = buckets[p].list /\ bk.spinlock = buckets[p].spinlock
    BY <2>3 DEF HasShape
  <2> HIDE DEF bk, p
  <2>5. /\ BucketsInv' /\ DOMAIN buckets' = DOMAIN buckets /\ buckets'[p] = bk
        /\ \A x \in DOMAIN buckets : x # p => buckets'[x] = buckets[x]
    BY <2>1, <2>2, <2>4, OneBucket DEF ShapeInv
  <2> QED
    BY <1>2, <1>3, <2>2, <2>4, <2>5, ElsewhereOK
<1> QED
  BY <1>4, <1>5

(* remove_bucket's write to the bucket behind changes only its prev. *)
LEMMA RemoveNextOK ==
  ASSUME ShapeInv, LockInv, NEW t \in Threads, RemoveNext(t)
  PROVE  StepOK(t)
<1> DEFINE b  == loc[t].cur
           n  == buckets[b].next
           bk == [buckets[n] EXCEPT !.prev = buckets[b].prev]
<1>0. pc[t] = "r_next" /\ b \in DOMAIN buckets /\ (n # NULL => n \in DOMAIN buckets)
  BY DEF RemoveNext, Mapped
<1>1. Goto(t, "r_unmap") /\ UNCHANGED <<loc, live>> /\ "r_unmap" \in PCs
  BY DEF RemoveNext, PCs
<1>2. CallsInv' /\ Others(t) /\ pc'[t] = "r_unmap" /\ loc'[t] = loc[t]
  BY <1>1, GoesShape DEF ShapeInv
<1>3. /\ Away(t)' /\ pc'[t] \notin CriticalPCs /\ ~HoldsHeap(t)' /\ pc'[t] # "k_split"
  BY <1>0, <1>2 DEF LockInv, Away, AwayPCs, HoldsHeap, Holds, CriticalPCs
<1>4. CASE n = NULL
  <2>1. buckets' = buckets
    BY <1>4 DEF RemoveNext
  <2> QED
    BY <2>1, <1>2, <1>3, NoWriteOK
<1>5. CASE n # NULL
  <2>1. buckets' = [buckets EXCEPT ![n] = bk]
    BY <1>5 DEF RemoveNext
  <2>2. n \in DOMAIN buckets /\ n # KernelHeap
    BY <1>0, <1>5 DEF ShapeInv, BucketsInv
  <2>3. /\ HasShape(buckets[n]) /\ buckets[n].next # KernelHeap
        /\ buckets[b].prev \in BucketIds \cup {NULL}
    BY <1>0, <2>2 DEF ShapeInv, BucketsInv, HasShape
  <2>4. HasShape(bk) /\ bk.next # KernelHeap
    BY <2>3 DEF HasShape
  <2> HIDE DEF bk, n
  <2> QED
    BY <1>2, <1>3, <2>1, <2>2, <2>4, UnlockedWrite
<1> QED
  BY <1>4, <1>5

(* The bucket that is unmapped is never kernel_heap. *)
LEMMA RemoveUnmapOK ==
  ASSUME ShapeInv, LockInv, NEW t \in Threads, RemoveUnmap(t)
  PROVE  StepOK(t)
<1> DEFINE b == loc[t].cur
<1>0. b # KernelHeap /\ KernelHeap \in DOMAIN buckets
  BY DEF RemoveUnmap, LockInv, Away, AwayPCs
<1>1. buckets' = [x \in DOMAIN buckets \ {b} |-> buckets[x]] /\ MfreeReturns(t)
  BY DEF RemoveUnmap
<1>2. CallsInv' /\ Others(t) /\ pc'[t] = "idle"
  BY <1>1, MfreeReturnsShape DEF ShapeInv
<1>3. Away(t)' /\ ~HoldsHeap(t)' /\ pc'[t] # "k_split"
  BY <1>2 DEF Away, AwayPCs, HoldsHeap, Holds, CriticalPCs
<1>4. /\ DOMAIN buckets' = DOMAIN buckets \ {b}
      /\ \A x \in DOMAIN buckets' : buckets'[x] = buckets[x]
      /\ buckets' = [x \in DOMAIN buckets' |-> buckets'[x]]
  BY <1>1
<1>5. BucketsInv'
  <2>1. ASSUME NEW x \in DOMAIN buckets'
        PROVE  HasShape(buckets'[x]) /\ buckets'[x].next # KernelHeap
    BY <1>4 DEF ShapeInv, BucketsInv
  <2> QED
    BY <1>4, <2>1 DEF ShapeInv, BucketsInv, HasShape
<1> QED
  BY <1>0, <1>2, <1>3, <1>4, <1>5, ElsewhereOK

(* A thread that touches an unmapped bucket faults and changes nothing. *)
LEMMA WildOK ==
  ASSUME ShapeInv, LockInv, NEW t \in Threads, Wild(t)
  PROVE  StepOK(t)
<1>1. buckets' = buckets /\ Goto(t, "fault") /\ UNCHANGED <<loc, live>> /\ "fault" \in PCs
  BY DEF Wild, PCs
<1>2. CallsInv' /\ Others(t) /\ pc'[t] = "fault"
  BY <1>1, GoesShape DEF ShapeInv
<1>3. Away(t)' /\ ~HoldsHeap(t)' /\ pc'[t] # "k_split"
  BY <1>2 DEF Away, AwayPCs, HoldsHeap, Holds, CriticalPCs
<1> QED
  BY <1>1, <1>2, <1>3, NoWriteOK

(* Every step of every thread is fine. *)
LEMMA StepsOK ==
  ASSUME ShapeInv, LockInv, NEW t \in Threads, Step(t) \/ Call(t)
  PROVE  StepOK(t)
  BY SpinLockOK, WalkTryOK, SplitPebbleOK, WalkFirstOK, WalkNextOK, CreateBucketOK,
     InsertLinkOK, NewTryOK, NewLargestOK, NewFirstOK, NewFirstStoreOK, FreeMarkOK,
     FreeMeltOK, FreeAbsorbOK, FreeCheckOK, LoadFirstOK, TestFirstOK, WalkLargestOK, RemovePrevOK, RemoveNextOK, RemoveUnmapOK, ShrinkSplitOK, WildOK,
     KmallocOK, MfreeOK, ReallocShrinkOK, ReallocGrowOK
     DEF Step, Call

-----------------------------------------------------------------------------
(* Mutual exclusion *)

(* What the heap is after malloc_init. *)
LEMMA InitHeap ==
  ASSUME Init
  PROVE  /\ DOMAIN buckets = {KernelHeap}
         /\ buckets[KernelHeap] = create_bucket(HeapBytes, {"VIRTUAL", "PERSISTENT"}, FALSE)
  BY DEF Init

(* The invariants hold after malloc_init. *)
LEMMA InitInv ==
  ASSUME Init
  PROVE  ShapeInv /\ LockInv
<1> DEFINE new == create_bucket(HeapBytes, {"VIRTUAL", "PERSISTENT"}, FALSE)
<1>1. {"VIRTUAL", "PERSISTENT"} \in SUBSET MallocFlags /\ HeapBytes \in Nat
  BY HeapAssumptions DEF MallocFlags, SizeAssumption
<1>2. HasShape(new) /\ new.next = NULL
  BY <1>1, BucketBytesRange, CreateShape
<1>3. new.lflags = {"VIRTUAL", "PERSISTENT"}
  BY DEF create_bucket
<1> HIDE DEF new
<1>4. /\ DOMAIN buckets = {KernelHeap} /\ buckets[KernelHeap] = new
      /\ buckets = [b \in DOMAIN buckets |-> buckets[b]]
  BY DEF Init, new
<1>5. BucketsInv
  BY <1>2, <1>4, NullId DEF BucketsInv
<1>6. pc = [t \in Threads |-> "idle"] /\ loc = [t \in Threads |-> NoLocals] /\ live = {}
  BY DEF Init
<1>7. CallsInv
  BY <1>6, NoLocalsShape DEF CallsInv, PCs
<1>8. LockInv
  BY <1>3, <1>4, <1>6 DEF LockInv, Away, AwayPCs, HoldsHeap, Holds, CriticalPCs
<1> QED
  BY <1>5, <1>7, <1>8 DEF ShapeInv

(* A step that is fine keeps the lock's discipline. *)
LEMMA LockKept ==
  ASSUME ShapeInv, LockInv, NEW t \in Threads, StepOK(t)
  PROVE  LockInv'
<1>1. \A u \in Threads : u # t => (HoldsHeap(u)' <=> HoldsHeap(u)) /\ (Away(u)' <=> Away(u))
  BY DEF StepOK, Others, HoldsHeap, Holds, LockOf, Away
<1>2. \A u \in Threads : Away(u)'
  BY <1>1 DEF StepOK, LockInv
<1> DEFINE old == buckets[KernelHeap].spinlock
           new == buckets'[KernelHeap].spinlock
<1>3. \A u \in Threads : HoldsHeap(u) => old = 1 /\ \A w \in Threads : HoldsHeap(w) => w = u
  BY DEF LockInv
<1>4. \/ new = old /\ (HoldsHeap(t)' => HoldsHeap(t))
      \/ old = 0 /\ new = 1
      \/ HoldsHeap(t) /\ ~HoldsHeap(t)'
  BY DEF StepOK
<1> HIDE DEF old, new
<1>5. \A u \in Threads :
        HoldsHeap(u)' => new = 1 /\ \A w \in Threads : HoldsHeap(w)' => w = u
  BY <1>1, <1>3, <1>4
<1> QED
  BY <1>2, <1>5 DEF StepOK, LockInv, new

(* kernel_heap is always mapped and persistent, and the spinlock in its bucket
   lets one thread at a time into its critical sections (spin_lock, malloc.cpp). *)
THEOREM LockInvariant == Spec => [](ShapeInv /\ LockInv)
<1>1. Init => ShapeInv /\ LockInv
  BY InitInv
<1>2. ShapeInv /\ LockInv /\ [Next]_vars => (ShapeInv /\ LockInv)'
  <2> SUFFICES ASSUME ShapeInv, LockInv, [Next]_vars PROVE (ShapeInv /\ LockInv)'
    OBVIOUS
  <2>1. CASE Next
    <3>1. PICK t \in Threads : Step(t) \/ Call(t)
      BY <2>1 DEF Next
    <3>2. StepOK(t)
      BY <3>1, StepsOK
    <3> QED
      BY <3>2, LockKept DEF StepOK
  <2>2. CASE UNCHANGED vars
    BY <2>2 DEF vars, ShapeInv, BucketsInv, CallsInv, HasShape, LocalsShape, PointerShape,
       IsPointer, BlockShape, LockInv, Away, HoldsHeap, Holds, LockOf
  <2> QED
    BY <2>1, <2>2
<1> QED
  BY <1>1, <1>2, PTL DEF Spec

(* For any number of threads, buckets and sizes, two threads are never in
   critical sections of kernel_heap at once (spin_lock and spin_unlock of
   kernel_heap->spinlock, malloc.cpp). *)
THEOREM HeapMutex == Spec => []HeapMutualExclusion
<1>1. LockInv => HeapMutualExclusion
  BY DEF LockInv, HeapMutualExclusion, HoldsHeap
<1> QED
  BY <1>1, LockInvariant, PTL

-----------------------------------------------------------------------------
(* The list of kernel_heap *)

(* place_pebble's choice is still there, and large enough, when it is split. *)
Chosen(t) ==
  LET P == buckets[KernelHeap].list
  IN  pc[t] = "k_split" /\ loc[t].cur = KernelHeap =>
        loc[t].at \in DOMAIN P /\ P[loc[t].at].size >= NeededSize(Wanted(loc[t].req))

HeapSound == Sound(buckets[KernelHeap].list, buckets[KernelHeap].bytes)

HeapInv == HeapSound /\ \A t \in Threads : Chosen(t)

(* kmalloc always asks for a multiple of 64 bytes with an alignment it
   knows. *)
LEMMA WantedShape ==
  ASSUME NEW req \in RequestShape
  PROVE  LET w == Wanted(req)
         IN  /\ w.size \in Nat /\ w.size % 64 = 0
             /\ w.lflags \in SUBSET PebbleFlags
             /\ w.alignment \in WantedAlignments
<1> DEFINE n == AtLeast(req.size, PEBBLE_MIN_SIZE)
           w == Wanted(req)
<1>1. req.size \in Nat /\ req.alignment \in {0, 1, 2, 4, 8, 16, 32} \cup WantedAlignments
  BY DEF RequestShape
<1>2. n \in Nat
  BY <1>1 DEF AtLeast, PEBBLE_MIN_SIZE
<1>3. w.alignment \in WantedAlignments
  BY <1>1 DEF Wanted, AtLeast, PEBBLE_MIN_ALIGN, WantedAlignments
<1>4. w.lflags \in SUBSET PebbleFlags
  BY DEF Wanted, PebbleFlags
<1>5. w.size = RoundUp(n, 4096) \/ w.size = RoundUp(n, 64)
  BY DEF Wanted, PAGE_SIZE, PEBBLE_MIN_ALIGN
<1> HIDE DEF n
<1>6. /\ RoundUp(n, 4096) \in Nat /\ RoundUp(n, 4096) % 64 = 0
      /\ RoundUp(n, 64) \in Nat /\ RoundUp(n, 64) % 64 = 0
  BY <1>2 DEF RoundUp, RoundDown
<1> HIDE DEF w
<1>7. w.size \in Nat /\ w.size % 64 = 0
  BY <1>5, <1>6
<1> QED
  BY <1>3, <1>4, <1>7 DEF w

(* A set of numbers that is not empty has a smallest. *)
LEMMA SmallestIn ==
  ASSUME NEW S \in SUBSET Nat, S # {}
  PROVE  Smallest(S) \in S
<1> DEFINE R == OpToRel(<, Nat)
<1>1. IsWellFoundedOn(R, Nat)
  BY NatLessThanWellFounded
<1>2. \A x, y \in Nat : y < x => <<y, x>> \in R
  BY DEF OpToRel
<1> HIDE DEF R
<1>3. PICK x \in S : \A y \in S : <<y, x>> \notin R
  BY <1>1, WFMin
<1>4. ASSUME NEW y \in S PROVE x <= y
  <2>1. x \in Nat /\ y \in Nat /\ ~ (y < x)
    BY <1>2, <1>3
  <2> QED
    BY <2>1
<1> QED
  BY <1>4 DEF Smallest

(* First fit finds a pebble that fits, whenever there is one. *)
LEMMA FirstFoundFits ==
  ASSUME NEW bk, DOMAIN bk.list \subseteq Nat, NEW src, Fitting(bk, src) # {}
  PROVE  FirstFound(bk, src) \in Fitting(bk, src)
<1> DEFINE ahead == {a \in Fitting(bk, src) : bk.first # NULL /\ a >= bk.first}
           S     == IF ahead # {} THEN ahead ELSE Fitting(bk, src)
<1>1. S # {} /\ S \subseteq Fitting(bk, src)
  OBVIOUS
<1>2. S \in SUBSET Nat
  BY <1>1 DEF Fitting, FreeAt
<1>3. FirstFound(bk, src) = Smallest(S)
  BY DEF FirstFound
<1> HIDE DEF S
<1> QED
  BY <1>1, <1>2, <1>3, SmallestIn

(* absorb_next keeps a list sound. *)
LEMMA AbsorbSound ==
  ASSUME NEW bk, HasShape(bk), Sound(bk.list, bk.bytes), NEW a \in DOMAIN bk.list
  PROVE  Sound(absorb_next(bk, a).list, bk.bytes)
<1>1. bk.bytes \in Nat
  BY DEF HasShape
<1>2. /\ absorb_next(bk, a).list \in {bk.list, SwallowNext(bk.list, a)}
      /\ absorb_next(bk, a).list # bk.list => bk.list[a].next # NULL
  BY AbsorbShape
<1>3. bk.list[a].next # NULL => Sound(SwallowNext(bk.list, a), bk.bytes)
  BY <1>1, SwallowSound
<1> QED
  BY <1>2, <1>3

(* melt_prev keeps a list sound. *)
LEMMA MeltSound ==
  ASSUME NEW bk, HasShape(bk), Sound(bk.list, bk.bytes), NEW a \in DOMAIN bk.list
  PROVE  Sound(melt_prev(bk, a).list, bk.bytes)
<1>1. bk.list[a].prev # NULL => bk.list[a].prev \in DOMAIN bk.list
  BY DEF Sound, ListWellFormed, LinksAgree
<1>2. CASE bk.list[a].prev = NULL
  BY <1>2 DEF melt_prev
<1>3. CASE bk.list[a].prev # NULL
  <2>1. melt_prev(bk, a) = absorb_next(bk, bk.list[a].prev)
    BY <1>3 DEF melt_prev
  <2> QED
    BY <1>1, <1>3, <2>1, AbsorbSound
<1> QED
  BY <1>2, <1>3

(* The list of a new kernel_heap is sound. *)
LEMMA InitSound ==
  ASSUME Init
  PROVE  HeapInv
<1> DEFINE new   == create_bucket(HeapBytes, {"VIRTUAL", "PERSISTENT"}, FALSE)
           bytes == BucketBytes(HeapBytes, {"VIRTUAL", "PERSISTENT"})
           peb   == [lflags |-> {}, size |-> bytes - BUCKET_SZ - PEBBLE_SZ,
                     prev |-> NULL, next |-> NULL]
           P     == [a \in {FirstPebble} |-> peb]
<1>0. HeapBytes \in Nat
  BY HeapAssumptions DEF SizeAssumption
<1>1. bytes \in Nat /\ bytes >= 65728 /\ bytes % 4096 = 0
  BY <1>0, BucketBytesRange DEF ALLOC_MIN, BUCKET_SZ, PEBBLE_SZ, PAGE_SIZE
<1>2. {"VIRTUAL", "PERSISTENT"} \cap {"ALIGNED"} = {}
  OBVIOUS
<1>3. new.list = P /\ new.bytes = bytes
  BY <1>2 DEF create_bucket
<1> HIDE DEF bytes, new
<1>4. /\ peb.size \in Nat /\ peb.size % 64 = 0 /\ peb.next = NULL /\ peb.prev = NULL
      /\ FirstPebble + PEBBLE_SZ + peb.size = bytes
  BY <1>1 DEF BUCKET_SZ, PEBBLE_SZ, FirstPebble
<1>5. peb \in Pebble
  BY <1>4 DEF Pebble
<1> HIDE DEF peb
<1>6. DOMAIN P = {FirstPebble} /\ P[FirstPebble] = peb /\ FirstPebble = 64
  BY DEF FirstPebble, BUCKET_SZ
<1>7. IsList(P) /\ OnGrid(P)
  BY <1>4, <1>5, <1>6 DEF IsList, OnGrid, PEBBLE_MIN_ALIGN
<1>8. ListWellFormed(P, bytes)
  BY <1>1, <1>4, <1>6 DEF ListWellFormed, LinksAgree, InOrder, Inside, EndOf
<1>9. buckets[KernelHeap] = new /\ pc = [t \in Threads |-> "idle"]
  BY InitHeap DEF Init, new
<1> QED
  BY <1>3, <1>7, <1>8, <1>9 DEF HeapInv, HeapSound, Sound, Chosen

(* Every step that writes to kernel_heap's list leaves it sound. *)
LEMMA WriteSound ==
  ASSUME ShapeInv, LockInv, HeapInv, NEW t \in Threads, WritesList(t), loc[t].cur = KernelHeap
  PROVE  Sound(buckets'[KernelHeap].list, buckets[KernelHeap].bytes)
<1> DEFINE h == buckets[KernelHeap]
           a == loc[t].at
<1>0. /\ KernelHeap \in DOMAIN buckets /\ HasShape(h)
      /\ h.bytes \in Nat /\ Sound(h.list, h.bytes)
      /\ loc[t].req \in RequestShape
  BY CurShape DEF LockInv, ShapeInv, BucketsInv, HeapInv, HeapSound, HasShape
<1>1. CASE SplitPebble(t)
  <2> DEFINE w == Wanted(loc[t].req)
             s == split_pebble(h.list, a, w)
             Q == [s.list EXCEPT ![s.at].lflags = w.lflags]
  <2>1. pc[t] = "k_split"
    <3>1. pc[t] # "n_split"
      BY DEF LockInv, Away, AwayPCs
    <3> QED
      BY <1>1, <3>1 DEF SplitPebble
  <2>2. a \in DOMAIN h.list /\ h.list[a].size >= NeededSize(w)
    BY <2>1 DEF HeapInv, Chosen
  <2>3. /\ w.size \in Nat /\ w.size % 64 = 0 /\ w.lflags \in SUBSET PebbleFlags
        /\ w.alignment \in WantedAlignments
    BY <1>0, WantedShape
  <2>4. buckets' = [buckets EXCEPT ![KernelHeap].list = Q]
    BY <1>1 DEF SplitPebble
  <2> HIDE DEF w
  <2>5. Sound(s.list, h.bytes) /\ s.at \in DOMAIN s.list
    BY <1>0, <2>2, <2>3, SplitPebbleSound
  <2> HIDE DEF s
  <2>6. Sound(Q, h.bytes)
    BY <1>0, <2>3, <2>5, FlagsSound
  <2> HIDE DEF Q
  <2>7. buckets'[KernelHeap].list = Q
    BY <1>0, <2>4 DEF HasShape
  <2> QED
    BY <2>6, <2>7
<1>2. CASE FreeMark(t)
  <2> DEFINE Q == [h.list EXCEPT ![a].lflags = {}]
  <2>1. a \in DOMAIN h.list /\ buckets' = [buckets EXCEPT ![KernelHeap].list = Q]
    BY <1>2 DEF FreeMark, AtHand
  <2>2. Sound(Q, h.bytes)
    BY <1>0, <2>1, FlagsSound
  <2> HIDE DEF Q
  <2>3. buckets'[KernelHeap].list = Q
    BY <1>0, <2>1 DEF HasShape
  <2> QED
    BY <2>2, <2>3
<1>3. CASE FreeMelt(t)
  <2>1. /\ a \in DOMAIN h.list
        /\ buckets' = [buckets EXCEPT ![KernelHeap] = melt_prev(h, a)]
    BY <1>3 DEF FreeMelt, AtHand
  <2>2. buckets'[KernelHeap] = melt_prev(h, a)
    BY <1>0, <2>1
  <2> QED
    BY <1>0, <2>1, <2>2, MeltSound
<1>4. CASE FreeAbsorb(t)
  <2> DEFINE g == absorb_next(h, a)
  <2>1. /\ a \in DOMAIN h.list
        /\ buckets' = [buckets EXCEPT ![KernelHeap] = Unlocked(g)]
    BY <1>4 DEF FreeAbsorb, AtHand
  <2>2. HasShape(g)
    BY <1>0, AbsorbShape
  <2>3. Sound(g.list, h.bytes)
    BY <1>0, <2>1, AbsorbSound
  <2> HIDE DEF g
  <2>4. buckets'[KernelHeap].list = g.list
    BY <1>0, <2>1, <2>2, UnlockedShape
  <2> QED
    BY <2>3, <2>4
<1>5. CASE ShrinkSplit(t)
  <2> DEFINE Q == SplitPlain(h.list, a, loc[t].req.size)
             g == [h EXCEPT !.list = Q]
  <2>1. /\ a \in DOMAIN h.list
        /\ buckets' = [buckets EXCEPT ![KernelHeap] = Unlocked(g)]
    BY <1>5 DEF ShrinkSplit, AtHand, shrink_pebble
  <2>2. loc[t].req.size \in Nat
    BY <1>0 DEF RequestShape
  <2>3. Sound(Q, h.bytes)
    BY <1>0, <2>1, <2>2, SplitPlainSound
  <2> HIDE DEF Q
  <2>4. HasShape(g) /\ g.list = Q
    BY <1>0, ListShape
  <2> HIDE DEF g
  <2>5. buckets'[KernelHeap].list = g.list
    BY <1>0, <2>1, <2>4, UnlockedShape
  <2> QED
    BY <2>3, <2>4, <2>5
<1> QED
  BY <1>1, <1>2, <1>3, <1>4, <1>5 DEF WritesList

(* The pebble a thread takes into kernel_heap is one of its list and large
   enough. *)
LEMMA ChoiceMade ==
  ASSUME ShapeInv, LockInv, HeapInv, NEW t \in Threads, WalkTry(t), pc'[t] = "k_split"
  PROVE  Chosen(t)'
<1> DEFINE bk == buckets[loc[t].cur]
           w  == Wanted(loc[t].req)
           f  == FirstFound(bk, w)
<1>1. Found(t, "k_split")
  <2>1. pc \in [Threads -> PCs]
    BY DEF ShapeInv, CallsInv
  <2>2. ~(Goto(t, "hang") \/ Goto(t, "k_next"))
    BY <2>1 DEF Goto
  <2> QED
    BY <2>2 DEF WalkTry, FoundNever
<1>2. buckets' = buckets /\ loc' = [loc EXCEPT ![t].at = f] /\ Fitting(bk, w) # {}
  BY <1>1 DEF Found
<1> SUFFICES ASSUME loc'[t].cur = KernelHeap
             PROVE  LET P == buckets[KernelHeap].list
                    IN  /\ loc'[t].at \in DOMAIN P
                        /\ P[loc'[t].at].size >= NeededSize(Wanted(loc'[t].req))
  BY <1>2 DEF Chosen
<1>3. loc'[t].at = f /\ loc'[t].req = loc[t].req /\ loc[t].cur = KernelHeap
  BY <1>2 DEF ShapeInv, CallsInv, LocalsShape
<1>4. DOMAIN bk.list \subseteq Nat
  BY <1>3 DEF HeapInv, HeapSound, Sound, IsList
<1>5. f \in Fitting(bk, w)
  BY <1>2, <1>4, FirstFoundFits
<1> QED
  BY <1>3, <1>5 DEF Fitting, FreeAt

(* Every step keeps kernel_heap's list sound and the choices made in it
   good. *)
LEMMA HeapKept ==
  ASSUME ShapeInv, LockInv, HeapInv, NEW t \in Threads, StepOK(t)
  PROVE  HeapInv'
<1>1. buckets'[KernelHeap].bytes = buckets[KernelHeap].bytes
  BY DEF StepOK
<1>2. HeapSound'
  <2>1. CASE buckets'[KernelHeap].list = buckets[KernelHeap].list
    BY <1>1, <2>1 DEF HeapInv, HeapSound
  <2>2. CASE loc[t].cur = KernelHeap /\ WritesList(t)
    BY <1>1, <2>2, WriteSound DEF HeapSound
  <2> QED
    BY <2>1, <2>2 DEF StepOK
<1>3. ASSUME NEW u \in Threads
      PROVE  Chosen(u)'
  <2>1. CASE u = t
    <3>1. CASE pc'[t] = "k_split"
      BY <2>1, <3>1, ChoiceMade DEF StepOK
    <3>2. CASE pc'[t] # "k_split"
      BY <2>1, <3>2 DEF Chosen
    <3> QED
      BY <3>1, <3>2
  <2>2. CASE u # t
    <3>1. pc'[u] = pc[u] /\ loc'[u] = loc[u] /\ Chosen(u)
      BY <2>2 DEF StepOK, Others, HeapInv
    <3>2. CASE buckets'[KernelHeap].list = buckets[KernelHeap].list
      BY <3>1, <3>2 DEF Chosen
    <3>3. CASE HoldsHeap(t)
      <4>1. ~HoldsHeap(u)
        BY <2>2, <3>3 DEF LockInv
      <4>2. ~(pc[u] = "k_split" /\ loc[u].cur = KernelHeap)
        BY <4>1 DEF HoldsHeap, Holds, CriticalPCs, LockOf
      <4> QED
        BY <3>1, <4>2 DEF Chosen
    <3> QED
      BY <3>2, <3>3 DEF StepOK
  <2> QED
    BY <2>1, <2>2
<1> QED
  BY <1>2, <1>3 DEF HeapInv

(* The inductive invariant: the shapes, the lock, and the list it protects. *)
THEOREM HeapInvariant == Spec => [](ShapeInv /\ LockInv /\ HeapInv)
<1>1. Init => HeapInv
  BY InitSound
<1>2. ShapeInv /\ LockInv /\ HeapInv /\ [Next]_vars => HeapInv'
  <2> SUFFICES ASSUME ShapeInv, LockInv, HeapInv, [Next]_vars PROVE HeapInv'
    OBVIOUS
  <2>1. CASE Next
    <3>1. PICK t \in Threads : Step(t) \/ Call(t)
      BY <2>1 DEF Next
    <3>2. StepOK(t)
      BY <3>1, StepsOK
    <3> QED
      BY <3>2, HeapKept
  <2>2. CASE UNCHANGED vars
    BY <2>2 DEF vars, HeapInv, HeapSound, Chosen
  <2> QED
    BY <2>1, <2>2
<1> QED
  BY <1>1, <1>2, LockInvariant, PTL DEF Spec

(* Whatever the threads do, and however buckets come and go, the headers of
   kernel_heap stay linked, in order and apart at every step of kmalloc, mfree
   and realloc (split_pebble, melt_prev, absorb_next, shrink_pebble). *)
THEOREM HeapList == Spec => []HeapListWellFormed
<1>1. HeapInv => HeapListWellFormed
  BY DEF HeapInv, HeapSound, Sound, HeapListWellFormed
<1> QED
  BY <1>1, HeapInvariant, PTL

-----------------------------------------------------------------------------
(* kernel_heap's list of pebbles. *)
List == buckets[KernelHeap].list

-----------------------------------------------------------------------------
(* The record of kernel_heap *)

(* largest is at least every pebble, in use or free, and first is a pebble or
   NULL. *)
Bounded(bk) ==
  /\ bk.largest \in Nat
  /\ \A a \in DOMAIN bk.list : bk.list[a].size <= bk.largest
  /\ bk.first \in DOMAIN bk.list \cup {NULL}

HeapRecord ==
  /\ buckets[KernelHeap].lflags = {"VIRTUAL", "PERSISTENT"}
  /\ Bounded(buckets[KernelHeap])

(* A step that changes no bucket but one other than kernel_heap. *)
LEMMA OtherBucket ==
  ASSUME LockInv, NEW b, b # KernelHeap, NEW bk, buckets' = [buckets EXCEPT ![b] = bk]
  PROVE  buckets'[KernelHeap] = buckets[KernelHeap]
  BY DEF LockInv

(* Only the holder of kernel_heap's lock writes its first and its largest: where
   it writes the list, and where kmalloc sets first. *)
LEMMA FieldsKept ==
  ASSUME ShapeInv, LockInv, NEW t \in Threads, Step(t) \/ Call(t),
         loc[t].cur = KernelHeap => ~WritesList(t) /\ ~WalkFirst(t)
  PROVE  /\ buckets'[KernelHeap].first = buckets[KernelHeap].first
         /\ buckets'[KernelHeap].largest = buckets[KernelHeap].largest
<1> DEFINE h == buckets[KernelHeap]
           b == loc[t].cur
           Kept == buckets'[KernelHeap].first = h.first /\ buckets'[KernelHeap].largest = h.largest
<1> SUFFICES Kept
  OBVIOUS
<1>0. KernelHeap \in DOMAIN buckets /\ HasShape(h)
  BY DEF LockInv, ShapeInv, BucketsInv
<1>1. Unlocked(h).first = h.first /\ Unlocked(h).largest = h.largest
  BY <1>0 DEF HasShape, Unlocked
<1>2. CASE buckets' = buckets
  BY <1>2
<1>3. CASE SpinLock(t)
  <2>1. buckets' = [buckets EXCEPT ![LockOf(t)] = [buckets[LockOf(t)] EXCEPT !.spinlock = 1]]
    BY <1>3 DEF SpinLock
  <2>2. CASE LockOf(t) = KernelHeap
    BY <1>0, <2>1, <2>2 DEF HasShape
  <2>3. CASE LockOf(t) # KernelHeap
    BY <2>1, <2>3, OtherBucket
  <2> QED
    BY <2>2, <2>3
<1>4. CASE WalkTry(t)
  <2>1. CASE buckets' = [buckets EXCEPT ![b] = Unlocked(@)]
    <3>1. CASE b = KernelHeap
      BY <1>0, <1>1, <2>1, <3>1
    <3>2. CASE b # KernelHeap
      BY <2>1, <3>2, OtherBucket
    <3> QED
      BY <3>1, <3>2
  <2> QED
    BY <1>2, <1>4, <2>1 DEF WalkTry, Found, FoundNever
<1>5. CASE SplitPebble(t) \/ FreeMark(t) \/ FreeMelt(t) \/ FreeAbsorb(t) \/ ShrinkSplit(t)
  <2>1. b # KernelHeap
    BY <1>5 DEF WritesList
  <2>2. \E bk : buckets' = [buckets EXCEPT ![b] = bk]
    BY <1>5 DEF SplitPebble, FreeMark, FreeMelt, FreeAbsorb, ShrinkSplit
  <2> QED
    BY <2>1, <2>2, OtherBucket
<1>6. CASE WalkFirst(t)
  <2>1. b # KernelHeap
    BY <1>6
  <2>2. \E bk : buckets' = [buckets EXCEPT ![b] = bk]
    BY <1>6 DEF WalkFirst
  <2> QED
    BY <2>1, <2>2, OtherBucket
<1>7. CASE CreateBucket(t)
  BY <1>0, <1>2, <1>7 DEF CreateBucket
<1>8. CASE InsertLink(t)
  <2> DEFINE n == h.next
  <2>1. /\ pc[t] = "i_link" /\ b \in DOMAIN buckets
        /\ buckets' = [x \in DOMAIN buckets |->
             CASE x = b          -> [buckets[b] EXCEPT !.next = n, !.prev = KernelHeap]
               [] x = KernelHeap -> Unlocked([buckets[x] EXCEPT !.next = b])
               [] x = n          -> [buckets[x] EXCEPT !.prev = b]
               [] OTHER          -> buckets[x]]
    BY <1>8 DEF InsertLink, Mapped
  <2>2. b # KernelHeap /\ n # KernelHeap
    BY <1>0, <2>1 DEF LockInv, Away, AwayPCs, ShapeInv, BucketsInv
  <2>3. buckets'[KernelHeap] = Unlocked([h EXCEPT !.next = b])
    BY <1>0, <2>1, <2>2
  <2> QED
    BY <1>0, <2>3 DEF HasShape, Unlocked
<1>9. CASE NewTry(t) \/ NewLargest(t) \/ NewFirstStore(t)
  <2>1. b # KernelHeap
    BY <1>9 DEF NewTry, NewLargest, NewFirstStore, LockInv, Away, AwayPCs
  <2>2. buckets' = buckets \/ \E bk : buckets' = [buckets EXCEPT ![b] = bk]
    BY <1>9 DEF NewTry, NewLargest, NewFirstStore, Found, FoundNever
  <2> QED
    BY <1>2, <2>1, <2>2, OtherBucket
<1>10. CASE WalkLargest(t)
  <2>1. b # KernelHeap
    BY <1>10 DEF WalkLargest, LockInv, Away, AwayPCs
  <2>2. buckets' = buckets \/ \E bk : buckets' = [buckets EXCEPT ![b] = bk]
    BY <1>10 DEF WalkLargest
  <2> QED
    BY <1>2, <2>1, <2>2, OtherBucket
<1>11. CASE RemovePrev(t)
  <2>1. b # KernelHeap /\ b \in DOMAIN buckets
    BY <1>11 DEF RemovePrev, LockInv, Away, AwayPCs, Mapped
  <2> DEFINE p == buckets[b].prev
  <2>2. CASE p # NULL
    <3>1. buckets' = [buckets EXCEPT ![p] = [buckets[p] EXCEPT !.next = buckets[b].next]]
      BY <1>11, <2>2 DEF RemovePrev
    <3>2. CASE p = KernelHeap
      BY <1>0, <3>1, <3>2 DEF HasShape
    <3>3. CASE p # KernelHeap
      BY <3>1, <3>3, OtherBucket
    <3> QED
      BY <3>2, <3>3
  <2> QED
    BY <1>2, <1>11, <2>2 DEF RemovePrev
<1>12. CASE RemoveNext(t)
  <2>1. b # KernelHeap /\ b \in DOMAIN buckets
    BY <1>12 DEF RemoveNext, LockInv, Away, AwayPCs, Mapped
  <2> DEFINE n == buckets[b].next
  <2>2. CASE n # NULL
    <3>1. buckets' = [buckets EXCEPT ![n] = [buckets[n] EXCEPT !.prev = buckets[b].prev]]
      BY <1>12, <2>2 DEF RemoveNext
    <3>2. n # KernelHeap
      BY <2>1 DEF ShapeInv, BucketsInv
    <3> QED
      BY <3>1, <3>2, OtherBucket
  <2> QED
    BY <1>2, <1>12, <2>2 DEF RemoveNext
<1>13. CASE RemoveUnmap(t)
  <2>1. b # KernelHeap
    BY <1>13 DEF RemoveUnmap, LockInv, Away, AwayPCs
  <2> QED
    BY <1>0, <1>13, <2>1 DEF RemoveUnmap
<1>14. CASE \/ WalkNext(t) \/ NewFirst(t) \/ FreeCheck(t) \/ LoadFirst(t) \/ TestFirst(t)
            \/ Wild(t) \/ Call(t)
  <2>1. buckets' = buckets
    BY <1>14 DEF WalkNext, NewFirst, FreeCheck, LoadFirst, TestFirst, Wild, Call, Kmalloc, Mfree,
       ReallocShrink, ReallocGrow
  <2> QED
    BY <1>2, <2>1
<1> QED
  BY <1>3, <1>4, <1>5, <1>6, <1>7, <1>8, <1>9, <1>10, <1>11, <1>12, <1>13, <1>14 DEF Step

(* absorb_next merges two free pebbles, or does nothing. *)
LEMMA AbsorbCases ==
  ASSUME NEW bk, HasShape(bk), Sound(bk.list, bk.bytes), NEW a \in DOMAIN bk.list
  PROVE  LET n == bk.list[a].next
             r == absorb_next(bk, a)
         IN  \/ /\ a \in FreeAt(bk.list) /\ n \in FreeAt(bk.list)
                /\ r.list = SwallowNext(bk.list, a)
                /\ r.first = IF bk.first = n THEN a ELSE bk.first
                /\ r.largest = LET z == bk.list[a].size + bk.list[n].size + PEBBLE_SZ
                               IN  IF z > bk.largest THEN z ELSE bk.largest
             \/ /\ ~(a \in FreeAt(bk.list) /\ n \in FreeAt(bk.list))
                /\ r = bk
<1> DEFINE n == bk.list[a].next
           s == [bk EXCEPT !.list  = SwallowNext(bk.list, a),
                           !.first = IF @ = n THEN a ELSE @]
           z == bk.list[a].size + bk.list[n].size + PEBBLE_SZ
           r == absorb_next(bk, a)
<1>1. n # NULL => n \in DOMAIN bk.list
  BY DEF Sound, ListWellFormed, LinksAgree
<1>2. NULL \notin DOMAIN bk.list
  BY NullAssumption DEF Sound, IsList
<1>3. CASE a \in FreeAt(bk.list) /\ n \in FreeAt(bk.list)
  <2>1. n # NULL /\ PEBBLE_IS_FREE(bk.list[a]) /\ PEBBLE_IS_FREE(bk.list[n])
    BY <1>2, <1>3 DEF FreeAt
  <2>2. r = bucket_update_largest(s, z)
    BY <2>1 DEF absorb_next
  <2>3. /\ s.list = SwallowNext(bk.list, a) /\ s.largest = bk.largest
        /\ s.first = IF bk.first = n THEN a ELSE bk.first
        /\ HasShape(s)
    BY DEF HasShape
  <2> HIDE DEF s, z, n, r
  <2>4. /\ r.list = s.list /\ r.first = s.first
        /\ r.largest = IF z > s.largest THEN z ELSE s.largest
    BY <2>2, <2>3 DEF bucket_update_largest, HasShape
  <2> QED
    BY <1>3, <2>3, <2>4 DEF n, r, z
<1>4. CASE ~(a \in FreeAt(bk.list) /\ n \in FreeAt(bk.list))
  <2>1. r = bk
    BY <1>1, <1>4 DEF absorb_next, FreeAt
  <2> QED
    BY <1>4, <2>1
<1> QED
  BY <1>3, <1>4

(* A merge leaves first and largest true. *)
LEMMA AbsorbBounded ==
  ASSUME NEW bk, HasShape(bk), Sound(bk.list, bk.bytes), NEW a \in DOMAIN bk.list, Bounded(bk)
  PROVE  Bounded(absorb_next(bk, a))
<1> DEFINE n == bk.list[a].next
           P == bk.list
           Q == SwallowNext(P, a)
           z == P[a].size + P[n].size + PEBBLE_SZ
           r == absorb_next(bk, a)
<1>1. CASE r = bk
  BY <1>1
<1>2. CASE r # bk
  <2>1. /\ a \in FreeAt(P) /\ n \in FreeAt(P) /\ r.list = Q
        /\ r.first = IF bk.first = n THEN a ELSE bk.first
        /\ r.largest = IF z > bk.largest THEN z ELSE bk.largest
    BY <1>2, AbsorbCases
  <2>2. bk.bytes \in Nat
    BY DEF HasShape
  <2>3. /\ n # a /\ DOMAIN Q = DOMAIN P \ {n} /\ Q[a].size = z
        /\ \A x \in DOMAIN Q \ {a} : Q[x].size = P[x].size
    BY <2>1, <2>2, SwallowEffect
  <2>4. P \in [DOMAIN P -> Pebble] /\ NULL \notin DOMAIN P
    BY NullAssumption DEF Sound, IsList
  <2>5. z \in Nat /\ bk.largest \in Nat /\ \A x \in DOMAIN P : P[x].size \in Nat
    <3>1. P[a].size \in Nat /\ P[n].size \in Nat
      BY <2>1, <2>4 DEF Pebble, FreeAt
    <3> QED
      BY <3>1, <2>4 DEF Bounded, Pebble, PEBBLE_SZ
  <2> HIDE DEF n, Q, z, r
  <2>6. r.largest \in Nat /\ r.largest >= z /\ r.largest >= bk.largest
    BY <2>1, <2>5
  <2>7. ASSUME NEW x \in DOMAIN Q PROVE Q[x].size <= r.largest
    <3>1. CASE x = a
      BY <2>3, <2>5, <2>6, <3>1
    <3>2. CASE x # a
      <4>1. x \in DOMAIN P /\ P[x].size <= bk.largest /\ Q[x].size = P[x].size
        BY <2>3, <3>2 DEF Bounded
      <4> QED
        BY <4>1, <2>5, <2>6
    <3> QED
      BY <3>1, <3>2
  <2>8. r.first \in DOMAIN Q \cup {NULL}
    BY <2>1, <2>3, <2>4 DEF Bounded, FreeAt
  <2> QED
    BY <2>1, <2>6, <2>7, <2>8 DEF Bounded, r
<1> QED
  BY <1>1, <1>2

(* melt_prev is absorb_next of the pebble before, where the two are free. *)
LEMMA MeltCases ==
  ASSUME NEW bk, HasShape(bk), Sound(bk.list, bk.bytes), NEW a \in DOMAIN bk.list
  PROVE  LET p == bk.list[a].prev
         IN  \/ /\ p \in FreeAt(bk.list) /\ a \in FreeAt(bk.list) /\ bk.list[p].next = a
                /\ melt_prev(bk, a) = absorb_next(bk, p) /\ MeltedInto(bk, a) = p
             \/ /\ ~(p \in FreeAt(bk.list) /\ a \in FreeAt(bk.list))
                /\ melt_prev(bk, a) = bk /\ MeltedInto(bk, a) = a
<1> DEFINE p == bk.list[a].prev
<1>1. p # NULL => p \in DOMAIN bk.list /\ bk.list[p].next = a
  BY DEF Sound, ListWellFormed, LinksAgree
<1>2. NULL \notin DOMAIN bk.list
  BY NullAssumption DEF Sound, IsList
<1>3. CASE p \in FreeAt(bk.list) /\ a \in FreeAt(bk.list)
  <2>1. p # NULL /\ PEBBLE_IS_FREE(bk.list[p]) /\ PEBBLE_IS_FREE(bk.list[a])
    BY <1>2, <1>3 DEF FreeAt
  <2> QED
    BY <1>1, <1>3, <2>1 DEF melt_prev, MeltedInto
<1>4. CASE ~(p \in FreeAt(bk.list) /\ a \in FreeAt(bk.list))
  <2>1. p = NULL \/ ~PEBBLE_IS_FREE(bk.list[p]) \/ ~PEBBLE_IS_FREE(bk.list[a])
    BY <1>1, <1>4 DEF FreeAt
  <2>2. MeltedInto(bk, a) = a
    BY <2>1 DEF MeltedInto
  <2>3. melt_prev(bk, a) = bk
    <3>1. CASE p = NULL
      BY <3>1 DEF melt_prev
    <3>2. CASE p # NULL
      BY <1>1, <2>1, <3>2 DEF melt_prev, absorb_next
    <3> QED
      BY <3>1, <3>2
  <2> QED
    BY <1>4, <2>2, <2>3
<1> QED
  BY <1>3, <1>4

-----------------------------------------------------------------------------
(* Who owns the pebbles of kernel_heap that are in use *)

(* Where t is, if the bucket it works on is kernel_heap. *)
AtHeap(t, places) == pc[t] \in places /\ loc[t].cur = KernelHeap

(* kmalloc, as a call of its own or made by realloc. *)
AllocPCs == {"k_lock", "k_try", "k_split", "k_first", "k_next", "k_create", "i_lock", "i_link",
             "n_lock", "n_try", "n_split", "n_largest", "n_first", "n_store", "hang"}
ShrinkPCs == {"s_lock", "s_split"}

(* The pebbles of kernel_heap that t's call is answerable for: the one it works
   on, the one that realloc will free, and the one that it will return. *)
CurOf(t) ==
  IF AtHeap(t, {"k_first", "f_lock", "f_mark"} \cup ShrinkPCs) THEN {loc[t].at} ELSE {}
OldOf(t) ==
  IF pc[t] \in AllocPCs /\ loc[t].old # NULL /\ loc[t].old.b = KernelHeap
  THEN {loc[t].old.at} ELSE {}
RetOf(t) ==
  IF loc[t].ret # NULL /\ loc[t].ret.b = KernelHeap THEN {loc[t].ret.at} ELSE {}
Has(t) == CurOf(t) \cup OldOf(t) \cup RetOf(t)

(* Those of them that are what t's caller asked for. *)
GoodOf(t) == RetOf(t) \cup (IF pc[t] \in {"k_first"} \cup ShrinkPCs THEN CurOf(t) ELSE {})

ProperRequest(req) ==
  /\ req.size \in Nat \ {0}
  /\ req.alignment \in {1, 2, 4, 8, 16, 32} \cup WantedAlignments
  /\ "ALIGNED" \notin req.flags => req.alignment = 1

InKind(req) == req.flags \cap {"VIRTUAL", "PHYSICAL"} = {"VIRTUAL"}

(* The pebble at a of P is what req asks for. *)
Fits(P, a, req) ==
  /\ P[a].size >= req.size
  /\ (a + PEBBLE_SZ) % req.alignment = 0
  /\ InKind(req)

CallOK(t) ==
  /\ pc[t] \in AllocPCs => loc[t].ret = NULL
  /\ pc[t] \in AllocPCs \cup ShrinkPCs \/ loc[t].ret # NULL => ProperRequest(loc[t].req)
  /\ AtHeap(t, {"k_split"}) => loc[t].at \notin UsedAt(List) /\ InKind(loc[t].req)

(* The blocks in kernel_heap. *)
HeapLive == {k \in live : k.p.b = KernelHeap}

ClaimsOK(t) ==
  /\ Has(t) \subseteq UsedAt(List)
  /\ CurOf(t) \cap (OldOf(t) \cup RetOf(t)) = {}
  /\ \A a \in GoodOf(t) : Fits(List, a, loc[t].req)
  /\ CallOK(t)

BlockOK(k) ==
  /\ k.p.at \in UsedAt(List)
  /\ Fits(List, k.p.at, k.req)
  /\ \A t \in Threads : k.p.at \notin Has(t)

(* A pebble in use is owned by one call in progress or by one block at most, and
   is what its owner asked for. *)
Owned ==
  /\ \A t \in Threads : ClaimsOK(t)
  /\ \A t, u \in Threads : t # u => Has(t) \cap Has(u) = {}
  /\ \A k \in HeapLive : BlockOK(k) /\ \A m \in HeapLive : m.p = k.p => m = k
  /\ \A k \in live : ProperRequest(k.req)

(* The pebbles in use that t does not work on stay in use and keep their size,
   and nothing changes under a thread that holds the lock. *)
ListKept(t) ==
  /\ \A x \in UsedAt(List) \ CurOf(t) :
       x \in UsedAt(List)' /\ List'[x].size = List[x].size
  /\ \A u \in Threads : u # t /\ HoldsHeap(u) => List' = List

(* t's new claims are old ones, blocks it was given, or pebbles nobody used. *)
Gains(t) ==
  \A x \in Has(t)' : \/ x \in Has(t)
                     \/ \E k \in HeapLive \ live' : x = k.p.at
                     \/ x \notin UsedAt(List)

(* What t hands out was its own and is so no more. *)
Gives(t) ==
  /\ \A k \in live' \ live : ProperRequest(k.req)
  /\ \A k \in HeapLive' \ live :
       /\ k.p.at \in Has(t) /\ k.p.at \notin Has(t)'
       /\ k.p.at \in UsedAt(List)' /\ Fits(List', k.p.at, k.req)
       /\ \A m \in HeapLive' \ live : m = k

(* Blocks of kernel_heap are told apart by their offsets. *)
LEMMA SamePlace ==
  ASSUME CallsInv, NEW k \in HeapLive, NEW m \in HeapLive, k.p.at = m.p.at
  PROVE  k.p = m.p
<1>1. IsPointer(k.p) /\ IsPointer(m.p) /\ k.p.b = m.p.b
  BY DEF HeapLive, CallsInv, BlockShape
<1> QED
  BY <1>1 DEF IsPointer

(* A thread that does not move owns what it owned. *)
LEMMA StillOwns ==
  ASSUME NEW t \in Threads, NEW u \in Threads, u # t, Others(t)
  PROVE  /\ Has(u)' = Has(u) /\ CurOf(u)' = CurOf(u) /\ OldOf(u)' = OldOf(u)
         /\ RetOf(u)' = RetOf(u) /\ GoodOf(u)' = GoodOf(u)
         /\ loc'[u] = loc[u] /\ pc'[u] = pc[u]
<1>1. loc'[u] = loc[u] /\ pc'[u] = pc[u]
  BY DEF Others
<1> QED
  BY <1>1 DEF Has, CurOf, OldOf, RetOf, GoodOf, AtHeap

(* What a step must do to leave every pebble with one owner at most. *)
LEMMA OwnedMoves ==
  ASSUME CallsInv, Owned, NEW t \in Threads, Others(t), ListKept(t), ClaimsOK(t)', Gains(t),
         Gives(t)
  PROVE  Owned'
<1>1. ASSUME NEW u \in Threads, u # t
      PROVE  /\ Has(u)' = Has(u) /\ CurOf(u)' = CurOf(u) /\ OldOf(u)' = OldOf(u)
             /\ RetOf(u)' = RetOf(u) /\ GoodOf(u)' = GoodOf(u)
             /\ loc'[u] = loc[u] /\ pc'[u] = pc[u]
  BY <1>1, StillOwns
<1>2. ASSUME NEW u \in Threads, u # t, NEW x \in Has(u)
      PROVE  x \in UsedAt(List) /\ x \notin Has(t) /\ x \notin CurOf(t)
             /\ x \in UsedAt(List)' /\ List'[x].size = List[x].size
  <2>1. x \in UsedAt(List) /\ x \notin Has(t)
    BY <1>2 DEF Owned, ClaimsOK
  <2> QED
    BY <2>1 DEF ListKept, Has
<1>3. ASSUME NEW k \in HeapLive
      PROVE  k.p.at \in UsedAt(List) /\ k.p.at \notin Has(t) /\ k.p.at \notin CurOf(t)
             /\ k.p.at \in UsedAt(List)' /\ List'[k.p.at].size = List[k.p.at].size
  <2>1. k.p.at \in UsedAt(List) /\ k.p.at \notin Has(t)
    BY DEF Owned, BlockOK
  <2> QED
    BY <2>1 DEF ListKept, Has
<1>4. ASSUME NEW u \in Threads, u # t
      PROVE  ClaimsOK(u)'
  <2>1. Has(u)' \subseteq UsedAt(List)'
    BY <1>1, <1>2, <1>4
  <2>2. (CurOf(u) \cap (OldOf(u) \cup RetOf(u)))' = {}
    BY <1>1, <1>4 DEF Owned, ClaimsOK
  <2>3. ASSUME NEW a \in GoodOf(u)'
        PROVE  Fits(List', a, loc'[u].req)
    <3>1. a \in GoodOf(u) /\ loc'[u] = loc[u]
      BY <1>1, <1>4
    <3>2. a \in Has(u) /\ Fits(List, a, loc[u].req)
      BY <3>1 DEF Owned, ClaimsOK, GoodOf, Has
    <3> QED
      BY <1>2, <1>4, <3>1, <3>2 DEF Fits
  <2>4. CallOK(u)'
    <3>1. CallOK(u) /\ loc'[u] = loc[u] /\ pc'[u] = pc[u]
      BY <1>1, <1>4 DEF Owned, ClaimsOK
    <3>2. CASE AtHeap(u, {"k_split"})
      <4>1. HoldsHeap(u)
        BY <3>2 DEF AtHeap, HoldsHeap, Holds, CriticalPCs, LockOf
      <4>2. List' = List
        BY <1>4, <4>1 DEF ListKept
      <4> QED
        BY <3>1, <4>2 DEF CallOK, AtHeap
    <3>3. CASE ~AtHeap(u, {"k_split"})
      BY <3>1, <3>3 DEF CallOK, AtHeap
    <3> QED
      BY <3>2, <3>3
  <2> QED
    BY <2>1, <2>2, <2>3, <2>4 DEF ClaimsOK
<1>5. ASSUME NEW u \in Threads, u # t
      PROVE  Has(t)' \cap Has(u)' = {}
  <2> SUFFICES ASSUME NEW x \in Has(t)', x \in Has(u)' PROVE FALSE
    OBVIOUS
  <2>1. x \in Has(u)
    BY <1>1, <1>5
  <2>2. x \in UsedAt(List) /\ x \notin Has(t)
    BY <1>2, <1>5, <2>1
  <2>3. \A k \in HeapLive : k.p.at # x
    BY <2>1 DEF Owned, BlockOK
  <2> QED
    BY <2>2, <2>3 DEF Gains
<1>6. \A u, v \in Threads : u # v => Has(u)' \cap Has(v)' = {}
  <2> TAKE u, v \in Threads
  <2> HAVE u # v
  <2>1. CASE u = t
    BY <1>5, <2>1
  <2>2. CASE v = t
    BY <1>5, <2>2
  <2>3. CASE u # t /\ v # t
    BY <1>1, <2>3 DEF Owned
  <2> QED
    BY <2>1, <2>2, <2>3
<1>7. HeapLive' \subseteq HeapLive \cup (HeapLive' \ live)
  BY DEF HeapLive
<1>8. ASSUME NEW k \in HeapLive', k \in HeapLive
      PROVE  BlockOK(k)' /\ \A m \in HeapLive' : m.p = k.p => m = k
  <2>1. k.p.at \notin Has(t)'
    <3> SUFFICES ASSUME k.p.at \in Has(t)' PROVE FALSE
      OBVIOUS
    <3>1. PICK j \in HeapLive \ live' : k.p.at = j.p.at
      BY <1>3, <1>8 DEF Gains
    <3>2. j.p = k.p
      BY <1>8, <3>1, SamePlace
    <3>3. j = k
      BY <1>8, <3>2 DEF Owned
    <3> QED
      BY <3>3 DEF HeapLive
  <2>2. \A u \in Threads : k.p.at \notin Has(u)'
    BY <1>1, <1>8, <2>1 DEF Owned, BlockOK
  <2>3. Fits(List', k.p.at, k.req)
    BY <1>3, <1>8 DEF Owned, BlockOK, Fits
  <2>4. ASSUME NEW m \in HeapLive', m.p = k.p PROVE m = k
    <3>1. CASE m \in HeapLive
      BY <1>8, <2>4, <3>1 DEF Owned
    <3>2. CASE m \in HeapLive' \ live
      BY <1>3, <1>8, <2>4, <3>2 DEF Gives
    <3> QED
      BY <1>7, <3>1, <3>2
  <2> QED
    BY <1>3, <1>8, <2>2, <2>3, <2>4 DEF BlockOK
<1>9. ASSUME NEW k \in HeapLive', k \notin live
      PROVE  BlockOK(k)' /\ \A m \in HeapLive' : m.p = k.p => m = k
  <2>1. /\ k.p.at \in Has(t) /\ k.p.at \notin Has(t)'
        /\ k.p.at \in UsedAt(List)' /\ Fits(List', k.p.at, k.req)
        /\ \A m \in HeapLive' \ live : m = k
    BY <1>9 DEF Gives
  <2>2. \A u \in Threads : k.p.at \notin Has(u)'
    BY <1>1, <2>1 DEF Owned
  <2>3. \A m \in HeapLive : m.p # k.p
    BY <1>3, <2>1
  <2> QED
    BY <1>7, <2>1, <2>2, <2>3 DEF BlockOK
<1>10. \A k \in live' : ProperRequest(k.req)
  BY DEF Gives, Owned
<1>11. \A u \in Threads : ClaimsOK(u)'
  BY <1>4
<1>12. \A k \in HeapLive' : BlockOK(k)' /\ \A m \in HeapLive' : m.p = k.p => m = k
  BY <1>7, <1>8, <1>9
<1> QED
  BY <1>6, <1>10, <1>11, <1>12 DEF Owned

-----------------------------------------------------------------------------
(* Steps that are alike in what they do to owners *)

(* A step that leaves the list of kernel_heap alone takes nothing from anybody. *)
LEMMA ListSame ==
  ASSUME NEW t \in Threads, List' = List
  PROVE  ListKept(t) /\ UsedAt(List)' = UsedAt(List)
  BY DEF ListKept, UsedAt

(* A step of kmalloc that leaves it with no pebble of kernel_heap in hand. *)
LEMMA WalksOn ==
  ASSUME CallsInv, Owned, NEW t \in Threads, Others(t), List' = List, live' = live,
         pc[t] \in AllocPCs, pc'[t] \in AllocPCs, CurOf(t)' = {},
         loc'[t].old = loc[t].old, loc'[t].ret = loc[t].ret, loc'[t].req = loc[t].req,
         AtHeap(t, {"k_split"})' => loc'[t].at \notin UsedAt(List) /\ InKind(loc[t].req)
  PROVE  Owned'
<1>1. ListKept(t) /\ UsedAt(List)' = UsedAt(List)
  BY ListSame
<1>2. ClaimsOK(t)
  BY DEF Owned
<1>3. loc[t].ret = NULL /\ ProperRequest(loc[t].req)
  BY <1>2 DEF ClaimsOK, CallOK
<1>4. RetOf(t)' = {} /\ OldOf(t)' = OldOf(t)
  BY <1>3 DEF RetOf, OldOf
<1>5. Has(t)' = OldOf(t) /\ OldOf(t) \subseteq Has(t) /\ GoodOf(t)' = {}
  BY <1>4 DEF Has, GoodOf
<1>6. CallOK(t)'
  BY <1>1, <1>3 DEF CallOK
<1>7. ClaimsOK(t)'
  BY <1>1, <1>2, <1>5, <1>6 DEF ClaimsOK
<1>8. Gains(t)
  BY <1>5 DEF Gains
<1>9. Gives(t)
  BY DEF Gives, HeapLive
<1> QED
  BY <1>1, <1>7, <1>8, <1>9, OwnedMoves

(* A step of mfree, or one that faults: the call lets go of what it has. *)
LEMMA LetsGo ==
  ASSUME CallsInv, Owned, NEW t \in Threads, Others(t), ListKept(t), live' = live,
         pc'[t] \notin AllocPCs \cup ShrinkPCs,
         loc'[t].ret = loc[t].ret, loc'[t].req = loc[t].req,
         CurOf(t)' \subseteq CurOf(t), CurOf(t)' \subseteq UsedAt(List)'
  PROVE  Owned'
<1>2. ClaimsOK(t)
  BY DEF Owned
<1>3. RetOf(t)' = RetOf(t) /\ OldOf(t)' = {} /\ GoodOf(t)' = RetOf(t)
  BY DEF RetOf, OldOf, GoodOf, AllocPCs
<1>4. Has(t)' \subseteq Has(t)
  BY <1>3 DEF Has
<1>5. ASSUME NEW a \in RetOf(t)
      PROVE  a \in UsedAt(List)' /\ Fits(List', a, loc'[t].req)
  <2>1. a \in UsedAt(List) /\ a \notin CurOf(t) /\ Fits(List, a, loc[t].req)
    BY <1>2, <1>5 DEF ClaimsOK, Has, GoodOf
  <2> QED
    BY <2>1 DEF ListKept, Fits
<1>6. CallOK(t)'
  <2>1. loc[t].ret # NULL => ProperRequest(loc[t].req)
    BY <1>2 DEF ClaimsOK, CallOK
  <2>2. pc'[t] # "k_split"
    BY DEF AllocPCs
  <2> QED
    BY <2>1, <2>2 DEF CallOK, AtHeap
<1>7. ClaimsOK(t)'
  <2>1. Has(t)' \subseteq UsedAt(List)'
    BY <1>3, <1>5 DEF Has
  <2>2. (CurOf(t) \cap (OldOf(t) \cup RetOf(t)))' = {}
    BY <1>2, <1>3 DEF ClaimsOK
  <2> QED
    BY <1>3, <1>5, <1>6, <2>1, <2>2 DEF ClaimsOK
<1>8. Gains(t)
  BY <1>4 DEF Gains
<1>9. Gives(t)
  BY DEF Gives, HeapLive
<1> QED
  BY <1>7, <1>8, <1>9, OwnedMoves

(* A call that hands out p, or nothing, and is over. *)
LEMMA HandsOut ==
  ASSUME CallsInv, Owned, NEW t \in Threads, Others(t), ListKept(t),
         pc'[t] = "idle", loc'[t] = NoLocals, NEW p,
         \/ live' = live
         \/ /\ live' = live \cup {Handed(t, p)} /\ ProperRequest(loc[t].req)
            /\ p.b = KernelHeap =>
                 p.at \in Has(t) /\ p.at \in UsedAt(List)' /\ Fits(List', p.at, loc[t].req)
  PROVE  Owned'
<1>1. CurOf(t)' = {} /\ OldOf(t)' = {} /\ RetOf(t)' = {} /\ GoodOf(t)' = {} /\ CallOK(t)'
  BY DEF CurOf, OldOf, RetOf, GoodOf, CallOK, AtHeap, AllocPCs, ShrinkPCs, NoLocals
<1>2. Has(t)' = {} /\ ClaimsOK(t)' /\ Gains(t)
  BY <1>1 DEF Has, ClaimsOK, Gains
<1>3. Gives(t)
  <2>1. CASE live' = live
    BY <2>1 DEF Gives, HeapLive
  <2>2. CASE live' # live
    <3> DEFINE k == Handed(t, p)
    <3>1. k.p = p /\ k.req = loc[t].req
      BY DEF Handed
    <3>2. live' = live \cup {k}
      BY <2>2
    <3> HIDE DEF k
    <3> QED
      BY <1>2, <2>2, <3>1, <3>2 DEF Gives, HeapLive
  <2> QED
    BY <2>1, <2>2
<1> QED
  BY <1>2, <1>3, OwnedMoves

(* kmalloc returns a pebble of kernel_heap only if it had it in hand. *)
LEMMA KmallocGives ==
  ASSUME CallsInv, Owned, NEW t \in Threads, NEW p, PointerShape(p), KmallocReturns(t, p),
         List' = List, pc[t] \in AllocPCs,
         p # NULL /\ p.b = KernelHeap => AtHeap(t, {"k_first"}) /\ p.at = loc[t].at
  PROVE  Owned'
<1>0. CallsInv' /\ Others(t)
  BY KmallocReturnsShape
<1>1. ListKept(t) /\ UsedAt(List)' = UsedAt(List)
  BY ListSame
<1>2. ClaimsOK(t) /\ loc[t].ret = NULL /\ ProperRequest(loc[t].req)
  BY DEF Owned, ClaimsOK, CallOK
<1>3. p # NULL /\ p.b = KernelHeap =>
        p.at \in CurOf(t) /\ p.at \in UsedAt(List) /\ Fits(List, p.at, loc[t].req)
  BY <1>2 DEF ClaimsOK, CurOf, GoodOf, Has, AtHeap
<1>4. CASE loc[t].op = "realloc" /\ loc[t].old # NULL
  <2> DEFINE x == [loc[t] EXCEPT !.cur = loc[t].old.b, !.at = loc[t].old.at, !.ret = p]
  <2>1. Goto(t, "f_lock") /\ loc' = [loc EXCEPT ![t] = x] /\ live' = live
    BY <1>4 DEF KmallocReturns
  <2>2. pc'[t] = "f_lock" /\ loc'[t] = x
    BY <2>1 DEF Goto, CallsInv
  <2>3. /\ x.cur = loc[t].old.b /\ x.at = loc[t].old.at /\ x.ret = p /\ x.req = loc[t].req
    BY DEF CallsInv, LocalsShape
  <2> HIDE DEF x
  <2>4. CurOf(t)' = OldOf(t) /\ OldOf(t)' = {} /\ GoodOf(t)' = RetOf(t)'
    BY <1>4, <2>2, <2>3 DEF CurOf, OldOf, GoodOf, AtHeap, AllocPCs, ShrinkPCs
  <2>5. RetOf(t)' = IF p # NULL /\ p.b = KernelHeap THEN {p.at} ELSE {}
    BY <2>2, <2>3 DEF RetOf
  <2>6. RetOf(t)' \subseteq CurOf(t)
    BY <1>3, <2>5
  <2>7. Has(t)' \subseteq Has(t)
    BY <2>4, <2>6 DEF Has
  <2>8. \A a \in GoodOf(t)' : Fits(List', a, loc'[t].req)
    BY <1>3, <2>2, <2>3, <2>4, <2>5
  <2>9. CallOK(t)'
    BY <1>2, <2>2, <2>3 DEF CallOK, AtHeap, AllocPCs
  <2>10. ClaimsOK(t)'
    BY <1>1, <1>2, <2>4, <2>6, <2>7, <2>8, <2>9 DEF ClaimsOK
  <2>11. Gains(t) /\ Gives(t)
    BY <2>1, <2>7 DEF Gains, Gives, HeapLive
  <2> QED
    BY <1>0, <1>1, <2>10, <2>11, OwnedMoves
<1>5. CASE ~(loc[t].op = "realloc" /\ loc[t].old # NULL)
  <2>1. /\ Goto(t, "idle") /\ loc' = [loc EXCEPT ![t] = NoLocals]
        /\ live' = IF p = NULL THEN live ELSE live \cup {Handed(t, p)}
    BY <1>5 DEF KmallocReturns
  <2>2. pc'[t] = "idle" /\ loc'[t] = NoLocals
    BY <2>1 DEF Goto, CallsInv
  <2> QED
    BY <1>0, <1>1, <1>2, <1>3, <2>1, <2>2, HandsOut DEF Has
<1> QED
  BY <1>4, <1>5

(* mfree returns; in realloc the block it returns is realloc's own. *)
LEMMA MfreeGives ==
  ASSUME CallsInv, Owned, NEW t \in Threads, MfreeReturns(t), List' = List
  PROVE  Owned'
<1>0. CallsInv' /\ Others(t)
  BY MfreeReturnsShape
<1>1. ListKept(t) /\ UsedAt(List)' = UsedAt(List)
  BY ListSame
<1>2. /\ Goto(t, "idle") /\ loc' = [loc EXCEPT ![t] = NoLocals]
      /\ live' = IF loc[t].ret = NULL THEN live ELSE live \cup {Handed(t, loc[t].ret)}
  BY DEF MfreeReturns
<1>3. pc'[t] = "idle" /\ loc'[t] = NoLocals
  BY <1>2 DEF Goto, CallsInv
<1>4. ClaimsOK(t) /\ (loc[t].ret # NULL => ProperRequest(loc[t].req))
  BY DEF Owned, ClaimsOK, CallOK
<1>5. loc[t].ret # NULL /\ loc[t].ret.b = KernelHeap =>
        /\ loc[t].ret.at \in Has(t) /\ loc[t].ret.at \in UsedAt(List)
        /\ Fits(List, loc[t].ret.at, loc[t].req)
  BY <1>4 DEF ClaimsOK, RetOf, GoodOf, Has
<1> QED
  BY <1>0, <1>1, <1>2, <1>3, <1>4, <1>5, HandsOut

-----------------------------------------------------------------------------
(* Every step leaves every pebble with one owner at most *)

WritePCs == {"k_split", "n_split", "f_mark", "f_melt", "f_absorb", "s_split"}

(* What the invariants say of kernel_heap. *)
LEMMA HeapNow ==
  ASSUME ShapeInv, LockInv, HeapInv
  PROVE  /\ KernelHeap \in DOMAIN buckets /\ HasShape(buckets[KernelHeap])
         /\ buckets[KernelHeap].bytes \in Nat
         /\ Sound(List, buckets[KernelHeap].bytes) /\ IsList(List)
         /\ List \in [DOMAIN List -> Pebble] /\ DOMAIN List \subseteq Nat
  BY DEF LockInv, ShapeInv, BucketsInv, HeapInv, HeapSound, HasShape, Sound, IsList, List

(* The list of kernel_heap is written nowhere else. *)
LEMMA ListStays ==
  ASSUME NEW t \in Threads, StepOK(t), pc[t] \notin WritePCs \/ loc[t].cur # KernelHeap
  PROVE  List' = List /\ Others(t) /\ ListKept(t) /\ UsedAt(List)' = UsedAt(List)
<1>1. List' = List
  BY DEF StepOK, WritesList, WritePCs, SplitPebble, FreeMark, FreeMelt, FreeAbsorb, ShrinkSplit,
     List
<1> QED
  BY <1>1, ListSame DEF StepOK

(* Who writes the list of kernel_heap holds its lock, alone. *)
LEMMA AloneInHeap ==
  ASSUME LockInv, NEW t \in Threads, pc[t] \in CriticalPCs, loc[t].cur = KernelHeap
  PROVE  HoldsHeap(t) /\ \A u \in Threads : u # t => ~HoldsHeap(u)
<1>1. HoldsHeap(t)
  BY DEF HoldsHeap, Holds, LockOf
<1> QED
  BY <1>1 DEF LockInv

(* A lock is taken, and everybody owns what they owned. *)
LEMMA OwnedSpinLock ==
  ASSUME ShapeInv, LockInv, Owned, NEW t \in Threads, StepOK(t), SpinLock(t)
  PROVE  Owned'
<1>1. CallsInv /\ pc[t] \in LockPCs /\ loc' = loc /\ live' = live
      /\ pc' = [pc EXCEPT ![t] = AfterLock(pc[t])]
  BY DEF SpinLock, ShapeInv, Goto
<1>2. pc'[t] = AfterLock(pc[t])
  BY <1>1 DEF CallsInv
<1>3. List' = List /\ Others(t) /\ ListKept(t) /\ UsedAt(List)' = UsedAt(List)
  BY <1>1, ListStays DEF LockPCs, WritePCs
<1>4. CASE pc[t] \in {"k_lock", "i_lock", "n_lock"}
  <2>1. pc'[t] \in {"k_try", "i_link", "n_try"}
    BY <1>2, <1>4 DEF AfterLock
  <2>2. CurOf(t)' = {} /\ ~AtHeap(t, {"k_split"})' /\ pc'[t] \in AllocPCs /\ pc[t] \in AllocPCs
    BY <1>4, <2>1 DEF CurOf, AtHeap, AllocPCs, ShrinkPCs
  <2> QED
    BY <1>1, <1>3, <2>2, WalksOn
<1>5. CASE pc[t] = "f_lock"
  <2>1. pc'[t] = "f_mark"
    BY <1>2, <1>5 DEF AfterLock
  <2>2. CurOf(t)' = CurOf(t) /\ pc'[t] \notin AllocPCs \cup ShrinkPCs
    BY <1>1, <1>5, <2>1 DEF CurOf, AtHeap, AllocPCs, ShrinkPCs
  <2>3. CurOf(t) \subseteq UsedAt(List)
    BY DEF Owned, ClaimsOK, Has
  <2> QED
    BY <1>1, <1>3, <2>2, <2>3, LetsGo
<1>6. CASE pc[t] = "s_lock"
  <2>1. pc'[t] = "s_split"
    BY <1>2, <1>6 DEF AfterLock
  <2>2. /\ CurOf(t)' = CurOf(t) /\ OldOf(t)' = OldOf(t) /\ RetOf(t)' = RetOf(t)
        /\ GoodOf(t)' = GoodOf(t)
    BY <1>1, <1>6, <2>1 DEF CurOf, OldOf, RetOf, GoodOf, AtHeap, AllocPCs, ShrinkPCs
  <2>3. Has(t)' = Has(t)
    BY <2>2 DEF Has
  <2>4. ClaimsOK(t)
    BY DEF Owned
  <2>5. CallOK(t)'
    BY <1>1, <1>6, <2>1, <2>4 DEF ClaimsOK, CallOK, AtHeap, AllocPCs, ShrinkPCs
  <2>6. ClaimsOK(t)'
    BY <1>1, <1>3, <2>2, <2>3, <2>4, <2>5 DEF ClaimsOK
  <2>7. Gains(t) /\ Gives(t)
    BY <1>1, <2>3 DEF Gains, Gives, HeapLive
  <2> QED
    BY <1>1, <1>3, <2>6, <2>7, OwnedMoves
<1> QED
  BY <1>1, <1>4, <1>5, <1>6 DEF LockPCs

(* The pebble place_pebble finds in kernel_heap is free. *)
LEMMA OwnedWalkTry ==
  ASSUME ShapeInv, LockInv, HeapInv, HeapRecord, Owned, NEW t \in Threads, StepOK(t), WalkTry(t)
  PROVE  Owned'
<1> DEFINE b == loc[t].cur
           bk == buckets[b]
           w == Wanted(loc[t].req)
<1>1. CallsInv /\ pc[t] = "k_try" /\ pc[t] \in AllocPCs
  BY DEF WalkTry, ShapeInv, AllocPCs
<1>2. List' = List /\ Others(t) /\ ListKept(t) /\ UsedAt(List)' = UsedAt(List)
  BY <1>1, ListStays DEF WritePCs
<1>3. CASE Suits(bk, loc[t].req) /\ Found(t, "k_split")
  <2> DEFINE x == [loc[t] EXCEPT !.at = FirstFound(bk, w)]
  <2>1. Fitting(bk, w) # {} /\ loc' = [loc EXCEPT ![t] = x] /\ Goto(t, "k_split") /\ live' = live
    BY <1>3 DEF Found
  <2>2. /\ x.at = FirstFound(bk, w) /\ x.cur = b /\ x.old = loc[t].old /\ x.ret = loc[t].ret
        /\ x.req = loc[t].req
    BY <1>1 DEF CallsInv, LocalsShape
  <2> HIDE DEF x
  <2>3. loc'[t] = x /\ pc'[t] = "k_split"
    BY <1>1, <2>1 DEF CallsInv, Goto
  <2>4. CASE b = KernelHeap
    <3>1. FirstFound(bk, w) \in Fitting(bk, w)
      BY <2>1, <2>4, HeapNow, FirstFoundFits DEF List
    <3>2. FirstFound(bk, w) \notin UsedAt(List)
      BY <2>4, <3>1 DEF Fitting, FreeAt, UsedAt, List
    <3>3. InKind(loc[t].req)
      BY <1>3, <2>4 DEF Suits, HeapRecord, InKind
    <3>4. CurOf(t)' = {} /\ pc'[t] \in AllocPCs
      BY <2>3 DEF CurOf, AtHeap, AllocPCs, ShrinkPCs
    <3> QED
      BY <1>1, <1>2, <2>1, <2>2, <2>3, <3>2, <3>3, <3>4, WalksOn
  <2>5. CASE b # KernelHeap
    <3>1. CurOf(t)' = {} /\ pc'[t] \in AllocPCs /\ ~AtHeap(t, {"k_split"})'
      BY <2>2, <2>3, <2>5 DEF CurOf, AtHeap, AllocPCs, ShrinkPCs
    <3> QED
      BY <1>1, <1>2, <2>1, <2>2, <2>3, <3>1, WalksOn
  <2> QED
    BY <2>4, <2>5
<1>4. CASE ~(Suits(bk, loc[t].req) /\ Found(t, "k_split"))
  <2>1. (Goto(t, "hang") \/ Goto(t, "k_next")) /\ loc' = loc /\ live' = live
    BY <1>4 DEF WalkTry, FoundNever
  <2>2. pc'[t] \in {"hang", "k_next"}
    BY <1>1, <2>1 DEF CallsInv, Goto
  <2>3. CurOf(t)' = {} /\ pc'[t] \in AllocPCs /\ ~AtHeap(t, {"k_split"})'
    BY <2>2 DEF CurOf, AtHeap, AllocPCs, ShrinkPCs
  <2> QED
    BY <1>1, <1>2, <2>1, <2>3, WalksOn
<1> QED
  BY <1>3, <1>4

(* A pebble of the size and alignment that kmalloc wants is one its caller wants. *)
LEMMA WantedFits ==
  ASSUME NEW req, ProperRequest(req), NEW at \in Nat,
         "ALIGNED" \in Wanted(req).lflags => (at + PEBBLE_SZ) % Wanted(req).alignment = 0
  PROVE  Wanted(req).size >= req.size /\ (at + PEBBLE_SZ) % req.alignment = 0
<1> DEFINE n == AtLeast(req.size, PEBBLE_MIN_SIZE)
           w == Wanted(req)
<1>1. req.size \in Nat /\ n \in Nat /\ n >= req.size
  BY DEF ProperRequest, AtLeast, PEBBLE_MIN_SIZE
<1>2. w.size = RoundUp(n, 4096) \/ w.size = RoundUp(n, 64)
  BY DEF Wanted, PAGE_SIZE, PEBBLE_MIN_ALIGN
<1> HIDE DEF n
<1>3. RoundUp(n, 4096) >= n /\ RoundUp(n, 64) >= n /\ RoundUp(n, 4096) \in Nat /\ RoundUp(n, 64) \in Nat
  BY <1>1 DEF RoundUp, RoundDown
<1>4. w.size >= req.size
  BY <1>1, <1>2, <1>3
<1>5. CASE "ALIGNED" \in req.flags
  <2>1. "ALIGNED" \in w.lflags /\ w.alignment = AtLeast(req.alignment, 64)
    BY <1>5 DEF Wanted, PEBBLE_MIN_ALIGN
  <2>2. CASE req.alignment \in WantedAlignments
    <3>1. w.alignment = req.alignment
      BY <2>1, <2>2 DEF AtLeast, WantedAlignments
    <3> QED
      BY <1>4, <2>1, <3>1
  <2>3. CASE req.alignment \in {1, 2, 4, 8, 16, 32}
    <3>1. w.alignment = 64
      BY <2>1, <2>3 DEF AtLeast
    <3>2. (at + PEBBLE_SZ) % 64 = 0
      BY <2>1, <3>1
    <3> DEFINE y == at + PEBBLE_SZ
    <3>3. y \in Nat
      BY DEF PEBBLE_SZ
    <3> HIDE DEF y
    <3>4. y % 64 = 0 => y % 1 = 0 /\ y % 2 = 0 /\ y % 4 = 0 /\ y % 8 = 0 /\ y % 16 = 0 /\ y % 32 = 0
      BY <3>3
    <3> QED
      BY <1>4, <2>3, <3>2, <3>4 DEF y
  <2> QED
    BY <2>2, <2>3 DEF ProperRequest
<1>6. CASE "ALIGNED" \notin req.flags
  <2>1. req.alignment = 1
    BY <1>6 DEF ProperRequest
  <2>2. (at + PEBBLE_SZ) % 1 = 0
    BY DEF PEBBLE_SZ
  <2> QED
    BY <1>4, <2>1, <2>2
<1> QED
  BY <1>5, <1>6

(* What split_pebble does to kernel_heap. *)
LEMMA SplitHere ==
  ASSUME ShapeInv, LockInv, HeapInv, Owned, NEW t \in Threads, SplitPebble(t),
         loc[t].cur = KernelHeap
  PROVE  /\ pc[t] = "k_split" /\ pc'[t] = "k_first" /\ live' = live
         /\ loc'[t].req = loc[t].req /\ loc'[t].cur = KernelHeap
         /\ loc'[t].old = loc[t].old /\ loc'[t].ret = loc[t].ret
         /\ Placed(List, List', loc'[t].at, Wanted(loc[t].req).size)
         /\ "ALIGNED" \in Wanted(loc[t].req).lflags =>
              (loc'[t].at + PEBBLE_SZ) % Wanted(loc[t].req).alignment = 0
<1> DEFINE a == loc[t].at
           w == Wanted(loc[t].req)
           s == split_pebble(List, a, w)
           Q == Marked(s.list, s.at, w.lflags)
           x == [loc[t] EXCEPT !.at = s.at]
<1>0. CallsInv /\ loc[t].req \in RequestShape
  BY CurShape DEF ShapeInv
<1>1. pc[t] = "k_split"
  <2>1. pc[t] # "n_split"
    BY DEF LockInv, Away, AwayPCs
  <2> QED
    BY <2>1 DEF SplitPebble
<1>2. /\ buckets' = [buckets EXCEPT ![KernelHeap].list = Q] /\ loc' = [loc EXCEPT ![t] = x]
      /\ Goto(t, "k_first") /\ live' = live
  BY <1>1 DEF SplitPebble, List, Marked
<1>3. a \in DOMAIN List /\ List[a].size >= NeededSize(w)
  BY <1>1 DEF HeapInv, Chosen, List
<1>4. a \in FreeAt(List)
  BY <1>1, <1>3 DEF Owned, ClaimsOK, CallOK, AtHeap, UsedAt, FreeAt
<1>5. /\ w.size \in Nat /\ w.size % 64 = 0 /\ w.lflags \in SUBSET PebbleFlags
      /\ w.alignment \in WantedAlignments /\ "IN_USE" \in w.lflags
  BY <1>0, WantedShape DEF Wanted
<1> HIDE DEF w
<1>6. /\ Placed(List, Q, s.at, w.size)
      /\ "ALIGNED" \in w.lflags => (s.at + PEBBLE_SZ) % w.alignment = 0
  BY <1>3, <1>4, <1>5, HeapNow, SplitPlaces
<1>7. /\ x.at = s.at /\ x.req = loc[t].req /\ x.cur = loc[t].cur /\ x.old = loc[t].old
      /\ x.ret = loc[t].ret
  BY <1>0 DEF CallsInv, LocalsShape
<1> HIDE DEF x, Q, s
<1>8. loc'[t] = x /\ pc'[t] = "k_first"
  BY <1>0, <1>2 DEF CallsInv, Goto
<1>9. List' = Q
  BY <1>2, HeapNow DEF List, HasShape
<1> QED
  BY <1>1, <1>2, <1>6, <1>7, <1>8, <1>9 DEF w

(* kernel_heap's list is sound after the step too. *)
LEMMA HeapNext ==
  ASSUME ShapeInv, LockInv, HeapInv, NEW t \in Threads, StepOK(t)
  PROVE  /\ Sound(List', buckets[KernelHeap].bytes) /\ IsList(List')
         /\ List' \in [DOMAIN List' -> Pebble] /\ DOMAIN List' \subseteq Nat
<1>1. HeapInv' /\ buckets'[KernelHeap].bytes = buckets[KernelHeap].bytes
  BY HeapKept DEF StepOK
<1> QED
  BY <1>1 DEF HeapInv, HeapSound, Sound, IsList, List

(* The pebble kmalloc places in kernel_heap is what the caller asked for, and was
   nobody's. *)
LEMMA OwnedSplitPebble ==
  ASSUME ShapeInv, LockInv, HeapInv, Owned, NEW t \in Threads, StepOK(t), SplitPebble(t)
  PROVE  Owned'
<1>1. CallsInv /\ Others(t) /\ ClaimsOK(t) /\ pc[t] \in {"k_split", "n_split"}
  BY DEF ShapeInv, StepOK, Owned, SplitPebble
<1>2. CASE loc[t].cur = KernelHeap
  <2> DEFINE at == loc'[t].at
             w  == Wanted(loc[t].req)
  <2>1. /\ pc[t] = "k_split" /\ pc'[t] = "k_first" /\ live' = live
        /\ loc'[t].req = loc[t].req /\ loc'[t].cur = KernelHeap
        /\ loc'[t].old = loc[t].old /\ loc'[t].ret = loc[t].ret
        /\ Placed(List, List', at, w.size)
        /\ "ALIGNED" \in w.lflags => (at + PEBBLE_SZ) % w.alignment = 0
    BY <1>2, SplitHere
  <2>2. loc[t].ret = NULL /\ ProperRequest(loc[t].req) /\ InKind(loc[t].req)
    BY <1>1, <1>2, <2>1 DEF ClaimsOK, CallOK, AllocPCs, AtHeap
  <2>3. /\ at \in DOMAIN List' \ UsedAt(List) /\ UsedAt(List)' = UsedAt(List) \cup {at}
        /\ \A x \in UsedAt(List) : List'[x].size = List[x].size
        /\ List'[at].size >= w.size
    BY <2>1 DEF Placed, UsedAt
  <2>4. List'[at].size \in Nat /\ at \in Nat /\ w.size \in Nat
    BY <1>1, <2>3, HeapNext, CurShape, WantedShape DEF Pebble
  <2> HIDE DEF at, w
  <2>5. w.size >= loc[t].req.size /\ (at + PEBBLE_SZ) % loc[t].req.alignment = 0
    BY <2>1, <2>2, <2>4, WantedFits DEF w
  <2>6. Fits(List', at, loc[t].req)
    <3>1. List'[at].size >= loc[t].req.size
      BY <2>2, <2>3, <2>4, <2>5 DEF ProperRequest
    <3> QED
      BY <2>2, <2>5, <3>1 DEF Fits
  <2>7. ListKept(t)
    BY <1>1, <1>2, <2>1, <2>3, AloneInHeap DEF ListKept, CriticalPCs
  <2>8. CurOf(t)' = {at} /\ RetOf(t)' = {} /\ OldOf(t)' = OldOf(t) /\ GoodOf(t)' = {at}
    BY <2>1, <2>2 DEF CurOf, RetOf, OldOf, GoodOf, AtHeap, AllocPCs, at
  <2>9. OldOf(t) \subseteq UsedAt(List) /\ OldOf(t) \subseteq Has(t)
    BY <1>1 DEF ClaimsOK, Has
  <2>10. CallOK(t)'
    BY <2>1, <2>2 DEF CallOK, AtHeap
  <2>11. ClaimsOK(t)'
    BY <2>1, <2>3, <2>6, <2>8, <2>9, <2>10 DEF ClaimsOK, Has
  <2>12. Gains(t) /\ Gives(t)
    BY <2>1, <2>3, <2>8, <2>9 DEF Gains, Gives, Has, HeapLive
  <2> QED
    BY <1>1, <2>7, <2>11, <2>12, OwnedMoves
<1>3. CASE loc[t].cur # KernelHeap
  <2> DEFINE x == [loc[t] EXCEPT !.at = split_pebble(buckets[loc[t].cur].list, loc[t].at,
                                                     Wanted(loc[t].req)).at]
  <2>1. loc' = [loc EXCEPT ![t] = x] /\ live' = live /\ (Goto(t, "k_first") \/ Goto(t, "n_largest"))
    BY DEF SplitPebble
  <2>2. x.cur = loc[t].cur /\ x.old = loc[t].old /\ x.ret = loc[t].ret /\ x.req = loc[t].req
    BY <1>1 DEF CallsInv, LocalsShape
  <2> HIDE DEF x
  <2>3. loc'[t] = x /\ pc'[t] \in {"k_first", "n_largest"}
    BY <1>1, <2>1 DEF CallsInv, Goto
  <2>4. CurOf(t)' = {} /\ pc'[t] \in AllocPCs /\ pc[t] \in AllocPCs /\ ~AtHeap(t, {"k_split"})'
    BY <1>1, <1>3, <2>2, <2>3 DEF CurOf, AtHeap, AllocPCs
  <2> QED
    BY <1>1, <1>3, <2>1, <2>2, <2>3, <2>4, ListStays, WalksOn
<1> QED
  BY <1>2, <1>3

(* kmalloc hands out the pebble it has placed. *)
LEMMA OwnedWalkFirst ==
  ASSUME ShapeInv, LockInv, Owned, NEW t \in Threads, StepOK(t), WalkFirst(t)
  PROVE  Owned'
<1> DEFINE p == [b |-> loc[t].cur, at |-> loc[t].at]
<1>1. CallsInv /\ pc[t] = "k_first" /\ KmallocReturns(t, p) /\ loc[t].cur \in DOMAIN buckets
  BY DEF WalkFirst, ShapeInv, AtHand, Mapped
<1>2. PointerShape(p)
  BY <1>1 DEF ShapeInv, BucketsInv, PointerShape, IsPointer
<1>3. List' = List /\ pc[t] \in AllocPCs
  BY <1>1, ListStays DEF WritePCs, AllocPCs
<1>4. p # NULL /\ p.b = KernelHeap => AtHeap(t, {"k_first"}) /\ p.at = loc[t].at
  BY <1>1 DEF AtHeap
<1> QED
  BY <1>1, <1>2, <1>3, <1>4, KmallocGives

(* kmalloc goes on to the next bucket. *)
LEMMA OwnedWalkNext ==
  ASSUME ShapeInv, LockInv, Owned, NEW t \in Threads, StepOK(t), WalkNext(t)
  PROVE  Owned'
<1> DEFINE n == buckets[loc[t].cur].next
           x == [loc[t] EXCEPT !.cur = n]
<1>1. /\ CallsInv /\ pc[t] = "k_next" /\ live' = live /\ loc' = [loc EXCEPT ![t] = x]
      /\ Goto(t, IF n = NULL THEN "k_create" ELSE "k_lock")
  BY DEF WalkNext, ShapeInv
<1>2. x.old = loc[t].old /\ x.ret = loc[t].ret /\ x.req = loc[t].req
  BY <1>1 DEF CallsInv, LocalsShape
<1> HIDE DEF x
<1>3. loc'[t] = x /\ pc'[t] \in {"k_create", "k_lock"}
  BY <1>1 DEF CallsInv, Goto
<1>4. CurOf(t)' = {} /\ pc'[t] \in AllocPCs /\ pc[t] \in AllocPCs /\ ~AtHeap(t, {"k_split"})'
  BY <1>1, <1>3 DEF CurOf, AtHeap, AllocPCs, ShrinkPCs
<1> QED
  BY <1>1, <1>2, <1>3, <1>4, ListStays, WalksOn DEF WritePCs

(* kmalloc maps a bucket, or finds no memory and hands out nothing. *)
LEMMA OwnedCreateBucket ==
  ASSUME ShapeInv, LockInv, Owned, NEW t \in Threads, StepOK(t), CreateBucket(t)
  PROVE  Owned'
<1>1. CallsInv /\ pc[t] = "k_create" /\ pc[t] \in AllocPCs
  BY DEF CreateBucket, ShapeInv, AllocPCs
<1>2. List' = List /\ Others(t)
  BY <1>1, ListStays DEF WritePCs
<1>3. CASE KmallocReturns(t, NULL)
  <2>1. PointerShape(NULL)
    BY DEF PointerShape
  <2> QED
    BY <1>1, <1>2, <1>3, <2>1, KmallocGives
<1>4. CASE \E b \in BucketIds \ DOMAIN buckets : loc' = [loc EXCEPT ![t].cur = b]
                                               /\ Goto(t, "i_lock") /\ live' = live
  <2>1. PICK b \in BucketIds \ DOMAIN buckets : loc' = [loc EXCEPT ![t].cur = b]
    BY <1>4
  <2> DEFINE x == [loc[t] EXCEPT !.cur = b]
  <2>2. x.old = loc[t].old /\ x.ret = loc[t].ret /\ x.req = loc[t].req
    BY <1>1 DEF CallsInv, LocalsShape
  <2>3. loc'[t] = x
    BY <1>1, <2>1 DEF CallsInv
  <2> HIDE DEF x
  <2>4. pc'[t] = "i_lock" /\ live' = live
    BY <1>1, <1>4 DEF CallsInv, Goto
  <2>5. CurOf(t)' = {} /\ pc'[t] \in AllocPCs /\ ~AtHeap(t, {"k_split"})'
    BY <2>4 DEF CurOf, AtHeap, AllocPCs, ShrinkPCs
  <2> QED
    BY <1>1, <1>2, <2>2, <2>3, <2>4, <2>5, WalksOn
<1> QED
  BY <1>3, <1>4 DEF CreateBucket

(* Linking a bucket moves no pebble. *)
LEMMA OwnedInsertLink ==
  ASSUME ShapeInv, LockInv, Owned, NEW t \in Threads, StepOK(t), InsertLink(t)
  PROVE  Owned'
<1>1. CallsInv /\ pc[t] = "i_link" /\ loc' = loc /\ live' = live /\ Goto(t, "n_lock")
  BY DEF InsertLink, ShapeInv
<1>2. pc'[t] = "n_lock"
  BY <1>1 DEF CallsInv, Goto
<1>3. CurOf(t)' = {} /\ pc'[t] \in AllocPCs /\ pc[t] \in AllocPCs /\ ~AtHeap(t, {"k_split"})'
  BY <1>1, <1>2 DEF CurOf, AtHeap, AllocPCs, ShrinkPCs
<1> QED
  BY <1>1, <1>3, ListStays, WalksOn DEF WritePCs

(* Nor does the search of a bucket that kmalloc has made. *)
LEMMA OwnedNewTry ==
  ASSUME ShapeInv, LockInv, Owned, NEW t \in Threads, StepOK(t), NewTry(t)
  PROVE  Owned'
<1>1. CallsInv /\ pc[t] = "n_try" /\ pc[t] \in AllocPCs
  BY DEF NewTry, ShapeInv, AllocPCs
<1>2. List' = List /\ Others(t)
  BY <1>1, ListStays DEF WritePCs
<1>3. CASE KmallocReturns(t, NULL)
  <2>1. PointerShape(NULL)
    BY DEF PointerShape
  <2> QED
    BY <1>1, <1>2, <1>3, <2>1, KmallocGives
<1>4. CASE Found(t, "n_split") \/ FoundNever(t)
  <2>1. /\ loc'[t].old = loc[t].old /\ loc'[t].ret = loc[t].ret /\ loc'[t].req = loc[t].req
        /\ live' = live
    <3>1. CASE Found(t, "n_split")
      <4> DEFINE x == [loc[t] EXCEPT !.at = FirstFound(buckets[loc[t].cur], Wanted(loc[t].req))]
      <4>1. x.old = loc[t].old /\ x.ret = loc[t].ret /\ x.req = loc[t].req
        BY <1>1 DEF CallsInv, LocalsShape
      <4>2. loc'[t] = x /\ live' = live
        BY <1>1, <3>1 DEF Found, CallsInv
      <4> QED
        BY <4>1, <4>2
    <3>2. CASE FoundNever(t)
      BY <3>2 DEF FoundNever
    <3> QED
      BY <1>4, <3>1, <3>2
  <2>2. pc'[t] \in {"n_split", "hang"}
    BY <1>1, <1>4 DEF CallsInv, Goto, Found, FoundNever
  <2>3. CurOf(t)' = {} /\ pc'[t] \in AllocPCs /\ ~AtHeap(t, {"k_split"})'
    BY <2>2 DEF CurOf, AtHeap, AllocPCs, ShrinkPCs
  <2> QED
    BY <1>1, <1>2, <2>1, <2>3, WalksOn
<1> QED
  BY <1>3, <1>4 DEF NewTry

(* Nor does setting largest in it. *)
LEMMA OwnedNewLargest ==
  ASSUME ShapeInv, LockInv, Owned, NEW t \in Threads, StepOK(t), NewLargest(t)
  PROVE  Owned'
<1>1. CallsInv /\ pc[t] = "n_largest" /\ loc' = loc /\ live' = live /\ Goto(t, "n_first")
  BY DEF NewLargest, ShapeInv
<1>2. pc'[t] = "n_first"
  BY <1>1 DEF CallsInv, Goto
<1>3. CurOf(t)' = {} /\ pc'[t] \in AllocPCs /\ pc[t] \in AllocPCs /\ ~AtHeap(t, {"k_split"})'
  BY <1>1, <1>2 DEF CurOf, AtHeap, AllocPCs, ShrinkPCs
<1> QED
  BY <1>1, <1>3, ListStays, WalksOn DEF WritePCs

(* Nor does loading ret->next there. *)
LEMMA OwnedNewFirst ==
  ASSUME ShapeInv, LockInv, Owned, NEW t \in Threads, StepOK(t), NewFirst(t)
  PROVE  Owned'
<1> DEFINE x == [loc[t] EXCEPT !.reg = buckets[loc[t].cur].list[loc[t].at].next]
<1>1. /\ CallsInv /\ pc[t] = "n_first" /\ loc' = [loc EXCEPT ![t] = x]
      /\ live' = live /\ Goto(t, "n_store")
  BY DEF NewFirst, ShapeInv
<1>2. pc'[t] = "n_store" /\ loc'[t] = x
  BY <1>1 DEF CallsInv, Goto
<1>3. x.old = loc[t].old /\ x.ret = loc[t].ret /\ x.req = loc[t].req
  BY <1>1 DEF CallsInv, LocalsShape
<1>4. CurOf(t)' = {} /\ pc'[t] \in AllocPCs /\ pc[t] \in AllocPCs /\ ~AtHeap(t, {"k_split"})'
  BY <1>1, <1>2 DEF CurOf, AtHeap, AllocPCs, ShrinkPCs
<1> QED
  BY <1>1, <1>2, <1>3, <1>4, ListStays, WalksOn DEF WritePCs

(* What kmalloc places in it is no pebble of kernel_heap. *)
LEMMA OwnedNewFirstStore ==
  ASSUME ShapeInv, LockInv, Owned, NEW t \in Threads, StepOK(t), NewFirstStore(t)
  PROVE  Owned'
<1> DEFINE p == [b |-> loc[t].cur, at |-> loc[t].at]
<1>1. CallsInv /\ pc[t] = "n_store" /\ KmallocReturns(t, p) /\ loc[t].cur \in DOMAIN buckets
  BY DEF NewFirstStore, ShapeInv, Mapped
<1>2. PointerShape(p)
  BY <1>1 DEF ShapeInv, BucketsInv, PointerShape, IsPointer
<1>3. List' = List /\ pc[t] \in AllocPCs
  BY <1>1, ListStays DEF WritePCs, AllocPCs
<1>4. p.b # KernelHeap
  BY <1>1 DEF LockInv, Away, AwayPCs
<1> QED
  BY <1>1, <1>2, <1>3, <1>4, KmallocGives

(* What mfree marks as free in kernel_heap is its own to free. *)
LEMMA MarkHere ==
  ASSUME ShapeInv, LockInv, HeapInv, NEW t \in Threads, FreeMark(t), loc[t].cur = KernelHeap
  PROVE  loc[t].at \in DOMAIN List /\ List' = Marked(List, loc[t].at, {})
<1> DEFINE Q == Marked(List, loc[t].at, {})
<1>1. loc[t].at \in DOMAIN List /\ buckets' = [buckets EXCEPT ![KernelHeap].list = Q]
  BY DEF FreeMark, AtHand, List, Marked
<1> HIDE DEF Q
<1>2. List' = Q
  BY <1>1, HeapNow DEF List, HasShape
<1> QED
  BY <1>1, <1>2 DEF Q

(* A pebble that is freed has no owner. *)
LEMMA OwnedFreeMark ==
  ASSUME ShapeInv, LockInv, HeapInv, Owned, NEW t \in Threads, StepOK(t), FreeMark(t)
  PROVE  Owned'
<1>1. CallsInv /\ Others(t) /\ pc[t] = "f_mark" /\ loc' = loc /\ live' = live /\ Goto(t, "f_melt")
  BY DEF FreeMark, ShapeInv, StepOK
<1>2. pc'[t] = "f_melt"
  BY <1>1 DEF CallsInv, Goto
<1>3. ListKept(t)
  <2>1. CASE loc[t].cur = KernelHeap
    <3> DEFINE a == loc[t].at
    <3>1. a \in DOMAIN List /\ List' = Marked(List, a, {})
      BY <2>1, MarkHere
    <3>2. UsedAt(List') = UsedAt(List) \ {a} /\ \A x \in DOMAIN List : List'[x].size = List[x].size
      BY <3>1, HeapNow, MarkFree, MarkEffect
    <3>3. CurOf(t) = {a} /\ \A u \in Threads : u # t => ~HoldsHeap(u)
      BY <1>1, <2>1, AloneInHeap DEF CurOf, AtHeap, CriticalPCs
    <3> QED
      BY <3>2, <3>3 DEF ListKept, UsedAt
  <2>2. CASE loc[t].cur # KernelHeap
    BY <2>2, ListStays
  <2> QED
    BY <2>1, <2>2
<1>4. CurOf(t)' = {} /\ pc'[t] \notin AllocPCs \cup ShrinkPCs
  BY <1>2 DEF CurOf, AtHeap, AllocPCs, ShrinkPCs
<1> QED
  BY <1>1, <1>3, <1>4, LetsGo

(* A merge leaves the pebbles that are in use alone. *)
LEMMA AbsorbKeeps ==
  ASSUME NEW bk, HasShape(bk), Sound(bk.list, bk.bytes), NEW a \in DOMAIN bk.list
  PROVE  LET Q == absorb_next(bk, a).list
         IN  UsedAt(Q) = UsedAt(bk.list) /\ \A x \in UsedAt(Q) : Q[x].size = bk.list[x].size
<1> DEFINE P == bk.list
           Q == absorb_next(bk, a).list
<1>1. bk.bytes \in Nat
  BY DEF HasShape
<1>2. CASE Q = P
  BY <1>2
<1>3. CASE Q # P
  <2>1. a \in FreeAt(P) /\ P[a].next \in FreeAt(P) /\ Q = SwallowNext(P, a)
    BY <1>3, AbsorbCases
  <2>2. UsedAt(Q) = UsedAt(P) /\ \A x \in DOMAIN Q \ {a} : Q[x].size = P[x].size
    <3> DEFINE S == SwallowNext(P, a)
    <3>1. UsedAt(S) = UsedAt(P) /\ \A x \in DOMAIN S \ {a} : S[x].size = P[x].size
      BY <1>1, <2>1, SwallowEffect
    <3>2. Q = S
      BY <2>1
    <3> HIDE DEF Q, S
    <3> QED
      BY <3>1, <3>2
  <2>3. a \notin UsedAt(P)
    BY <2>1 DEF UsedAt, FreeAt
  <2>4. UsedAt(Q) \subseteq DOMAIN Q
    BY DEF UsedAt
  <2> HIDE DEF P, Q
  <2>5. \A x \in UsedAt(Q) : Q[x].size = P[x].size
    BY <2>2, <2>3, <2>4
  <2> QED
    BY <2>2, <2>5 DEF P, Q
<1> QED
  BY <1>2, <1>3

(* The pebble before a pebble is one of the list. *)
LEMMA BeforeIn ==
  ASSUME NEW P, NEW bytes, Sound(P, bytes), NEW a \in DOMAIN P
  PROVE  P[a].prev # NULL => P[a].prev \in DOMAIN P
  BY DEF Sound, ListWellFormed, LinksAgree

(* Nor does melt_prev touch what is in use. *)
LEMMA MeltKeeps ==
  ASSUME NEW bk, HasShape(bk), Sound(bk.list, bk.bytes), NEW a \in DOMAIN bk.list
  PROVE  LET Q == melt_prev(bk, a).list
         IN  UsedAt(Q) = UsedAt(bk.list) /\ \A x \in UsedAt(Q) : Q[x].size = bk.list[x].size
<1>1. CASE bk.list[a].prev = NULL
  BY <1>1 DEF melt_prev
<1>2. CASE bk.list[a].prev # NULL
  <2>1. bk.list[a].prev \in DOMAIN bk.list
    BY <1>2, BeforeIn
  <2>2. melt_prev(bk, a) = absorb_next(bk, bk.list[a].prev)
    BY <1>2 DEF melt_prev
  <2> QED
    BY <2>1, <2>2, AbsorbKeeps
<1> QED
  BY <1>1, <1>2

(* What mfree's merges do to kernel_heap. *)
LEMMA MergeHere ==
  ASSUME ShapeInv, LockInv, HeapInv, NEW t \in Threads, FreeMelt(t) \/ FreeAbsorb(t),
         loc[t].cur = KernelHeap
  PROVE  /\ loc[t].at \in DOMAIN List
         /\ FreeMelt(t) =>
              /\ buckets'[KernelHeap] = melt_prev(buckets[KernelHeap], loc[t].at)
              /\ loc'[t].at = MeltedInto(buckets[KernelHeap], loc[t].at)
              /\ loc'[t].cur = KernelHeap /\ pc'[t] = "f_absorb"
         /\ FreeAbsorb(t) =>
              /\ List' = absorb_next(buckets[KernelHeap], loc[t].at).list
              /\ buckets'[KernelHeap] = Unlocked(absorb_next(buckets[KernelHeap], loc[t].at))
              /\ pc'[t] = "f_check"
<1> DEFINE h == buckets[KernelHeap]
<1>0. KernelHeap \in DOMAIN buckets /\ HasShape(h) /\ CallsInv
  BY HeapNow DEF ShapeInv
<1>1. loc[t].at \in DOMAIN List
  BY DEF FreeMelt, FreeAbsorb, AtHand, List
<1>2. ASSUME FreeMelt(t)
      PROVE  /\ buckets'[KernelHeap] = melt_prev(h, loc[t].at)
             /\ loc'[t].at = MeltedInto(h, loc[t].at)
             /\ loc'[t].cur = KernelHeap /\ pc'[t] = "f_absorb"
  <2> DEFINE x == [loc[t] EXCEPT !.at = MeltedInto(h, @)]
             m == melt_prev(h, loc[t].at)
  <2>1. /\ buckets' = [buckets EXCEPT ![KernelHeap] = m]
        /\ loc' = [loc EXCEPT ![t] = x] /\ Goto(t, "f_absorb")
    BY <1>2 DEF FreeMelt
  <2>2. x.cur = KernelHeap /\ x.at = MeltedInto(h, loc[t].at)
    BY <1>0 DEF CallsInv, LocalsShape
  <2> HIDE DEF x, m
  <2>3. buckets'[KernelHeap] = m /\ loc'[t] = x /\ pc'[t] = "f_absorb"
    BY <1>0, <2>1 DEF CallsInv, Goto
  <2> QED
    BY <2>2, <2>3 DEF m
<1>3. ASSUME FreeAbsorb(t)
      PROVE  /\ List' = absorb_next(h, loc[t].at).list
             /\ buckets'[KernelHeap] = Unlocked(absorb_next(h, loc[t].at))
             /\ pc'[t] = "f_check"
  <2> DEFINE m == absorb_next(h, loc[t].at)
  <2>1. buckets' = [buckets EXCEPT ![KernelHeap] = Unlocked(m)] /\ Goto(t, "f_check")
    BY <1>3 DEF FreeAbsorb
  <2>2. HasShape(m)
    BY <1>0, AbsorbShape
  <2> HIDE DEF m
  <2>3. buckets'[KernelHeap] = Unlocked(m) /\ pc'[t] = "f_check"
    BY <1>0, <2>1 DEF CallsInv, Goto
  <2>4. List' = m.list
    BY <2>2, <2>3, UnlockedShape DEF List
  <2> QED
    BY <2>3, <2>4 DEF m
<1> QED
  BY <1>1, <1>2, <1>3

(* Merging takes no pebble from its owner. *)
LEMMA OwnedMerge ==
  ASSUME ShapeInv, LockInv, HeapInv, Owned, NEW t \in Threads, StepOK(t),
         FreeMelt(t) \/ FreeAbsorb(t)
  PROVE  Owned'
<1>1. /\ CallsInv /\ Others(t) /\ pc[t] \in {"f_melt", "f_absorb"} /\ live' = live
      /\ Goto(t, "f_absorb") \/ Goto(t, "f_check")
  BY DEF FreeMelt, FreeAbsorb, ShapeInv, StepOK
<1>2. pc'[t] \in {"f_absorb", "f_check"}
  BY <1>1 DEF CallsInv, Goto
<1>3. loc'[t].ret = loc[t].ret /\ loc'[t].req = loc[t].req
  <2>1. CASE FreeMelt(t)
    <3> DEFINE x == [loc[t] EXCEPT !.at = MeltedInto(buckets[loc[t].cur], @)]
    <3>1. x.ret = loc[t].ret /\ x.req = loc[t].req
      BY <1>1 DEF CallsInv, LocalsShape
    <3>2. loc'[t] = x
      BY <1>1, <2>1 DEF FreeMelt, CallsInv
    <3> QED
      BY <3>1, <3>2
  <2>2. CASE FreeAbsorb(t)
    BY <2>2 DEF FreeAbsorb
  <2> QED
    BY <2>1, <2>2
<1>4. ListKept(t)
  <2>1. CASE loc[t].cur = KernelHeap
    <3> DEFINE h == buckets[KernelHeap]
               a == loc[t].at
    <3>1. a \in DOMAIN h.list /\ HasShape(h) /\ Sound(h.list, h.bytes)
      BY <2>1, MergeHere, HeapNow DEF List
    <3>2. UsedAt(List') = UsedAt(List) /\ \A x \in UsedAt(List') : List'[x].size = List[x].size
      <4>1. CASE FreeMelt(t)
        <5>1. List' = melt_prev(h, a).list
          BY <2>1, <4>1, MergeHere DEF List
        <5> QED
          BY <3>1, <5>1, MeltKeeps DEF List
      <4>2. CASE FreeAbsorb(t)
        <5>1. List' = absorb_next(h, a).list
          BY <2>1, <4>2, MergeHere
        <5> QED
          BY <3>1, <5>1, AbsorbKeeps DEF List
      <4> QED
        BY <4>1, <4>2
    <3>3. \A u \in Threads : u # t => ~HoldsHeap(u)
      BY <1>1, <2>1, AloneInHeap DEF CriticalPCs
    <3> QED
      BY <3>2, <3>3 DEF ListKept, UsedAt
  <2>2. CASE loc[t].cur # KernelHeap
    BY <2>2, ListStays
  <2> QED
    BY <2>1, <2>2
<1>5. CurOf(t)' = {} /\ pc'[t] \notin AllocPCs \cup ShrinkPCs
  BY <1>2 DEF CurOf, AtHeap, AllocPCs, ShrinkPCs
<1> QED
  BY <1>1, <1>3, <1>4, <1>5, LetsGo

(* mfree looks at the flags of the bucket it has unlocked, and returns or looks
   further. *)
LEMMA OwnedFreeCheck ==
  ASSUME ShapeInv, LockInv, Owned, NEW t \in Threads, StepOK(t), FreeCheck(t)
  PROVE  Owned'
<1>1. CallsInv /\ pc[t] = "f_check"
  BY DEF FreeCheck, ShapeInv
<1>2. List' = List /\ Others(t) /\ ListKept(t)
  BY <1>1, ListStays DEF WritePCs
<1>3. CASE MfreeReturns(t)
  BY <1>1, <1>2, <1>3, MfreeGives
<1>4. CASE Goto(t, "f_first") /\ loc' = loc /\ live' = live
  <2>1. pc'[t] = "f_first"
    BY <1>1, <1>4 DEF CallsInv, Goto
  <2>2. CurOf(t)' = {} /\ pc'[t] \notin AllocPCs \cup ShrinkPCs
    BY <2>1 DEF CurOf, AtHeap, AllocPCs, ShrinkPCs
  <2> QED
    BY <1>1, <1>2, <1>4, <2>2, LetsGo
<1> QED
  BY <1>3, <1>4 DEF FreeCheck

(* Where mfree goes while it looks at the pebbles of a bucket. *)
LookPCs == LoadPCs \cup TestPCs \cup {"u_walk", "r_prev"}

(* A look at a bucket goes on to another, or mfree returns. *)
LEMMA Looking ==
  ASSUME CallsInv, NEW t \in Threads, LoadFirst(t) \/ TestFirst(t) \/ WalkLargest(t)
  PROVE  \/ MfreeReturns(t)
         \/ /\ pc'[t] \in LookPCs /\ live' = live
            /\ loc'[t].ret = loc[t].ret /\ loc'[t].req = loc[t].req
            /\ loc'[t].old = loc[t].old /\ loc'[t].cur = loc[t].cur
<1>0. LocalsShape(loc[t]) /\ DOMAIN pc = Threads /\ DOMAIN loc = Threads
  BY DEF CallsInv
<1> DEFINE Same == /\ loc'[t].ret = loc[t].ret /\ loc'[t].req = loc[t].req
                   /\ loc'[t].old = loc[t].old /\ loc'[t].cur = loc[t].cur
<1>1. loc' = loc => Same
  OBVIOUS
<1>2. ASSUME NEW a, loc' = [loc EXCEPT ![t].at = a]
      PROVE  Same
  <2>1. loc'[t] = [loc[t] EXCEPT !.at = a]
    BY <1>0, <1>2
  <2> QED
    BY <1>0, <2>1 DEF LocalsShape
<1> HIDE DEF Same
<1>3. \A l : Goto(t, l) => pc'[t] = l
  BY <1>0 DEF Goto
<1>4. CASE LoadFirst(t)
  <2>1. pc'[t] \in LookPCs /\ live' = live
    BY <1>3, <1>4 DEF LoadFirst, LoadPCs, TestPCs, LookPCs
  <2>2. loc' = loc \/ loc' = [loc EXCEPT ![t].at = buckets[loc[t].cur].first]
    BY <1>4 DEF LoadFirst
  <2>3. Same
    BY <1>1, <1>2, <2>2
  <2> QED
    BY <2>1, <2>3 DEF Same
<1>5. CASE TestFirst(t)
  <2>1. pc'[t] \in LookPCs /\ live' = live
    BY <1>3, <1>5 DEF TestFirst, LoadPCs, TestPCs, LookPCs
  <2>2. loc' = loc \/ loc' = [loc EXCEPT ![t].at = FirstPebble]
    BY <1>5 DEF TestFirst
  <2>3. Same
    BY <1>1, <1>2, <2>2
  <2> QED
    BY <2>1, <2>3 DEF Same
<1>6. CASE WalkLargest(t)
  <2>1. PICK n : IF n = NULL THEN MfreeReturns(t)
                 ELSE loc' = [loc EXCEPT ![t].at = n] /\ UNCHANGED <<pc, live>>
    BY <1>6 DEF WalkLargest
  <2>2. pc[t] \in LookPCs
    BY <1>6 DEF WalkLargest, LookPCs
  <2>3. n # NULL => Same
    BY <1>2, <2>1
  <2> QED
    BY <2>1, <2>2, <2>3 DEF Same
<1> QED
  BY <1>4, <1>5, <1>6

(* A look at a bucket touches no block of kernel_heap. *)
LEMMA OwnedLooks ==
  ASSUME ShapeInv, LockInv, Owned, NEW t \in Threads, StepOK(t),
         LoadFirst(t) \/ TestFirst(t) \/ WalkLargest(t)
  PROVE  Owned'
<1>1. CallsInv /\ pc[t] \in LookPCs
  BY DEF LoadFirst, TestFirst, WalkLargest, ShapeInv, LookPCs
<1>2. List' = List /\ Others(t) /\ ListKept(t)
  BY <1>1, ListStays DEF WritePCs, LookPCs, LoadPCs, TestPCs
<1>3. CASE MfreeReturns(t)
  BY <1>1, <1>2, <1>3, MfreeGives
<1>4. CASE /\ pc'[t] \in LookPCs /\ live' = live
           /\ loc'[t].ret = loc[t].ret /\ loc'[t].req = loc[t].req
  <2>1. CurOf(t)' = {} /\ pc'[t] \notin AllocPCs \cup ShrinkPCs
    BY <1>4 DEF CurOf, AtHeap, AllocPCs, ShrinkPCs, LookPCs, LoadPCs, TestPCs
  <2> QED
    BY <1>1, <1>2, <1>4, <2>1, LetsGo
<1> QED
  BY <1>1, <1>3, <1>4, Looking

(* A bucket that is removed is not kernel_heap. *)
LEMMA OwnedRemove ==
  ASSUME ShapeInv, LockInv, Owned, NEW t \in Threads, StepOK(t),
         RemovePrev(t) \/ RemoveNext(t) \/ RemoveUnmap(t)
  PROVE  Owned'
<1>1. CallsInv /\ pc[t] \in {"r_prev", "r_next", "r_unmap"}
  BY DEF RemovePrev, RemoveNext, RemoveUnmap, ShapeInv
<1>2. List' = List /\ Others(t) /\ ListKept(t)
  BY <1>1, ListStays DEF WritePCs
<1>3. CASE RemoveUnmap(t)
  <2>1. MfreeReturns(t)
    BY <1>3 DEF RemoveUnmap
  <2> QED
    BY <1>1, <1>2, <2>1, MfreeGives
<1>4. CASE RemovePrev(t) \/ RemoveNext(t)
  <2>1. loc' = loc /\ live' = live /\ (Goto(t, "r_next") \/ Goto(t, "r_unmap"))
    BY <1>4 DEF RemovePrev, RemoveNext
  <2>2. pc'[t] \in {"r_next", "r_unmap"}
    BY <1>1, <2>1 DEF CallsInv, Goto
  <2>3. CurOf(t)' = {} /\ pc'[t] \notin AllocPCs \cup ShrinkPCs
    BY <2>2 DEF CurOf, AtHeap, AllocPCs, ShrinkPCs
  <2> QED
    BY <1>1, <1>2, <2>1, <2>3, LetsGo
<1> QED
  BY <1>3, <1>4

(* A thread that faults owns less. *)
LEMMA OwnedWild ==
  ASSUME ShapeInv, LockInv, Owned, NEW t \in Threads, StepOK(t), Wild(t)
  PROVE  Owned'
<1>1. CallsInv /\ buckets' = buckets /\ loc' = loc /\ live' = live /\ Goto(t, "fault")
  BY DEF Wild, ShapeInv
<1>2. Others(t) /\ List' = List /\ ListKept(t)
  BY <1>1, ListSame DEF StepOK, List
<1>3. pc'[t] = "fault"
  BY <1>1 DEF CallsInv, Goto
<1>4. CurOf(t)' = {} /\ pc'[t] \notin AllocPCs \cup ShrinkPCs
  BY <1>3 DEF CurOf, AtHeap, AllocPCs, ShrinkPCs
<1> QED
  BY <1>1, <1>2, <1>4, LetsGo

(* What realloc does to kernel_heap when it makes a block smaller. *)
LEMMA ShrinkHere ==
  ASSUME ShapeInv, LockInv, HeapInv, Owned, NEW t \in Threads, ShrinkSplit(t),
         loc[t].cur = KernelHeap
  PROVE  /\ loc[t].at \in UsedAt(List) /\ CurOf(t) = {loc[t].at} /\ ProperRequest(loc[t].req)
         /\ Fits(List, loc[t].at, loc[t].req)
         /\ buckets'[KernelHeap] =
              Unlocked(shrink_pebble(buckets[KernelHeap], loc[t].at, loc[t].req.size))
         /\ Shrunk(List, List', loc[t].at, loc[t].req.size)
<1> DEFINE a == loc[t].at
           n == loc[t].req.size
           h == buckets[KernelHeap]
           Q == SplitPlain(List, a, n)
           m == shrink_pebble(h, a, n)
<1>1. pc[t] = "s_split" /\ buckets' = [buckets EXCEPT ![KernelHeap] = Unlocked(m)] /\ ClaimsOK(t)
  BY DEF ShrinkSplit, Owned
<1>2. CurOf(t) = {a} /\ CurOf(t) \subseteq GoodOf(t) /\ CurOf(t) \subseteq Has(t)
  BY <1>1 DEF CurOf, GoodOf, Has, AtHeap, ShrinkPCs
<1>3. a \in UsedAt(List) /\ Fits(List, a, loc[t].req) /\ ProperRequest(loc[t].req)
  BY <1>1, <1>2 DEF ClaimsOK, CallOK, ShrinkPCs
<1>4. n \in Nat /\ n <= List[a].size
  <2>1. List[a].size \in Nat /\ n \in Nat
    BY <1>3, HeapNow DEF UsedAt, Pebble, ProperRequest
  <2> QED
    BY <1>3, <2>1 DEF Fits
<1>5. Shrunk(List, Q, a, n)
  BY <1>3, <1>4, HeapNow, PlainShrinks
<1>6. m = [h EXCEPT !.list = Q]
  BY DEF shrink_pebble, List
<1> HIDE DEF Q, m
<1>7. HasShape(m) /\ m.list = Q
  BY <1>6, HeapNow, ListShape
<1>8. buckets'[KernelHeap] = Unlocked(m)
  BY <1>1, HeapNow
<1>9. List' = Q
  BY <1>7, <1>8, UnlockedShape DEF List
<1> QED
  BY <1>2, <1>3, <1>5, <1>8, <1>9 DEF m

(* realloc hands back the block that it has made smaller. *)
LEMMA OwnedShrinkSplit ==
  ASSUME ShapeInv, LockInv, HeapInv, Owned, NEW t \in Threads, StepOK(t), ShrinkSplit(t)
  PROVE  Owned'
<1> DEFINE p == [b |-> loc[t].cur, at |-> loc[t].at]
<1>1. /\ CallsInv /\ Others(t) /\ pc[t] = "s_split" /\ Goto(t, "idle")
      /\ loc' = [loc EXCEPT ![t] = NoLocals] /\ live' = live \cup {Handed(t, p)}
  BY DEF ShrinkSplit, ShapeInv, StepOK
<1>2. pc'[t] = "idle" /\ loc'[t] = NoLocals
  BY <1>1 DEF CallsInv, Goto
<1>3. p.b = loc[t].cur /\ p.at = loc[t].at
  OBVIOUS
<1>4. ProperRequest(loc[t].req)
  BY <1>1 DEF Owned, ClaimsOK, CallOK, ShrinkPCs
<1> HIDE DEF p
<1>5. CASE loc[t].cur = KernelHeap
  <2>1. /\ loc[t].at \in UsedAt(List) /\ CurOf(t) = {loc[t].at}
        /\ Fits(List, loc[t].at, loc[t].req)
        /\ Shrunk(List, List', loc[t].at, loc[t].req.size)
    BY <1>5, ShrinkHere
  <2>2. ListKept(t)
    <3>1. \A u \in Threads : u # t => ~HoldsHeap(u)
      BY <1>1, <1>5, AloneInHeap DEF CriticalPCs
    <3> QED
      BY <2>1, <3>1 DEF ListKept, Shrunk, UsedAt
  <2>3. loc[t].at \in UsedAt(List)' /\ Fits(List', loc[t].at, loc[t].req)
    BY <2>1 DEF Shrunk, Fits, UsedAt
  <2> QED
    BY <1>1, <1>2, <1>3, <1>4, <2>1, <2>2, <2>3, HandsOut DEF Has
<1>6. CASE loc[t].cur # KernelHeap
  BY <1>1, <1>2, <1>3, <1>4, <1>6, ListStays, HandsOut
<1> QED
  BY <1>5, <1>6

(* A call on a block takes the block over from the caller. *)
LEMMA TakesOver ==
  ASSUME CallsInv, Owned, NEW t \in Threads, Others(t), List' = List,
         NEW k \in live, live' = live \ {k},
         Has(t)' \subseteq (IF k.p.b = KernelHeap THEN {k.p.at} ELSE {}),
         (CurOf(t) \cap (OldOf(t) \cup RetOf(t)))' = {},
         \A a \in GoodOf(t)' : Fits(List, a, loc'[t].req), CallOK(t)'
  PROVE  Owned'
<1>1. ListKept(t) /\ UsedAt(List)' = UsedAt(List)
  BY ListSame
<1>2. k.p.b = KernelHeap => k \in HeapLive \ live' /\ k.p.at \in UsedAt(List)
  BY DEF HeapLive, Owned, BlockOK
<1>3. ClaimsOK(t)'
  BY <1>1, <1>2 DEF ClaimsOK
<1>4. Gains(t) /\ Gives(t)
  BY <1>2 DEF Gains, Gives, HeapLive
<1> QED
  BY <1>1, <1>3, <1>4, OwnedMoves

(* The requests callers make are proper ones. *)
LEMMA OwnedKmalloc ==
  ASSUME ShapeInv, LockInv, Owned, NEW t \in Threads, StepOK(t), Kmalloc(t)
  PROVE  Owned'
<1>1. PICK size \in Sizes, flags \in FlagSets, alignment \in Alignments \cup {1} :
        /\ ("ALIGNED" \in flags) <=> (alignment # 1)
        /\ StartKmalloc(t, "kmalloc",
             [size |-> size, alignment |-> alignment, flags |-> Default(flags)], NULL)
  BY DEF Kmalloc
<1> DEFINE req == [size |-> size, alignment |-> alignment, flags |-> Default(flags)]
           x == [NoLocals EXCEPT !.op = "kmalloc", !.req = req, !.cur = KernelHeap, !.old = NULL]
<1>2. ProperRequest(req)
  <2>1. size \in Nat \ {0}
    BY HeapAssumptions DEF SizeAssumption
  <2>2. alignment \in {1, 2, 4, 8, 16, 32} \cup WantedAlignments
    BY HeapAssumptions DEF AlignAssumption, WantedAlignments
  <2>3. "ALIGNED" \in flags => "ALIGNED" \in req.flags
    BY DEF Default
  <2>4. req.size = size /\ req.alignment = alignment
    OBVIOUS
  <2> HIDE DEF req
  <2> QED
    BY <1>1, <2>1, <2>2, <2>3, <2>4 DEF ProperRequest
<1> HIDE DEF req
<1>3. x.req = req /\ x.old = NULL /\ x.ret = NULL
  BY DEF NoLocals
<1>4. loc' = [loc EXCEPT ![t] = x] /\ Goto(t, "k_lock") /\ CallsInv
  BY <1>1 DEF StartKmalloc, req, ShapeInv
<1> HIDE DEF x
<1>5. loc'[t] = x /\ pc'[t] = "k_lock" /\ pc[t] = "idle" /\ live' = live
  BY <1>4 DEF CallsInv, Goto, Kmalloc
<1>6. List' = List /\ Others(t) /\ ListKept(t)
  BY <1>5, ListStays DEF WritePCs
<1>7. CurOf(t)' = {} /\ OldOf(t)' = {} /\ RetOf(t)' = {} /\ GoodOf(t)' = {} /\ Has(t)' = {}
  BY <1>3, <1>5 DEF CurOf, OldOf, RetOf, GoodOf, Has, AtHeap, ShrinkPCs
<1>8. CallOK(t)'
  BY <1>2, <1>3, <1>5 DEF CallOK, AtHeap
<1>9. ClaimsOK(t)' /\ Gains(t) /\ Gives(t)
  BY <1>5, <1>7, <1>8 DEF ClaimsOK, Gains, Gives, HeapLive
<1> QED
  BY <1>4, <1>6, <1>9, OwnedMoves

(* mfree answers for the block it is called with. *)
LEMMA OwnedMfree ==
  ASSUME ShapeInv, LockInv, Owned, NEW t \in Threads, StepOK(t), Mfree(t)
  PROVE  Owned'
<1>1. PICK k \in live :
        /\ live' = live \ {k}
        /\ loc' = [loc EXCEPT ![t] = [NoLocals EXCEPT !.op = "mfree", !.cur = k.p.b,
                                                      !.at = k.p.at]]
  BY DEF Mfree
<1> DEFINE x == [NoLocals EXCEPT !.op = "mfree", !.cur = k.p.b, !.at = k.p.at]
<1>2. x.cur = k.p.b /\ x.at = k.p.at /\ x.old = NULL /\ x.ret = NULL
  BY DEF NoLocals
<1>3. CallsInv /\ loc'[t] = x /\ pc'[t] = "f_lock" /\ pc[t] = "idle"
  BY <1>1 DEF ShapeInv, CallsInv, Goto, Mfree
<1> HIDE DEF x
<1>4. List' = List /\ Others(t)
  BY <1>3, ListStays DEF WritePCs
<1>5. OldOf(t)' = {} /\ RetOf(t)' = {} /\ GoodOf(t)' = {} /\ CallOK(t)'
  BY <1>2, <1>3 DEF OldOf, RetOf, GoodOf, CallOK, AtHeap, AllocPCs, ShrinkPCs
<1>6. Has(t)' \subseteq (IF k.p.b = KernelHeap THEN {k.p.at} ELSE {})
  BY <1>2, <1>3, <1>5 DEF Has, CurOf, AtHeap
<1> QED
  BY <1>1, <1>3, <1>4, <1>5, <1>6, TakesOver

(* realloc to a smaller size answers for its block, which is as large and as aligned as it
   will be asked for. *)
LEMMA OwnedReallocShrink ==
  ASSUME ShapeInv, LockInv, HeapInv, Owned, NEW t \in Threads, StepOK(t), ReallocShrink(t)
  PROVE  Owned'
<1>1. PICK k \in live, size \in ReallocSizes \ {0} :
        /\ size <= buckets[k.p.b].list[k.p.at].size
        /\ live' = live \ {k}
        /\ loc' = [loc EXCEPT ![t] =
             [NoLocals EXCEPT !.op = "realloc", !.cur = k.p.b, !.at = k.p.at,
                !.req = [k.req EXCEPT !.size = size]]]
  BY DEF ReallocShrink
<1> DEFINE r == [k.req EXCEPT !.size = size]
           x == [NoLocals EXCEPT !.op = "realloc", !.cur = k.p.b, !.at = k.p.at, !.req = r]
<1>2. CallsInv /\ size \in Nat \ {0} /\ k.req \in RequestShape
  BY HeapAssumptions, BlockLocals DEF ShapeInv, SizeAssumption
<1>3. r.size = size /\ r.alignment = k.req.alignment /\ r.flags = k.req.flags
  BY <1>2 DEF RequestShape
<1>4. ProperRequest(r)
  BY <1>2, <1>3 DEF Owned, ProperRequest
<1> HIDE DEF r
<1>5. x.cur = k.p.b /\ x.at = k.p.at /\ x.old = NULL /\ x.ret = NULL /\ x.req = r
  BY DEF NoLocals
<1>6. loc'[t] = x /\ pc'[t] = "s_lock" /\ pc[t] = "idle"
  BY <1>1, <1>2 DEF CallsInv, Goto, ReallocShrink, r
<1> HIDE DEF x
<1>7. List' = List /\ Others(t)
  BY <1>6, ListStays DEF WritePCs
<1>8. k.p.b = KernelHeap => Fits(List, k.p.at, r)
  <2> SUFFICES ASSUME k.p.b = KernelHeap PROVE Fits(List, k.p.at, r)
    OBVIOUS
  <2>1. Fits(List, k.p.at, k.req) /\ k.p.at \in UsedAt(List)
    BY DEF Owned, BlockOK, HeapLive
  <2>2. List[k.p.at].size >= size
    <3>1. List[k.p.at].size \in Nat /\ size <= List[k.p.at].size
      BY <1>1, <2>1, HeapNow DEF UsedAt, Pebble, List
    <3> QED
      BY <1>2, <3>1
  <2> QED
    BY <1>3, <2>1, <2>2 DEF Fits, InKind
<1>9. /\ OldOf(t)' = {} /\ RetOf(t)' = {}
      /\ CurOf(t)' = IF k.p.b = KernelHeap THEN {k.p.at} ELSE {}
  BY <1>5, <1>6 DEF OldOf, RetOf, CurOf, AtHeap, AllocPCs, ShrinkPCs
<1>10. CallOK(t)'
  BY <1>4, <1>5, <1>6 DEF CallOK, AtHeap, AllocPCs
<1>11. \A a \in GoodOf(t)' : Fits(List, a, loc'[t].req)
  BY <1>5, <1>6, <1>8, <1>9 DEF GoodOf
<1>12. Has(t)' \subseteq (IF k.p.b = KernelHeap THEN {k.p.at} ELSE {})
  BY <1>9 DEF Has
<1> QED
  BY <1>1, <1>2, <1>7, <1>9, <1>10, <1>11, <1>12, TakesOver

(* realloc to a larger size answers for its block until mfree has it. *)
LEMMA OwnedReallocGrow ==
  ASSUME ShapeInv, LockInv, Owned, NEW t \in Threads, StepOK(t), ReallocGrow(t)
  PROVE  Owned'
<1>1. PICK k \in live, size \in ReallocSizes \ {0} :
        LET pebble == buckets[k.p.b].list[k.p.at]
            req == [size |-> size, alignment |-> 1, flags |-> ReallocFlags(pebble.lflags)]
        IN  /\ live' = live \ {k}
            /\ IF Refused(req.flags)
               THEN /\ Goto(t, "f_lock")
                    /\ loc' = [loc EXCEPT ![t] =
                         [NoLocals EXCEPT !.op = "realloc", !.req = req, !.old = k.p,
                                          !.cur = k.p.b, !.at = k.p.at]]
               ELSE StartKmalloc(t, "realloc", req, k.p)
  BY DEF ReallocGrow
<1> DEFINE req == [size |-> size, alignment |-> 1,
                   flags |-> ReallocFlags(buckets[k.p.b].list[k.p.at].lflags)]
<1>2. CallsInv /\ size \in Nat \ {0} /\ pc[t] = "idle"
  BY HeapAssumptions DEF ShapeInv, SizeAssumption, ReallocGrow
<1>3. ProperRequest(req)
  BY <1>2 DEF ProperRequest, ReallocFlags
<1> HIDE DEF req
<1>4. List' = List /\ Others(t)
  BY <1>2, ListStays DEF WritePCs
<1>5. live' = live \ {k}
  BY <1>1
<1>6. CASE Refused(req.flags)
  <2> DEFINE x == [NoLocals EXCEPT !.op = "realloc", !.req = req, !.old = k.p, !.cur = k.p.b,
                                   !.at = k.p.at]
  <2>1. x.cur = k.p.b /\ x.at = k.p.at /\ x.ret = NULL
    BY DEF NoLocals
  <2>2. loc' = [loc EXCEPT ![t] = x] /\ Goto(t, "f_lock")
    BY <1>1, <1>6 DEF req
  <2> HIDE DEF x
  <2>3. loc'[t] = x /\ pc'[t] = "f_lock"
    BY <1>2, <2>2 DEF CallsInv, Goto
  <2>4. OldOf(t)' = {} /\ RetOf(t)' = {} /\ GoodOf(t)' = {} /\ CallOK(t)'
    BY <2>1, <2>3 DEF OldOf, RetOf, GoodOf, CallOK, AtHeap, AllocPCs, ShrinkPCs
  <2>5. Has(t)' \subseteq (IF k.p.b = KernelHeap THEN {k.p.at} ELSE {})
    BY <2>1, <2>3, <2>4 DEF Has, CurOf, AtHeap
  <2> QED
    BY <1>2, <1>4, <1>5, <2>4, <2>5, TakesOver
<1>7. CASE ~Refused(req.flags)
  <2> DEFINE x == [NoLocals EXCEPT !.op = "realloc", !.req = req, !.cur = KernelHeap,
                                   !.old = k.p]
  <2>1. x.old = k.p /\ x.ret = NULL /\ x.req = req
    BY DEF NoLocals
  <2>2. loc' = [loc EXCEPT ![t] = x] /\ Goto(t, "k_lock")
    BY <1>1, <1>7 DEF req, StartKmalloc
  <2> HIDE DEF x
  <2>3. loc'[t] = x /\ pc'[t] = "k_lock"
    BY <1>2, <2>2 DEF CallsInv, Goto
  <2>4. CurOf(t)' = {} /\ RetOf(t)' = {} /\ GoodOf(t)' = {}
    BY <2>1, <2>3 DEF CurOf, RetOf, GoodOf, AtHeap, ShrinkPCs
  <2>5. CallOK(t)'
    BY <1>3, <2>1, <2>3 DEF CallOK, AtHeap
  <2>6. Has(t)' \subseteq (IF k.p.b = KernelHeap THEN {k.p.at} ELSE {})
    BY <2>1, <2>3, <2>4 DEF Has, OldOf
  <2> QED
    BY <1>2, <1>4, <1>5, <2>4, <2>5, <2>6, TakesOver
<1> QED
  BY <1>6, <1>7

(* Every step leaves every pebble of kernel_heap with one owner at most. *)
LEMMA OwnedKept ==
  ASSUME ShapeInv, LockInv, HeapInv, HeapRecord, Owned, NEW t \in Threads, StepOK(t),
         Step(t) \/ Call(t)
  PROVE  Owned'
  BY OwnedSpinLock, OwnedWalkTry, OwnedSplitPebble, OwnedWalkFirst, OwnedWalkNext,
     OwnedCreateBucket, OwnedInsertLink, OwnedNewTry, OwnedNewLargest, OwnedNewFirst,
     OwnedNewFirstStore, OwnedFreeMark, OwnedMerge, OwnedFreeCheck, OwnedLooks, OwnedRemove, OwnedShrinkSplit, OwnedWild,
     OwnedKmalloc, OwnedMfree, OwnedReallocShrink, OwnedReallocGrow
     DEF Step, Call

-----------------------------------------------------------------------------
(* first and largest of kernel_heap tell the truth after every step *)

(* Bounded speaks of three fields. *)
LEMMA BoundedSame ==
  ASSUME NEW bk, NEW r, Bounded(bk), r.list = bk.list, r.first = bk.first, r.largest = bk.largest
  PROVE  Bounded(r)
  BY DEF Bounded

(* A split or a mark leaves first and largest as they are. *)
LEMMA ListWriteFields ==
  ASSUME ShapeInv, LockInv, NEW t \in Threads, SplitPebble(t) \/ FreeMark(t) \/ ShrinkSplit(t),
         loc[t].cur = KernelHeap
  PROVE  /\ buckets'[KernelHeap].first = buckets[KernelHeap].first
         /\ buckets'[KernelHeap].largest = buckets[KernelHeap].largest
<1> DEFINE h == buckets[KernelHeap]
<1>1. KernelHeap \in DOMAIN buckets /\ HasShape(h)
  BY DEF LockInv, ShapeInv, BucketsInv
<1>2. PICK P : buckets'[KernelHeap] = [h EXCEPT !.list = P]
               \/ buckets'[KernelHeap] = Unlocked([h EXCEPT !.list = P])
  BY <1>1 DEF SplitPebble, FreeMark, ShrinkSplit, shrink_pebble
<1> DEFINE g == [h EXCEPT !.list = P]
<1>3. HasShape(g) /\ g.first = h.first /\ g.largest = h.largest
  BY <1>1 DEF HasShape
<1> HIDE DEF g
<1>4. Unlocked(g).first = g.first /\ Unlocked(g).largest = g.largest
  BY <1>3 DEF Unlocked, HasShape
<1> QED
  BY <1>2, <1>3, <1>4 DEF g

(* A list that kept its headers and has no larger pebble is bounded as before. *)
LEMMA BoundedList ==
  ASSUME NEW bk, NEW r, Bounded(bk), r.first = bk.first, r.largest = bk.largest,
         DOMAIN bk.list \subseteq DOMAIN r.list,
         \A n \in Nat : (\A y \in DOMAIN bk.list : bk.list[y].size <= n) =>
                        \A x \in DOMAIN r.list : r.list[x].size <= n
  PROVE  Bounded(r)
  BY DEF Bounded

(* melt_prev leaves first and largest true, as absorb_next does. *)
LEMMA MeltBounded ==
  ASSUME NEW bk, HasShape(bk), Sound(bk.list, bk.bytes), NEW a \in DOMAIN bk.list, Bounded(bk)
  PROVE  Bounded(melt_prev(bk, a))
<1>1. CASE bk.list[a].prev = NULL
  BY <1>1 DEF melt_prev
<1>2. CASE bk.list[a].prev # NULL
  <2>1. bk.list[a].prev \in DOMAIN bk.list
    BY <1>2, BeforeIn
  <2>2. melt_prev(bk, a) = absorb_next(bk, bk.list[a].prev)
    BY <1>2 DEF melt_prev
  <2> QED
    BY <2>1, <2>2, AbsorbBounded
<1> QED
  BY <1>1, <1>2

(* kmalloc sets first to the pebble behind the one it hands out, and largest is no
   smaller than before. *)
LEMMA BoundedWalkFirst ==
  ASSUME ShapeInv, LockInv, HeapInv, HeapRecord, NEW t \in Threads, WalkFirst(t),
         loc[t].cur = KernelHeap
  PROVE  Bounded(buckets'[KernelHeap])
<1> DEFINE h == buckets[KernelHeap]
           n == List[loc[t].at].next
           f == [h EXCEPT !.first = n]
           z == Wanted(loc[t].req).size
           g == bucket_update_largest(f, z)
<1>0. KernelHeap \in DOMAIN buckets /\ HasShape(h) /\ Bounded(h)
  BY HeapNow DEF HeapRecord
<1>1. loc[t].at \in DOMAIN List /\ buckets'[KernelHeap] = Unlocked(g)
  BY <1>0 DEF WalkFirst, AtHand, List
<1>2. n \in DOMAIN List \cup {NULL}
  BY <1>1, HeapNow DEF Sound, ListWellFormed, LinksAgree
<1>3. z \in Nat
  BY CurShape, WantedShape DEF ShapeInv
<1>4. h.largest \in Nat /\ \A a \in DOMAIN List : List[a].size <= h.largest
  BY <1>0 DEF Bounded, List
<1> HIDE DEF n, z
<1>5. HasShape(f) /\ f.first = n /\ f.list = List /\ f.largest = h.largest
  BY <1>0 DEF HasShape, List
<1> HIDE DEF f
<1>6. /\ HasShape(g) /\ g.first = n /\ g.list = List
      /\ g.largest = IF z > h.largest THEN z ELSE h.largest
  BY <1>5 DEF HasShape, bucket_update_largest
<1>7. Bounded(g)
  <2>1. g.largest \in Nat /\ g.largest >= h.largest
    BY <1>3, <1>4, <1>6
  <2>2. ASSUME NEW a \in DOMAIN List PROVE List[a].size <= g.largest
    <3>1. List[a].size \in Nat
      BY HeapNow DEF Pebble
    <3> QED
      BY <1>4, <2>1, <3>1
  <2> QED
    BY <1>2, <1>6, <2>1, <2>2 DEF Bounded
<1> HIDE DEF g
<1>8. /\ Unlocked(g).first = g.first /\ Unlocked(g).largest = g.largest
      /\ Unlocked(g).list = g.list
  BY <1>6 DEF HasShape, Unlocked
<1> QED
  BY <1>1, <1>7, <1>8, BoundedSame

(* Every step leaves the record of kernel_heap true. *)
LEMMA RecordKept ==
  ASSUME ShapeInv, LockInv, HeapInv, HeapRecord, Owned, NEW t \in Threads, StepOK(t),
         Step(t) \/ Call(t)
  PROVE  HeapRecord'
<1> DEFINE h == buckets[KernelHeap]
           r == buckets'[KernelHeap]
<1>0. HasShape(h) /\ Sound(h.list, h.bytes) /\ Bounded(h)
  BY HeapNow DEF HeapRecord, List
<1>1. r.lflags = {"VIRTUAL", "PERSISTENT"}
  BY DEF StepOK, HeapRecord
<1> SUFFICES Bounded(r)
  BY <1>1 DEF HeapRecord
<1>2. CASE loc[t].cur = KernelHeap => ~WritesList(t) /\ ~WalkFirst(t)
  <2>1. r.first = h.first /\ r.largest = h.largest
    BY <1>2, FieldsKept
  <2>2. r.list = h.list
    BY <1>2 DEF StepOK
  <2> HIDE DEF r, h
  <2> QED
    BY <1>0, <2>1, <2>2, BoundedSame
<1>3. CASE loc[t].cur = KernelHeap /\ WalkFirst(t)
  BY <1>3, BoundedWalkFirst
<1>4. CASE loc[t].cur = KernelHeap /\ SplitPebble(t)
  <2>1. Placed(List, List', loc'[t].at, Wanted(loc[t].req).size)
    BY <1>4, SplitHere
  <2>2. r.first = h.first /\ r.largest = h.largest
    BY <1>4, ListWriteFields
  <2> QED
    BY <1>0, <2>1, <2>2, BoundedList DEF Placed, List
<1>5. CASE loc[t].cur = KernelHeap /\ FreeMark(t)
  <2>1. loc[t].at \in DOMAIN List /\ List' = Marked(List, loc[t].at, {})
    BY <1>5, MarkHere
  <2>2. r.first = h.first /\ r.largest = h.largest
    BY <1>5, ListWriteFields
  <2>3. DOMAIN List' = DOMAIN List /\ \A x \in DOMAIN List : List'[x].size = List[x].size
    BY <2>1, HeapNow, MarkEffect
  <2> QED
    BY <1>0, <2>2, <2>3, BoundedList DEF List
<1>6. CASE loc[t].cur = KernelHeap /\ FreeMelt(t)
  <2>1. loc[t].at \in DOMAIN h.list /\ r = melt_prev(h, loc[t].at)
    BY <1>6, MergeHere DEF List
  <2> QED
    BY <1>0, <2>1, MeltBounded
<1>7. CASE loc[t].cur = KernelHeap /\ FreeAbsorb(t)
  <2> DEFINE m == absorb_next(h, loc[t].at)
  <2>1. loc[t].at \in DOMAIN h.list /\ r = Unlocked(m)
    BY <1>7, MergeHere DEF List
  <2>2. HasShape(m) /\ Bounded(m)
    BY <1>0, <2>1, AbsorbShape, AbsorbBounded
  <2> HIDE DEF m
  <2>3. /\ Unlocked(m).first = m.first /\ Unlocked(m).largest = m.largest
        /\ Unlocked(m).list = m.list
    BY <2>2 DEF HasShape, Unlocked
  <2> QED
    BY <2>1, <2>2, <2>3, BoundedSame
<1>8. CASE loc[t].cur = KernelHeap /\ ShrinkSplit(t)
  <2>1. Shrunk(List, List', loc[t].at, loc[t].req.size)
    BY <1>8, ShrinkHere
  <2>2. r.first = h.first /\ r.largest = h.largest
    BY <1>8, ListWriteFields
  <2> QED
    BY <1>0, <2>1, <2>2, BoundedList DEF Shrunk, List
<1> QED
  BY <1>2, <1>3, <1>4, <1>5, <1>6, <1>7, <1>8 DEF WritesList

-----------------------------------------------------------------------------
(* Free memory is in one piece but where an mfree is at work *)

(* The pebble mfree merges is free. *)
AtFree == \A t \in Threads : AtHeap(t, {"f_melt", "f_absorb"}) => loc[t].at \in FreeAt(List)

(* Where two free pebbles lie side by side, an mfree has come to one of them and
   will merge them. *)
AtSeam(t, a) ==
  \/ AtHeap(t, {"f_melt"}) /\ loc[t].at \in {a, List[a].next}
  \/ AtHeap(t, {"f_absorb"}) /\ loc[t].at = a
InPieces == \A a \in Seams(List) : \E t \in Threads : AtSeam(t, a)

(* While t is in a critical section of kernel_heap, t is the one to merge. *)
LEMMA OwnSeams ==
  ASSUME LockInv, InPieces, NEW t \in Threads, pc[t] \in CriticalPCs, loc[t].cur = KernelHeap,
         NEW a \in Seams(List)
  PROVE  AtSeam(t, a)
<1>1. PICK u \in Threads : AtSeam(u, a)
  BY DEF InPieces
<1>2. HoldsHeap(u)
  BY <1>1 DEF AtSeam, AtHeap, HoldsHeap, Holds, CriticalPCs, LockOf
<1>3. u = t
  BY <1>2, AloneInHeap
<1> QED
  BY <1>1, <1>3

(* What FreeMelt does: mfree goes on at a free pebble, which no seam precedes. *)
LEMMA MeltHere ==
  ASSUME ShapeInv, LockInv, HeapInv, AtFree, InPieces, NEW t \in Threads, FreeMelt(t),
         loc[t].cur = KernelHeap
  PROVE  /\ loc'[t].at \in FreeAt(List') /\ pc'[t] = "f_absorb" /\ loc'[t].cur = KernelHeap
         /\ \A x \in Seams(List') : x = loc'[t].at
<1> DEFINE h == buckets[KernelHeap]
           a == loc[t].at
           p == List[a].prev
           Q == SwallowNext(List, p)
<1>1. /\ a \in DOMAIN List /\ buckets'[KernelHeap] = melt_prev(h, a)
      /\ loc'[t].at = MeltedInto(h, a) /\ loc'[t].cur = KernelHeap /\ pc'[t] = "f_absorb"
  BY MergeHere
<1>2. pc[t] = "f_melt" /\ a \in FreeAt(List)
  BY DEF FreeMelt, AtFree, AtHeap
<1>3. \A x \in Seams(List) : a \in {x, List[x].next}
  BY <1>2, OwnSeams DEF AtSeam, AtHeap, CriticalPCs
<1>4. \A x \in Seams(List) : x = a \/ (x = p /\ p \in FreeAt(List))
  <2> TAKE x \in Seams(List)
  <2>1. CASE a = List[x].next
    <3>1. a # NULL /\ x \in DOMAIN List /\ x \in FreeAt(List)
      BY <1>1, HeapNow, NullAssumption DEF Seams, FreeAt
    <3>2. p = x
      BY <2>1, <3>1, HeapNow DEF Sound, ListWellFormed, LinksAgree
    <3> QED
      BY <3>1, <3>2
  <2> QED
    BY <1>3, <2>1
<1>5. /\ HasShape(h) /\ Sound(h.list, h.bytes) /\ a \in DOMAIN h.list /\ h.list = List
  BY <1>1, HeapNow DEF List
<1>6. CASE p \in FreeAt(List)
  <2>1. /\ p \in FreeAt(List) /\ List[p].next = a
        /\ melt_prev(h, a) = absorb_next(h, p) /\ MeltedInto(h, a) = p
    <3>1. LET q == h.list[a].prev
          IN  \/ /\ q \in FreeAt(h.list) /\ a \in FreeAt(h.list) /\ h.list[q].next = a
                 /\ melt_prev(h, a) = absorb_next(h, q) /\ MeltedInto(h, a) = q
              \/ ~(q \in FreeAt(h.list) /\ a \in FreeAt(h.list))
      BY <1>5, MeltCases
    <3>2. h.list = List
      BY <1>5
    <3> HIDE DEF h
    <3> QED
      BY <1>2, <1>6, <3>1, <3>2
  <2>2. absorb_next(h, p).list = Q
    <3>1. p \in DOMAIN h.list
      BY <1>5, <2>1 DEF FreeAt
    <3> QED
      BY <1>2, <1>5, <2>1, <3>1, AbsorbCases
  <2>3. /\ a # p /\ DOMAIN Q = DOMAIN List \ {a} /\ UsedAt(Q) = UsedAt(List)
        /\ \A x \in Seams(Q) : \/ x = p
                               \/ x # p /\ x # a /\ x \in Seams(List)
    <3>1. LET m == List[p].next
          IN  /\ m # p /\ DOMAIN Q = DOMAIN List \ {m} /\ UsedAt(Q) = UsedAt(List)
              /\ \A x \in Seams(Q) : \/ x = p /\ m \in Seams(List)
                                     \/ x # p /\ x # m /\ x \in Seams(List)
      <4>1. /\ p \in FreeAt(List) /\ List[p].next \in FreeAt(List)
            /\ h.bytes \in Nat /\ Sound(List, h.bytes)
        BY <1>2, <2>1, HeapNow
      <4> HIDE DEF p, h
      <4> QED
        BY <4>1, SwallowEffect
    <3> HIDE DEF Q
    <3> QED
      BY <2>1, <3>1
  <2>4. List' = Q /\ loc'[t].at = p
    BY <1>1, <2>1, <2>2 DEF List
  <2> HIDE DEF Q, p
  <2>5. p \in FreeAt(Q)
    BY <2>1, <2>3 DEF FreeAt, UsedAt
  <2> QED
    BY <1>1, <1>4, <2>3, <2>4, <2>5
<1>7. CASE p \notin FreeAt(List)
  <2>1. melt_prev(h, a) = h /\ MeltedInto(h, a) = a
    BY <1>5, <1>7, MeltCases
  <2>2. List' = List /\ loc'[t].at = a
    BY <1>1, <2>1 DEF List
  <2> QED
    BY <1>1, <1>2, <1>4, <1>7, <2>2
<1> QED
  BY <1>6, <1>7

(* What FreeAbsorb does: no seam is left. *)
LEMMA AbsorbHere ==
  ASSUME ShapeInv, LockInv, HeapInv, AtFree, InPieces, NEW t \in Threads, FreeAbsorb(t),
         loc[t].cur = KernelHeap
  PROVE  pc'[t] = "f_check" /\ Seams(List') = {}
<1> DEFINE h == buckets[KernelHeap]
           a == loc[t].at
           n == List[a].next
           Q == SwallowNext(List, a)
<1>1. a \in DOMAIN List /\ List' = absorb_next(h, a).list /\ pc'[t] = "f_check"
  BY MergeHere
<1>2. pc[t] = "f_absorb" /\ a \in FreeAt(List)
  BY DEF FreeAbsorb, AtFree, AtHeap
<1>3. \A x \in Seams(List) : x = a
  BY <1>2, OwnSeams DEF AtSeam, AtHeap, CriticalPCs
<1>4. /\ HasShape(h) /\ Sound(h.list, h.bytes) /\ a \in DOMAIN h.list /\ h.list = List
  BY <1>1, HeapNow DEF List
<1>5. CASE n \in FreeAt(List)
  <2>1. absorb_next(h, a).list = Q
    BY <1>2, <1>4, <1>5, AbsorbCases
  <2>2. /\ n # a
        /\ \A x \in Seams(Q) : \/ x = a /\ n \in Seams(List)
                               \/ x # a /\ x # n /\ x \in Seams(List)
    <3>1. h.bytes \in Nat /\ Sound(List, h.bytes)
      BY HeapNow
    <3> HIDE DEF h
    <3> QED
      BY <1>2, <1>5, <3>1, SwallowEffect
  <2> HIDE DEF Q, n
  <2>3. Seams(Q) = {}
    BY <1>3, <2>2
  <2> QED
    BY <1>1, <2>1, <2>3
<1>6. CASE n \notin FreeAt(List)
  <2>1. absorb_next(h, a) = h
    BY <1>4, <1>6, AbsorbCases
  <2>2. a \notin Seams(List)
    BY <1>6 DEF Seams
  <2> QED
    BY <1>1, <1>3, <1>4, <2>1, <2>2
<1> QED
  BY <1>1, <1>5, <1>6

(* mfree alone comes to where it merges. *)
LEMMA ToMerge ==
  ASSUME CallsInv, NEW t \in Threads, Step(t) \/ Call(t), pc'[t] \in {"f_melt", "f_absorb"}
  PROVE  FreeMark(t) \/ FreeMelt(t)
<1>1. \A l : Goto(t, l) => l \in {"f_melt", "f_absorb"}
  BY DEF Goto, CallsInv
<1>2. ~SpinLock(t)
  BY <1>1 DEF SpinLock, LockPCs, AfterLock
<1>3. ~MfreeReturns(t) /\ \A p : ~KmallocReturns(t, p)
  BY <1>1 DEF MfreeReturns, KmallocReturns
<1>4. ~WalkTry(t) /\ ~NewTry(t)
  <2>1. \A l : Found(t, l) => Goto(t, l)
    BY DEF Found
  <2>2. FoundNever(t) => Goto(t, "hang")
    BY DEF FoundNever
  <2> QED
    BY <1>1, <1>3, <2>1, <2>2 DEF WalkTry, NewTry
<1>5. ~SplitPebble(t) /\ ~WalkFirst(t) /\ ~WalkNext(t) /\ ~CreateBucket(t)
  <2>1. ~SplitPebble(t)
    <3>1. SplitPebble(t) => Goto(t, "k_first") \/ Goto(t, "n_largest")
      BY DEF SplitPebble
    <3> QED
      BY <1>1, <3>1
  <2>2. ~WalkFirst(t)
    BY <1>3 DEF WalkFirst
  <2>3. ~WalkNext(t)
    <3>1. WalkNext(t) => Goto(t, "k_create") \/ Goto(t, "k_lock")
      BY DEF WalkNext
    <3> QED
      BY <1>1, <3>1
  <2>4. ~CreateBucket(t)
    <3>1. CreateBucket(t) => KmallocReturns(t, NULL) \/ Goto(t, "i_lock")
      BY DEF CreateBucket
    <3> QED
      BY <1>1, <1>3, <3>1
  <2> QED
    BY <2>1, <2>2, <2>3, <2>4
<1>7. ~InsertLink(t) /\ ~NewLargest(t) /\ ~NewFirst(t) /\ ~NewFirstStore(t)
  BY <1>1, <1>3 DEF InsertLink, NewLargest, NewFirst, NewFirstStore
<1>8. ~FreeAbsorb(t) /\ ~ShrinkSplit(t) /\ ~Wild(t)
  BY <1>1 DEF FreeAbsorb, ShrinkSplit, Wild
<1>9. ~FreeCheck(t) /\ ~LoadFirst(t) /\ ~TestFirst(t) /\ ~WalkLargest(t)
  <2>1. ~FreeCheck(t)
    BY <1>1, <1>3 DEF FreeCheck
  <2>2. LoadFirst(t) \/ TestFirst(t) \/ WalkLargest(t) => pc'[t] \in LookPCs
    BY <1>3, Looking
  <2> QED
    BY <2>1, <2>2 DEF LookPCs, LoadPCs, TestPCs
<1>10. ~RemovePrev(t) /\ ~RemoveNext(t) /\ ~RemoveUnmap(t)
  <2>1. RemovePrev(t) => Goto(t, "r_next")
    BY DEF RemovePrev
  <2>2. RemoveNext(t) => Goto(t, "r_unmap")
    BY DEF RemoveNext
  <2>3. RemoveUnmap(t) => MfreeReturns(t)
    BY DEF RemoveUnmap
  <2> QED
    BY <1>1, <1>3, <2>1, <2>2, <2>3
<1>6. ~Call(t)
  <2>1. Kmalloc(t) => Goto(t, "k_lock")
    BY DEF Kmalloc, StartKmalloc
  <2>2. Mfree(t) => Goto(t, "f_lock")
    BY DEF Mfree
  <2>3. ReallocShrink(t) => Goto(t, "s_lock")
    BY DEF ReallocShrink
  <2>4. ReallocGrow(t) => Goto(t, "f_lock") \/ Goto(t, "k_lock")
    BY DEF ReallocGrow, StartKmalloc
  <2> QED
    BY <1>1, <2>1, <2>2, <2>3, <2>4 DEF Call
<1> QED
  BY <1>2, <1>4, <1>5, <1>6, <1>7, <1>8, <1>9, <1>10 DEF Step

(* There it merges: it touches nothing that is not there. *)
LEMMA StuckNever ==
  ASSUME ShapeInv, LockInv, AtFree, NEW t \in Threads, Step(t) \/ Call(t),
         ~(WritesList(t) /\ loc[t].cur = KernelHeap)
  PROVE  ~AtHeap(t, {"f_melt", "f_absorb"})
<1> SUFFICES ASSUME AtHeap(t, {"f_melt", "f_absorb"}) PROVE FALSE
  OBVIOUS
<1>1. pc[t] \in {"f_melt", "f_absorb"} /\ loc[t].cur = KernelHeap /\ ~WritesList(t)
  BY DEF AtHeap
<1>2. ~Call(t)
  BY <1>1 DEF Call, Kmalloc, Mfree, ReallocShrink, ReallocGrow
<1>3. Wild(t)
  BY <1>1, <1>2 DEF Step, WritesList, SpinLock, LockPCs, WalkTry, WalkFirst, WalkNext,
     CreateBucket, InsertLink, NewTry, NewLargest, NewFirst, NewFirstStore, FreeCheck, LoadFirst,
     TestFirst, LoadPCs, TestPCs, WalkLargest, RemovePrev, RemoveNext, RemoveUnmap
<1>4. AtHand(t)
  BY <1>1 DEF AtFree, FreeAt, AtHand, Mapped, LockInv, List
<1>5. Touches(t) = {KernelHeap} /\ Mapped(KernelHeap)
  BY <1>1 DEF Touches, LockInv, Mapped
<1> QED
  BY <1>1, <1>3, <1>4, <1>5 DEF Wild, LoadPCs, StalePCs

(* mfree's pebble stays free until it is merged. *)
LEMMA AtFreeKept ==
  ASSUME ShapeInv, LockInv, HeapInv, AtFree, InPieces, NEW t \in Threads, StepOK(t),
         Step(t) \/ Call(t)
  PROVE  AtFree'
<1> SUFFICES ASSUME NEW u \in Threads, AtHeap(u, {"f_melt", "f_absorb"})'
             PROVE  loc'[u].at \in FreeAt(List')
  BY DEF AtFree, FreeAt
<1>0. Others(t) /\ CallsInv
  BY DEF StepOK, ShapeInv
<1>1. CASE u # t
  <2>1. pc'[u] = pc[u] /\ loc'[u] = loc[u]
    BY <1>0, <1>1 DEF Others
  <2>2. AtHeap(u, {"f_melt", "f_absorb"}) /\ HoldsHeap(u)
    BY <2>1 DEF AtHeap, HoldsHeap, Holds, CriticalPCs, LockOf
  <2>3. ~HoldsHeap(t)
    BY <1>1, <2>2 DEF LockInv
  <2>4. List' = List
    BY <2>3 DEF StepOK, List
  <2> QED
    BY <2>1, <2>2, <2>4 DEF AtFree
<1>2. CASE u = t
  <2>1. pc'[t] \in {"f_melt", "f_absorb"} /\ loc'[t].cur = KernelHeap
    BY <1>2 DEF AtHeap
  <2>2. FreeMark(t) \/ FreeMelt(t)
    BY <1>0, <2>1, ToMerge
  <2>3. CASE FreeMark(t)
    <3>1. loc' = loc
      BY <2>3 DEF FreeMark
    <3>2. loc[t].at \in DOMAIN List /\ List' = Marked(List, loc[t].at, {})
      BY <2>1, <2>3, <3>1, MarkHere
    <3>3. DOMAIN List' = DOMAIN List /\ List'[loc[t].at].lflags = {}
      BY <3>2, HeapNow, MarkEffect
    <3> QED
      BY <1>2, <3>1, <3>2, <3>3 DEF FreeAt, PEBBLE_IS_FREE
  <2>4. CASE FreeMelt(t)
    <3>1. loc[t].cur = KernelHeap
      BY <1>0, <2>1, <2>4 DEF FreeMelt, CallsInv, LocalsShape
    <3> QED
      BY <1>2, <2>4, <3>1, MeltHere
  <2> QED
    BY <2>2, <2>3, <2>4
<1> QED
  BY <1>1, <1>2

(* A step that writes the list of kernel_heap leaves free memory in one piece, or is on
   its way to. *)
LEMMA PiecesWritten ==
  ASSUME ShapeInv, LockInv, HeapInv, Owned, AtFree, InPieces, NEW t \in Threads, StepOK(t),
         WritesList(t), loc[t].cur = KernelHeap
  PROVE  InPieces'
<1>1. pc[t] \in WritePCs /\ pc[t] \in CriticalPCs /\ CallsInv
  BY DEF WritesList, SplitPebble, FreeMark, FreeMelt, FreeAbsorb, ShrinkSplit, WritePCs,
     CriticalPCs, ShapeInv
<1>2. pc[t] \notin {"f_melt", "f_absorb"} => Seams(List) = {}
  BY <1>1, OwnSeams DEF AtSeam, AtHeap
<1>3. Seams(List') = {} => InPieces'
  BY DEF InPieces, Seams, FreeAt
<1>4. CASE SplitPebble(t)
  <2>1. pc[t] = "k_split" /\ Placed(List, List', loc'[t].at, Wanted(loc[t].req).size)
    BY <1>4, SplitHere
  <2> QED
    BY <1>2, <1>3, <2>1 DEF Placed
<1>5. CASE FreeMark(t)
  <2> DEFINE a == loc[t].at
  <2>1. /\ pc[t] = "f_mark" /\ loc' = loc /\ Goto(t, "f_melt")
        /\ a \in DOMAIN List /\ List' = Marked(List, a, {})
    BY <1>5, MarkHere DEF FreeMark
  <2>2. \A x \in Seams(List') : a \in {x, List[x].next}
    BY <1>2, <2>1, HeapNow, MarkFree
  <2>3. \A x \in DOMAIN List' : List'[x].next = List[x].next
    BY <2>1, HeapNow, MarkEffect
  <2>4. pc'[t] = "f_melt"
    BY <1>1, <2>1 DEF Goto, CallsInv
  <2>5. \A x \in Seams(List') : AtSeam(t, x)'
    BY <2>1, <2>2, <2>3, <2>4 DEF AtSeam, AtHeap, Seams, FreeAt
  <2> QED
    BY <2>5 DEF InPieces, Seams, FreeAt
<1>6. CASE FreeMelt(t)
  <2>1. /\ pc'[t] = "f_absorb" /\ loc'[t].cur = KernelHeap
        /\ \A x \in Seams(List') : x = loc'[t].at
    BY <1>6, MeltHere
  <2>2. \A x \in Seams(List') : AtSeam(t, x)'
    BY <2>1 DEF AtSeam, AtHeap
  <2> QED
    BY <2>2 DEF InPieces, Seams, FreeAt
<1>7. CASE FreeAbsorb(t)
  BY <1>3, <1>7, AbsorbHere
<1>8. CASE ShrinkSplit(t)
  <2>1. pc[t] = "s_split" /\ Shrunk(List, List', loc[t].at, loc[t].req.size)
    BY <1>8, ShrinkHere DEF ShrinkSplit
  <2> QED
    BY <1>2, <1>3, <2>1 DEF Shrunk
<1> QED
  BY <1>4, <1>5, <1>6, <1>7, <1>8 DEF WritesList

(* So does every other step. *)
LEMMA PiecesKept ==
  ASSUME ShapeInv, LockInv, HeapInv, Owned, AtFree, InPieces, NEW t \in Threads, StepOK(t),
         Step(t) \/ Call(t)
  PROVE  InPieces'
<1>1. CASE WritesList(t) /\ loc[t].cur = KernelHeap
  BY <1>1, PiecesWritten
<1>2. CASE ~(WritesList(t) /\ loc[t].cur = KernelHeap)
  <2>1. List' = List /\ Others(t)
    BY <1>2 DEF StepOK, List
  <2>2. ~AtHeap(t, {"f_melt", "f_absorb"})
    BY <1>2, StuckNever
  <2>3. ASSUME NEW a \in Seams(List')
        PROVE  \E u \in Threads : AtSeam(u, a)'
    <3>1. PICK u \in Threads : AtSeam(u, a)
      BY <2>1, <2>3 DEF InPieces
    <3>2. u # t
      BY <2>2, <3>1 DEF AtSeam, AtHeap
    <3>3. pc'[u] = pc[u] /\ loc'[u] = loc[u]
      BY <2>1, <3>2 DEF Others
    <3> QED
      BY <2>1, <3>1, <3>3 DEF AtSeam, AtHeap
  <2> QED
    BY <2>3 DEF InPieces, Seams, FreeAt
<1> QED
  BY <1>1, <1>2

-----------------------------------------------------------------------------
(* The order of kernel_heap *)

HeapOrder == HeapRecord /\ Owned /\ AtFree /\ InPieces

(* A new kernel_heap is in order: it is one free pebble. *)
LEMMA InitOrder ==
  ASSUME Init
  PROVE  HeapOrder
<1> DEFINE flags == {"VIRTUAL", "PERSISTENT"}
           bytes == BucketBytes(HeapBytes, flags)
           n     == bytes - BUCKET_SZ - PEBBLE_SZ
           peb   == [lflags |-> flags \cap {"ALIGNED"}, size |-> n, prev |-> NULL, next |-> NULL]
           P     == [a \in {FirstPebble} |-> peb]
           new   == create_bucket(HeapBytes, flags, FALSE)
<1>1. HeapBytes \in Nat
  BY HeapAssumptions DEF SizeAssumption
<1>2. n \in Nat
  BY <1>1, BucketBytesRange DEF ALLOC_MIN, BUCKET_SZ, PEBBLE_SZ
<1>3. new.lflags = flags /\ new.largest = n /\ new.first = FirstPebble /\ new.list = P
  BY DEF create_bucket
<1>4. peb.size = n /\ peb.next = NULL
  OBVIOUS
<1> HIDE DEF new, n, peb
<1>5. DOMAIN P = {FirstPebble} /\ P[FirstPebble] = peb /\ FirstPebble \in Nat
  BY DEF FirstPebble, BUCKET_SZ
<1> HIDE DEF P
<1>6. buckets[KernelHeap] = new /\ List = P
  BY <1>3, InitHeap DEF new, List
<1>7. pc = [t \in Threads |-> "idle"] /\ loc = [t \in Threads |-> NoLocals] /\ live = {}
  BY DEF Init
<1>8. HeapRecord
  <2>1. Bounded(new)
    BY <1>2, <1>3, <1>4, <1>5 DEF Bounded
  <2> QED
    BY <1>3, <1>6, <2>1 DEF HeapRecord
<1>9. Owned
  <2>1. ASSUME NEW t \in Threads
        PROVE  /\ CurOf(t) = {} /\ OldOf(t) = {} /\ RetOf(t) = {} /\ GoodOf(t) = {} /\ CallOK(t)
    BY <1>7 DEF CurOf, OldOf, RetOf, GoodOf, CallOK, AtHeap, AllocPCs, ShrinkPCs, NoLocals
  <2>2. \A t \in Threads : Has(t) = {} /\ ClaimsOK(t)
    BY <2>1 DEF Has, ClaimsOK
  <2> QED
    BY <1>7, <2>2 DEF Owned, HeapLive
<1>10. AtFree
  BY <1>7 DEF AtFree, AtHeap
<1>11. InPieces
  <2>1. Seams(P) = {}
    BY <1>4, <1>5, NullAssumption DEF Seams, FreeAt
  <2> QED
    BY <1>6, <2>1 DEF InPieces
<1> QED
  BY <1>8, <1>9, <1>10, <1>11 DEF HeapOrder

(* A step of no thread leaves kernel_heap in order. *)
LEMMA OrderStays ==
  ASSUME HeapOrder, UNCHANGED vars
  PROVE  HeapOrder'
<1>1. buckets' = buckets /\ pc' = pc /\ loc' = loc /\ live' = live
  BY DEF vars
<1>2. List' = List
  BY <1>1 DEF List
<1>3. HeapRecord'
  BY <1>1 DEF HeapOrder, HeapRecord
<1>4. AtFree'
  BY <1>1, <1>2 DEF HeapOrder, AtFree, AtHeap, FreeAt
<1>5. InPieces'
  BY <1>1, <1>2 DEF HeapOrder, InPieces, AtSeam, AtHeap, Seams, FreeAt
<1>6. Owned'
  <2>1. ASSUME NEW t \in Threads
        PROVE  /\ Has(t)' = Has(t) /\ CurOf(t)' = CurOf(t) /\ OldOf(t)' = OldOf(t)
               /\ RetOf(t)' = RetOf(t) /\ GoodOf(t)' = GoodOf(t) /\ CallOK(t)' = CallOK(t)
    BY <1>1, <1>2 DEF Has, CurOf, OldOf, RetOf, GoodOf, CallOK, AtHeap, UsedAt
  <2>2. \A t \in Threads : ClaimsOK(t)'
    BY <1>1, <1>2, <2>1 DEF HeapOrder, Owned, ClaimsOK, UsedAt
  <2>3. HeapLive' = HeapLive
    BY <1>1 DEF HeapLive
  <2>4. \A k \in HeapLive : BlockOK(k)'
    BY <1>2, <2>1 DEF HeapOrder, Owned, BlockOK, UsedAt
  <2> QED
    BY <1>1, <2>1, <2>2, <2>3, <2>4 DEF HeapOrder, Owned
<1> QED
  BY <1>3, <1>4, <1>5, <1>6 DEF HeapOrder

(* The inductive invariant of kernel_heap: who owns its pebbles, where free ones lie side
   by side, and what its record says, on top of the shapes, the lock and the list. *)
THEOREM HeapOrderInvariant == Spec => [](ShapeInv /\ LockInv /\ HeapInv /\ HeapOrder)
<1>1. Init => HeapOrder
  BY InitOrder
<1>2. ShapeInv /\ LockInv /\ HeapInv /\ HeapOrder /\ [Next]_vars => HeapOrder'
  <2> SUFFICES ASSUME ShapeInv, LockInv, HeapInv, HeapOrder, [Next]_vars PROVE HeapOrder'
    OBVIOUS
  <2>1. CASE Next
    <3>1. PICK t \in Threads : Step(t) \/ Call(t)
      BY <2>1 DEF Next
    <3>2. StepOK(t) /\ HeapRecord /\ Owned /\ AtFree /\ InPieces
      BY <3>1, StepsOK DEF HeapOrder
    <3>3. HeapRecord' /\ Owned'
      BY <3>1, <3>2, RecordKept, OwnedKept
    <3>4. AtFree' /\ InPieces'
      BY <3>1, <3>2, AtFreeKept, PiecesKept
    <3> QED
      BY <3>3, <3>4 DEF HeapOrder
  <2>2. CASE UNCHANGED vars
    BY <2>2, OrderStays
  <2> QED
    BY <2>1, <2>2
<1> QED
  BY <1>1, <1>2, HeapInvariant, PTL DEF Spec

(* For any number of threads and whatever becomes of the other buckets: when nobody is in
   a critical section of kernel_heap no two free pebbles of it lie side by side; first is
   NULL or a pebble and largest is no smaller than any free pebble at every step; and what
   a caller holds in it is in use, of the size, alignment and kind asked for, and nobody
   else's (kmalloc, mfree and realloc, malloc.cpp). *)
THEOREM HeapOrdered == Spec => []HeapInOrder
<1>1. ASSUME ShapeInv, LockInv, HeapInv, HeapOrder
      PROVE  HeapInOrder
  <2>0. HeapRecord /\ Owned /\ InPieces /\ KernelHeap \in DOMAIN buckets
    BY <1>1 DEF HeapOrder, LockInv
  <2>1. FirstIn(KernelHeap)
    BY <2>0 DEF HeapRecord, Bounded, FirstIn
  <2>2. LargestIn(KernelHeap)
    BY <2>0 DEF HeapRecord, Bounded, LargestIn, FreeAt
  <2>3. CoalescedIn(KernelHeap)
    <3> SUFFICES ASSUME \A t \in Threads : ~Holds(t, KernelHeap)
                 PROVE  \A a \in FreeAt(List) : List[a].next \notin FreeAt(List)
      BY DEF CoalescedIn, List
    <3>1. \A t \in Threads : ~AtHeap(t, {"f_melt"}) /\ ~AtHeap(t, {"f_absorb"})
      BY DEF AtHeap, Holds, CriticalPCs, LockOf
    <3>2. Seams(List) = {}
      BY <2>0, <3>1 DEF InPieces, AtSeam
    <3> QED
      BY <3>2 DEF Seams
  <2>4. ASSUME NEW k \in live, k.p.b = KernelHeap
        PROVE  Usable(k)
    <3>1. k \in HeapLive /\ BlockOK(k) /\ (\A m \in HeapLive : m.p = k.p => m = k)
      BY <2>0, <2>4 DEF HeapLive, Owned
    <3>2. /\ k.p.at \in DOMAIN List /\ ~PEBBLE_IS_FREE(List[k.p.at])
          /\ List[k.p.at].size >= k.req.size
          /\ (k.p.at + PEBBLE_SZ) % k.req.alignment = 0
          /\ InKind(k.req)
      BY <3>1 DEF BlockOK, Fits, UsedAt
    <3>3. /\ buckets[KernelHeap].lflags \cap {"VIRTUAL", "PHYSICAL"} = {"VIRTUAL"}
          /\ k.req.flags \cap {"VIRTUAL", "PHYSICAL"} = {"VIRTUAL"}
      BY <2>0, <3>2 DEF HeapRecord, InKind
    <3>4. ~({"PHYSICAL", "LOW"} \subseteq k.req.flags)
      BY <3>3
    <3>5. \A m \in live : k.p = m.p => k = m
      BY <2>4, <3>1 DEF HeapLive
    <3> QED
      BY <2>0, <2>4, <3>2, <3>3, <3>4, <3>5 DEF Usable, Mapped, List
  <2> QED
    BY <2>1, <2>2, <2>3, <2>4 DEF HeapInOrder
<1> QED
  BY <1>1, HeapOrderInvariant, PTL

-----------------------------------------------------------------------------
(* kernel_heap implements the abstract heap *)

(* Two pebbles of a list share no byte, nor do blocks that fit into them. *)
LEMMA PebblesApart ==
  ASSUME NEW P, NEW bytes, Sound(P, bytes), NEW a \in DOMAIN P, NEW c \in DOMAIN P, a # c,
         NEW m \in Nat, m <= P[a].size, NEW n \in Nat, n <= P[c].size
  PROVE  a + PEBBLE_SZ + m <= c + PEBBLE_SZ \/ c + PEBBLE_SZ + n <= a + PEBBLE_SZ
<1>1. P \in [DOMAIN P -> Pebble] /\ DOMAIN P \subseteq Nat
  BY DEF Sound, IsList
<1>2. a \in Nat /\ c \in Nat /\ P[a].size \in Nat /\ P[c].size \in Nat
  BY <1>1 DEF Pebble
<1>3. ASSUME NEW x \in DOMAIN P, NEW y \in DOMAIN P, x < y
      PROVE  x + PEBBLE_SZ + P[x].size <= y
  <2>1. P[x].next # NULL /\ P[x].next <= y
    BY <1>3 DEF Sound, ListWellFormed, InOrder
  <2>2. P[x].next \in Nat /\ P[x].size \in Nat /\ x \in Nat /\ y \in Nat
    BY <1>1, <2>1 DEF Pebble
  <2>3. x + PEBBLE_SZ + P[x].size <= P[x].next
    BY <2>1 DEF Sound, ListWellFormed, LinksAgree, EndOf
  <2> QED
    BY <2>1, <2>2, <2>3 DEF PEBBLE_SZ
<1>4. CASE a < c
  BY <1>2, <1>3, <1>4 DEF PEBBLE_SZ
<1>5. CASE c < a
  BY <1>2, <1>3, <1>5 DEF PEBBLE_SZ
<1> QED
  BY <1>2, <1>4, <1>5

(* The fields of a block of the abstract heap. *)
LEMMA BytesOf ==
  ASSUME NEW k
  PROVE  /\ BlockBytes(k).place = k.p.b
         /\ BlockBytes(k).from = k.p.at + PEBBLE_SZ
         /\ BlockBytes(k).to = k.p.at + PEBBLE_SZ + k.req.size
  BY DEF BlockBytes

(* Blocks that lie in two pebbles of a list, and fit into them, share no byte. *)
LEMMA BlocksApart ==
  ASSUME NEW P, NEW bytes, Sound(P, bytes), NEW k, NEW m,
         k.p.at \in DOMAIN P, m.p.at \in DOMAIN P, k.p.at # m.p.at,
         k.req.size \in Nat \ {0}, k.req.size <= P[k.p.at].size,
         m.req.size \in Nat \ {0}, m.req.size <= P[m.p.at].size
  PROVE  /\ Abstract!Disjoint(BlockBytes(k), BlockBytes(m))
         /\ BlockBytes(k) # BlockBytes(m)
         /\ BlockBytes(k).from < BlockBytes(k).to
<1>1. k.p.at \in Nat /\ m.p.at \in Nat
  BY DEF Sound, IsList
<1>2. k.p.at + PEBBLE_SZ + k.req.size <= m.p.at + PEBBLE_SZ
      \/ m.p.at + PEBBLE_SZ + m.req.size <= k.p.at + PEBBLE_SZ
  BY PebblesApart
<1>3. Abstract!Disjoint(BlockBytes(k), BlockBytes(m))
  BY <1>2, BytesOf DEF Abstract!Disjoint
<1>4. BlockBytes(k) # BlockBytes(m)
  <2>1. BlockBytes(k).from = k.p.at + PEBBLE_SZ /\ BlockBytes(m).from = m.p.at + PEBBLE_SZ
    BY BytesOf
  <2>2. k.p.at + PEBBLE_SZ # m.p.at + PEBBLE_SZ
    BY <1>1 DEF PEBBLE_SZ
  <2> QED
    BY <2>1, <2>2
<1>5. BlockBytes(k).from < BlockBytes(k).to
  <2>1. k.p.at + PEBBLE_SZ < k.p.at + PEBBLE_SZ + k.req.size
    BY <1>1 DEF PEBBLE_SZ
  <2> QED
    BY <2>1, BytesOf
<1> QED
  BY <1>3, <1>4, <1>5

(* Two blocks of kernel_heap lie in two pebbles of it, each large enough. *)
LEMMA BlocksLie ==
  ASSUME ShapeInv, LockInv, HeapInv, Owned
  PROVE  \A k, m \in HeapLive :
           /\ k.p.at \in DOMAIN List
           /\ k.req.size \in Nat \ {0} /\ k.req.size <= List[k.p.at].size
           /\ k # m => k.p.at # m.p.at
<1>1. ASSUME NEW k \in HeapLive
      PROVE  /\ k.p.at \in DOMAIN List
             /\ k.req.size \in Nat \ {0} /\ k.req.size <= List[k.p.at].size
  <2>1. k \in live /\ BlockOK(k) /\ ProperRequest(k.req)
    BY DEF HeapLive, Owned
  <2>2. k.p.at \in DOMAIN List /\ List[k.p.at].size >= k.req.size /\ k.req.size \in Nat \ {0}
    BY <2>1 DEF BlockOK, UsedAt, Fits, ProperRequest
  <2>3. List[k.p.at].size \in Nat
    BY <2>2, HeapNow DEF Pebble
  <2> QED
    BY <2>2, <2>3
<1>2. ASSUME NEW k \in HeapLive, NEW m \in HeapLive, k # m PROVE k.p.at # m.p.at
  BY <1>2, SamePlace DEF Owned, ShapeInv
<1> QED
  BY <1>1, <1>2

(* So they do after a step. *)
LEMMA BlocksLieNext ==
  ASSUME ShapeInv, LockInv, HeapInv, NEW t \in Threads, StepOK(t), Owned'
  PROVE  \A k, m \in HeapLive' :
           /\ k.p.at \in DOMAIN List'
           /\ k.req.size \in Nat \ {0} /\ k.req.size <= List'[k.p.at].size
           /\ k # m => k.p.at # m.p.at
<1>1. ASSUME NEW k \in HeapLive'
      PROVE  /\ k.p.at \in DOMAIN List'
             /\ k.req.size \in Nat \ {0} /\ k.req.size <= List'[k.p.at].size
  <2>1. k \in live' /\ BlockOK(k)' /\ ProperRequest(k.req)
    BY DEF HeapLive, Owned
  <2>2. k.p.at \in DOMAIN List' /\ List'[k.p.at].size >= k.req.size
        /\ k.req.size \in Nat \ {0}
    BY <2>1 DEF BlockOK, UsedAt, Fits, ProperRequest
  <2>3. List'[k.p.at].size \in Nat
    BY <2>2, HeapNext DEF Pebble
  <2> QED
    BY <2>2, <2>3
<1>2. ASSUME NEW k \in HeapLive', NEW m \in HeapLive', k # m PROVE k.p.at # m.p.at
  <2>1. IsPointer(k.p) /\ IsPointer(m.p) /\ k.p.b = m.p.b
    BY DEF HeapLive, StepOK, ShapeInv, CallsInv, BlockShape
  <2>2. k.p.at = m.p.at => k.p = m.p
    BY <2>1 DEF IsPointer
  <2> QED
    BY <1>2, <2>2 DEF Owned
<1> QED
  BY <1>1, <1>2

(* A step changes what callers hold by one block at most. *)
LEMMA LiveCases ==
  ASSUME NEW t \in Threads, Step(t) \/ Call(t)
  PROVE  \/ live' = live
         \/ \E k \in live : live' = live \ {k}
         \/ \E k : live' = live \cup {k}
<1> DEFINE Same == live' = live
           Less == \E k \in live : live' = live \ {k}
           More == \E k : live' = live \cup {k}
<1>1. ASSUME NEW p, KmallocReturns(t, p) PROVE Same \/ More
  BY <1>1 DEF KmallocReturns
<1>2. ASSUME MfreeReturns(t) PROVE Same \/ More
  BY <1>2 DEF MfreeReturns
<1>3. CASE WalkFirst(t) \/ NewFirstStore(t)
  BY <1>1, <1>3 DEF WalkFirst, NewFirstStore
<1>4. CASE CreateBucket(t) \/ NewTry(t)
  BY <1>1, <1>4 DEF CreateBucket, NewTry, Found, FoundNever
<1>5. CASE FreeCheck(t) \/ WalkLargest(t) \/ RemoveUnmap(t)
  BY <1>2, <1>5 DEF FreeCheck, WalkLargest, RemoveUnmap
<1>6. CASE ShrinkSplit(t)
  BY <1>6 DEF ShrinkSplit
<1>7. CASE SpinLock(t) \/ WalkTry(t) \/ SplitPebble(t) \/ WalkNext(t) \/ InsertLink(t)
           \/ NewLargest(t) \/ NewFirst(t) \/ FreeMark(t) \/ FreeMelt(t) \/ FreeAbsorb(t)
           \/ LoadFirst(t) \/ TestFirst(t) \/ RemovePrev(t) \/ RemoveNext(t) \/ Wild(t)
  BY <1>7 DEF SpinLock, WalkTry, Found, FoundNever, SplitPebble, WalkNext, InsertLink,
     NewLargest, NewFirst, FreeMark, FreeMelt, FreeAbsorb, LoadFirst, TestFirst, RemovePrev,
     RemoveNext, Wild
<1>8. CASE Call(t)
  BY <1>8 DEF Call, Kmalloc, Mfree, ReallocShrink, ReallocGrow
<1> QED
  BY <1>3, <1>4, <1>5, <1>6, <1>7, <1>8 DEF Step

(* What callers hold in kernel_heap is what they hold, as far as it lies there. *)
LEMMA BlocksOf == HeapBlocks = {BlockBytes(k) : k \in HeapLive}
  BY DEF HeapBlocks, HeapLive

(* mfree of a block in kernel_heap, and realloc of one, is Free. *)
LEMMA FreeRefines ==
  ASSUME ShapeInv, LockInv, HeapInv, Owned, NEW k \in live, live' = live \ {k}
  PROVE  Abstract!Free \/ UNCHANGED HeapBlocks
<1>1. HeapLive' = HeapLive \ {k}
  BY DEF HeapLive
<1>2. HeapBlocks' = {BlockBytes(m) : m \in HeapLive \ {k}}
  BY <1>1 DEF HeapBlocks, HeapLive
<1>3. CASE k \in HeapLive
  <2>1. \A m \in HeapLive \ {k} : BlockBytes(m) # BlockBytes(k)
    BY <1>3, BlocksLie, BlocksApart, HeapNow
  <2>2. HeapBlocks' = HeapBlocks \ {BlockBytes(k)} /\ BlockBytes(k) \in HeapBlocks
    BY <1>2, <1>3, <2>1, BlocksOf
  <2> QED
    BY <2>2 DEF Abstract!Free
<1>4. CASE k \notin HeapLive
  <2>1. HeapLive \ {k} = HeapLive
    BY <1>4
  <2> QED
    BY <1>2, <2>1, BlocksOf
<1> QED
  BY <1>3, <1>4

(* kmalloc or realloc that returns a block of kernel_heap is Allocate. *)
LEMMA AllocateRefines ==
  ASSUME ShapeInv, LockInv, HeapInv, NEW t \in Threads, StepOK(t), Owned',
         NEW k, live' = live \cup {k}
  PROVE  Abstract!Allocate \/ UNCHANGED HeapBlocks
<1>1. HeapBlocks' = {BlockBytes(m) : m \in HeapLive'}
  BY DEF HeapBlocks, HeapLive
<1>2. CASE k \in live \/ k.p.b # KernelHeap
  <2>1. HeapLive' = HeapLive
    BY <1>2 DEF HeapLive
  <2> QED
    BY <1>1, <2>1, BlocksOf
<1>3. CASE k \notin live /\ k.p.b = KernelHeap
  <2>1. HeapLive' = HeapLive \cup {k} /\ k \notin HeapLive
    BY <1>3 DEF HeapLive
  <2>2. \A m \in HeapLive : /\ Abstract!Disjoint(BlockBytes(k), BlockBytes(m))
                            /\ BlockBytes(k) # BlockBytes(m)
    <3> TAKE m \in HeapLive
    <3>1. k \in HeapLive' /\ m \in HeapLive' /\ k # m
      BY <2>1
    <3> QED
      BY <3>1, BlocksLieNext, BlocksApart, HeapNext
  <2>3. BlockBytes(k).from < BlockBytes(k).to /\ BlockBytes(k).place = KernelHeap
    <3>1. k.req.size \in Nat \ {0} /\ k.p.at \in Nat
      BY <2>1, BlocksLieNext, HeapNext
    <3>2. k.p.at + PEBBLE_SZ < k.p.at + PEBBLE_SZ + k.req.size
      BY <3>1 DEF PEBBLE_SZ
    <3> QED
      BY <1>3, <3>2, BytesOf
  <2>4. HeapBlocks' = HeapBlocks \cup {BlockBytes(k)} /\ BlockBytes(k) \in HeapBlocks' \ HeapBlocks
    BY <1>1, <2>1, <2>2, BlocksOf
  <2>5. \A y \in HeapBlocks : Abstract!Disjoint(BlockBytes(k), y)
    BY <2>2, BlocksOf
  <2> QED
    BY <2>3, <2>4, <2>5 DEF Abstract!Allocate
<1> QED
  BY <1>2, <1>3

(* kernel_heap is the heap its callers are promised, for any number of threads and
   whatever becomes of the other buckets: each step of kmalloc, mfree and realloc
   gives out one block that shares no byte with the others, takes one back, or
   changes nothing of what the callers hold there (malloc.cpp). *)
THEOREM KernelHeapRefines == Spec => ImplementsAbstractHeap
<1> DEFINE Inv == ShapeInv /\ LockInv /\ HeapInv /\ HeapOrder
<1>1. Init => Abstract!Init
  BY DEF Init, Abstract!Init, HeapBlocks
<1>2. Inv /\ Inv' /\ [Next]_vars => [Abstract!Next]_HeapBlocks
  <2> SUFFICES ASSUME ShapeInv, LockInv, HeapInv, Owned, Owned', [Next]_vars
               PROVE  Abstract!Next \/ UNCHANGED HeapBlocks
    BY DEF HeapOrder
  <2>1. ASSUME live' = live PROVE UNCHANGED HeapBlocks
    BY <2>1 DEF HeapBlocks
  <2>2. CASE Next
    <3>1. PICK t \in Threads : Step(t) \/ Call(t)
      BY <2>2 DEF Next
    <3>2. StepOK(t)
      BY <3>1, StepsOK
    <3>3. \/ live' = live
          \/ \E k \in live : live' = live \ {k}
          \/ \E k : live' = live \cup {k}
      BY <3>1, LiveCases
    <3>4. (\E k \in live : live' = live \ {k}) => Abstract!Free \/ UNCHANGED HeapBlocks
      BY FreeRefines
    <3>5. (\E k : live' = live \cup {k}) => Abstract!Allocate \/ UNCHANGED HeapBlocks
      BY <3>2, AllocateRefines
    <3> QED
      BY <2>1, <3>3, <3>4, <3>5 DEF Abstract!Next
  <2>3. CASE UNCHANGED vars
    BY <2>1, <2>3 DEF vars
  <2> QED
    BY <2>2, <2>3
<1>3. Spec => []Inv
  BY HeapOrderInvariant
<1> QED
  BY <1>1, <1>2, <1>3, PTL DEF Spec, ImplementsAbstractHeap, Abstract!Spec, HeapBlocks, BlockBytes

(* No two blocks that callers hold in kernel_heap share a byte, after any number
   of kmalloc, mfree and realloc: of a heap that implements the abstract heap it is
   enough that each new block is apart from those held when it is handed out. *)
THEOREM HeapBlocksApart == Spec => []Abstract!Apart
<1>1. Abstract!Init => Abstract!Apart
  BY DEF Abstract!Init, Abstract!Apart
<1>2. Abstract!Apart /\ [Abstract!Next]_HeapBlocks => Abstract!Apart'
  <2> SUFFICES ASSUME Abstract!Apart, Abstract!Next \/ UNCHANGED HeapBlocks
               PROVE  Abstract!Apart'
    OBVIOUS
  <2>1. CASE Abstract!Allocate
    <3>1. PICK x \in HeapBlocks' \ HeapBlocks :
            HeapBlocks' = HeapBlocks \cup {x} /\ \A y \in HeapBlocks : Abstract!Disjoint(x, y)
      BY <2>1 DEF Abstract!Allocate
    <3>2. \A y \in HeapBlocks : Abstract!Disjoint(y, x)
      BY <3>1 DEF Abstract!Disjoint
    <3>3. QED
      BY <3>1, <3>2 DEF Abstract!Apart
  <2>2. CASE Abstract!Free
    BY <2>2 DEF Abstract!Free, Abstract!Apart
  <2>3. CASE Abstract!Resize
    <3>1. PICK x \in HeapBlocks, y \in HeapBlocks' :
            /\ HeapBlocks' = (HeapBlocks \ {x}) \cup {y}
            /\ \A z \in HeapBlocks \ {x} : Abstract!Disjoint(y, z)
      BY <2>3 DEF Abstract!Resize
    <3>2. \A z \in HeapBlocks \ {x} : Abstract!Disjoint(z, y)
      BY <3>1 DEF Abstract!Disjoint
    <3>3. QED
      BY <3>1, <3>2 DEF Abstract!Apart
  <2>4. CASE UNCHANGED HeapBlocks
    BY <2>4 DEF Abstract!Apart
  <2>5. QED
    BY <2>1, <2>2, <2>3, <2>4 DEF Abstract!Next
<1> HIDE DEF HeapBlocks
<1>3. Spec => Abstract!Spec
  BY KernelHeapRefines DEF ImplementsAbstractHeap
<1>4. QED
  BY <1>1, <1>2, <1>3, PTL DEF Abstract!Spec
=============================================================================
