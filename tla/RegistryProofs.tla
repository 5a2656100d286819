-------------------------- MODULE RegistryProofs ---------------------------
(***************************************************************************)
(* What holds of the registry for any number of threads and calls, when no *)
(* name of a path looks like a tag.  The argument gives every token of the *)
(* stream a depth: a stream is Nested when tags and depths agree.  In such *)
(* a stream the walks, which are recursive functions over positions, stop  *)
(* where they should; what a call puts in or takes out begins and ends at  *)
(* one depth, so the stream it leaves is Nested again, and base->length is *)
(* still the words of it.  That reg_spinlock keeps two calls from working  *)
(* on the registry at once needs none of this.                             *)
(*                                                                         *)
(* The second half gives every token the path of the hive it is in as      *)
(* well.  A stream then stands for a set of entries, the paths of hives    *)
(* and those of cells with their values; no two places are one entry, a    *)
(* walk finds the place of an entry, and what a call puts in or takes out  *)
(* is one entry more, or an entry and those in it less.  With that the     *)
(* registry implements AbstractRegistry.                                   *)
(***************************************************************************)
EXTENDS RegistryProperties, SequenceTheorems, FiniteSetTheorems, WellFoundedInduction, TLAPS

(* Induction, as a fact about sets of numbers. *)
LEMMA SetInduction ==
  ASSUME NEW S, 0 \in S, \A n \in Nat : n \in S => n + 1 \in S
  PROVE  Nat \subseteq S
<1> SUFFICES ASSUME Nat \ S # {} PROVE FALSE
  OBVIOUS
<1> DEFINE R == OpToRel(<, Nat)
           T == Nat \ S
<1>1. IsWellFoundedOn(R, Nat)
  BY NatLessThanWellFounded
<1>2. \A x, y \in Nat : y < x => <<y, x>> \in R
  BY DEF OpToRel
<1>3. T \subseteq Nat /\ T # {}
  OBVIOUS
<1> HIDE DEF R
<1>4. PICK x \in T : \A y \in T : <<y, x>> \notin R
  <2> HIDE DEF T
  <2> QED
    BY <1>1, <1>3, WFMin
<1>5. x \in Nat /\ x # 0
  BY <1>4
<1>6. x - 1 \in Nat /\ x - 1 < x
  BY <1>5
<1>7. x - 1 \in S
  BY <1>2, <1>4, <1>5, <1>6
<1> QED
  BY <1>4, <1>6, <1>7

(* A set of numbers that is not empty has a smallest. *)
LEMMA HasSmallest ==
  ASSUME NEW S \in SUBSET Nat, S # {}
  PROVE  \E x \in S : \A y \in S : x <= y
<1> DEFINE R == OpToRel(<, Nat)
<1>1. IsWellFoundedOn(R, Nat)
  BY NatLessThanWellFounded
<1>2. \A x, y \in Nat : y < x => <<y, x>> \in R
  BY DEF OpToRel
<1> HIDE DEF R
<1>3. PICK x \in S : \A y \in S : <<y, x>> \notin R
  BY <1>1, WFMin
<1>4. ASSUME NEW y \in S PROVE x <= y
  <2>1. x \in Nat /\ y \in Nat /\ ~ (y < x)
    BY <1>2, <1>3
  <2> QED
    BY <2>1
<1> QED
  BY <1>4

-----------------------------------------------------------------------------
(* The words of a sequence of tokens. *)

IsSum(m, f) ==
  /\ f \in [0 .. Len(m) -> Nat] /\ f[0] = 0
  /\ \A i \in 1 .. Len(m) : f[i] = f[i - 1] + m[i].n

(* A sequence of tokens has sums. *)
LEMMA SumExists ==
  ASSUME NEW T, \A t \in T : t.n \in Nat, NEW m \in Seq(T)
  PROVE  \E f : IsSum(m, f)
<1> DEFINE Upto(k, f) == /\ f \in [0 .. k -> Nat] /\ f[0] = 0
                         /\ \A i \in 1 .. k : f[i] = f[i - 1] + m[i].n
           S == {k \in Nat : k <= Len(m) => \E f : Upto(k, f)}
<1>1. 0 \in S
  <2>1. Upto(0, [i \in 0 .. 0 |-> 0])
    OBVIOUS
  <2> QED
    BY <2>1
<1>2. ASSUME NEW k \in Nat, k \in S PROVE k + 1 \in S
  <2> SUFFICES ASSUME k + 1 <= Len(m) PROVE \E f : Upto(k + 1, f)
    <3> HIDE DEF Upto
    <3> QED
      OBVIOUS
  <2>1. k + 1 \in 1 .. Len(m) /\ Len(m) \in Nat
    OBVIOUS
  <2>2. m[k + 1].n \in Nat
    BY <2>1
  <2>3. PICK f : Upto(k, f)
    <3> HIDE DEF Upto
    <3> QED
      BY <1>2, <2>1
  <2> DEFINE g == [i \in 0 .. k + 1 |-> IF i = k + 1 THEN f[k] + m[k + 1].n ELSE f[i]]
  <2>4. g \in [0 .. k + 1 -> Nat] /\ g[0] = 0
    BY <2>2, <2>3
  <2>5. ASSUME NEW i \in 1 .. k + 1 PROVE g[i] = g[i - 1] + m[i].n
    <3>1. CASE i = k + 1
      BY <3>1
    <3>2. CASE i # k + 1
      <4>1. i \in 1 .. k /\ i - 1 \in 0 .. k /\ i \in 0 .. k + 1 /\ i - 1 \in 0 .. k + 1 /\ i - 1 # k + 1
        BY <3>2
      <4> QED
        BY <2>3, <3>2, <4>1
    <3> QED
      BY <3>1, <3>2
  <2>6. Upto(k + 1, g)
    BY <2>4, <2>5
  <2> QED
    BY <2>6
<1>3. Len(m) \in S
  <2> HIDE DEF S
  <2> QED
    BY <1>1, <1>2, SetInduction
<1> QED
  BY <1>3 DEF IsSum

(* Two sums of a sequence are the same. *)
LEMMA SumUnique ==
  ASSUME NEW m, Len(m) \in Nat, NEW f, IsSum(m, f), NEW g, IsSum(m, g)
  PROVE  f = g
<1> DEFINE S == {k \in Nat : k <= Len(m) => f[k] = g[k]}
<1>1. 0 \in S
  BY DEF IsSum
<1>2. ASSUME NEW k \in Nat, k \in S PROVE k + 1 \in S
  BY <1>2 DEF IsSum
<1>3. Nat \subseteq S
  <2> HIDE DEF S
  <2> QED
    BY <1>1, <1>2, SetInduction
<1> QED
  BY <1>3 DEF IsSum

(* The words of a sequence are the last of its sums. *)
LEMMA WordsIsSum ==
  ASSUME NEW T, \A t \in T : t.n \in Nat, NEW m \in Seq(T), NEW f, IsSum(m, f)
  PROVE  Words(m) = f[Len(m)]
<1> DEFINE Body(g) == [i \in 0 .. Len(m) |-> IF i = 0 THEN 0 ELSE g[i - 1] + m[i].n]
           Fix(g)  == g = Body(g)
<1>1. Fix(f)
  <2>1. \A i \in 0 .. Len(m) : f[i] = IF i = 0 THEN 0 ELSE f[i - 1] + m[i].n
    BY DEF IsSum
  <2> QED
    BY <2>1 DEF IsSum
<1>2. ASSUME NEW g, Fix(g) PROVE IsSum(m, g)
  <2>0. Len(m) \in Nat
    OBVIOUS
  <2>1. DOMAIN g = 0 .. Len(m) /\ g[0] = 0
    BY <1>2
  <2>2. \A i \in 1 .. Len(m) : g[i] = g[i - 1] + m[i].n
    BY <1>2
  <2> DEFINE S == {k \in Nat : k <= Len(m) => g[k] \in Nat}
  <2>3. 0 \in S
    BY <2>1
  <2>4. ASSUME NEW k \in Nat, k \in S PROVE k + 1 \in S
    <3> SUFFICES ASSUME k + 1 <= Len(m) PROVE g[k + 1] \in Nat
      OBVIOUS
    <3>1. k + 1 \in 1 .. Len(m) /\ g[k] \in Nat /\ m[k + 1] \in T
      BY <2>0, <2>4
    <3> QED
      BY <2>2, <3>1
  <2>5. Nat \subseteq S
    <3> HIDE DEF S
    <3> QED
      BY <2>3, <2>4, SetInduction
  <2>6. \A k \in 0 .. Len(m) : g[k] \in Nat
    BY <2>5
  <2>7. g = [k \in 0 .. Len(m) |-> g[k]]
    BY <1>2
  <2> QED
    BY <2>1, <2>2, <2>6, <2>7 DEF IsSum
<1>3. Words(m) = (CHOOSE g : Fix(g))[Len(m)]
  BY DEF Words
<1>4. Fix(CHOOSE g : Fix(g))
  <2> HIDE DEF Fix
  <2> QED
    BY <1>1
<1>5. Len(m) \in Nat
  OBVIOUS
<1> HIDE DEF Fix
<1> QED
  BY <1>2, <1>3, <1>4, <1>5, SumUnique

(* The words of two sequences, one behind the other. *)
LEMMA WordsConcat ==
  ASSUME NEW T, \A t \in T : t.n \in Nat, NEW a \in Seq(T), NEW b \in Seq(T)
  PROVE  /\ Words(a) \in Nat /\ Words(b) \in Nat
         /\ Words(a \o b) = Words(a) + Words(b)
<1>1. PICK f : IsSum(a, f)
  BY SumExists
<1>2. PICK g : IsSum(b, g)
  BY SumExists
<1> DEFINE c == a \o b
           h == [i \in 0 .. Len(c) |-> IF i <= Len(a) THEN f[i] ELSE f[Len(a)] + g[i - Len(a)]]
<1>3. /\ c \in Seq(T) /\ Len(c) = Len(a) + Len(b)
      /\ \A i \in 1 .. Len(c) : c[i] = IF i <= Len(a) THEN a[i] ELSE b[i - Len(a)]
  BY ConcatProperties
<1>4. Len(a) \in Nat /\ Len(b) \in Nat
  OBVIOUS
<1> HIDE DEF c
<1>5. IsSum(c, h)
  <2>0. f \in [0 .. Len(a) -> Nat] /\ g \in [0 .. Len(b) -> Nat] /\ f[0] = 0
    BY <1>1, <1>2 DEF IsSum
  <2>1. h \in [0 .. Len(c) -> Nat] /\ h[0] = 0
    <3>1. \A i \in 0 .. Len(c) : h[i] \in Nat
      <4> TAKE i \in 0 .. Len(c)
      <4>1. CASE i <= Len(a)
        BY <1>3, <1>4, <2>0, <4>1
      <4>2. CASE ~ (i <= Len(a))
        <5>1. i - Len(a) \in 0 .. Len(b) /\ Len(a) \in 0 .. Len(a)
          BY <1>3, <1>4, <4>2
        <5>2. g[i - Len(a)] \in Nat /\ f[Len(a)] \in Nat
          BY <2>0, <5>1
        <5> QED
          BY <4>2, <5>2
      <4> QED
        BY <4>1, <4>2
    <3>2. 0 \in 0 .. Len(c)
      BY <1>3, <1>4
    <3> QED
      BY <1>4, <2>0, <3>1, <3>2
  <2>2. ASSUME NEW i \in 1 .. Len(c) PROVE h[i] = h[i - 1] + c[i].n
    <3>0. i \in 0 .. Len(c) /\ i - 1 \in 0 .. Len(c)
      BY <1>3, <1>4
    <3>1. CASE i <= Len(a)
      <4>1. i \in 1 .. Len(a) /\ c[i] = a[i] /\ h[i] = f[i] /\ h[i - 1] = f[i - 1]
        BY <1>3, <1>4, <3>0, <3>1
      <4> QED
        BY <1>1, <4>1 DEF IsSum
    <3>2. CASE i = Len(a) + 1
      <4>1. /\ c[i] = b[1] /\ h[i] = f[Len(a)] + g[1] /\ h[i - 1] = f[Len(a)]
            /\ 1 \in 1 .. Len(b)
        BY <1>3, <1>4, <3>0, <3>2
      <4>2. g[1] = g[0] + b[1].n /\ g[0] = 0 /\ g[1] \in Nat
        BY <1>2, <4>1 DEF IsSum
      <4>3. b[1].n \in Nat
        BY <4>1
      <4>4. g[1] = b[1].n
        BY <4>2, <4>3
      <4> QED
        BY <4>1, <4>4
    <3>3. CASE i > Len(a) + 1
      <4> DEFINE k == i - Len(a)
      <4>1. /\ k \in 2 .. Len(b) /\ c[i] = b[k] /\ h[i] = f[Len(a)] + g[k]
            /\ h[i - 1] = f[Len(a)] + g[k - 1]
        BY <1>3, <1>4, <3>0, <3>3
      <4> HIDE DEF k
      <4>2. g[k] = g[k - 1] + b[k].n /\ k \in 1 .. Len(b) /\ g[k - 1] \in Nat /\ f[Len(a)] \in Nat
        <5>1. k \in 1 .. Len(b) /\ k - 1 \in 0 .. Len(b) /\ Len(a) \in 0 .. Len(a)
          BY <1>4, <4>1
        <5>2. g[k] = g[k - 1] + b[k].n
          BY <1>2, <5>1 DEF IsSum
        <5> QED
          BY <2>0, <5>1, <5>2
      <4>3. b[k].n \in Nat
        BY <4>2
      <4> QED
        BY <4>1, <4>2, <4>3
    <3> QED
      BY <1>4, <3>1, <3>2, <3>3
  <2> QED
    BY <2>1, <2>2 DEF IsSum
<1>6. Words(a) = f[Len(a)] /\ Words(b) = g[Len(b)] /\ Words(c) = h[Len(c)]
  BY <1>1, <1>2, <1>3, <1>5, WordsIsSum
<1>7. f[Len(a)] \in Nat /\ g[Len(b)] \in Nat /\ g[0] = 0
  <2>1. f \in [0 .. Len(a) -> Nat] /\ g \in [0 .. Len(b) -> Nat] /\ g[0] = 0
    BY <1>1, <1>2 DEF IsSum
  <2>2. Len(a) \in 0 .. Len(a) /\ Len(b) \in 0 .. Len(b)
    BY <1>4
  <2> QED
    BY <2>1, <2>2
<1>8. h[Len(c)] = f[Len(a)] + g[Len(b)]
  <2>1. CASE Len(b) = 0
    BY <1>3, <1>4, <1>7, <2>1
  <2>2. CASE Len(b) # 0
    BY <1>3, <1>4, <1>7, <2>2
  <2> QED
    BY <2>1, <2>2
<1> QED
  BY <1>6, <1>7, <1>8 DEF c

(* The words of one token. *)
LEMMA WordsOne ==
  ASSUME NEW t, t.n \in Nat
  PROVE  Words(<<t>>) = t.n
<1> DEFINE f == [i \in 0 .. 1 |-> IF i = 0 THEN 0 ELSE t.n]
<1>1. IsSum(<<t>>, f)
  BY DEF IsSum
<1>2. <<t>> \in Seq({t})
  OBVIOUS
<1>3. Words(<<t>>) = f[Len(<<t>>)]
  <2> HIDE DEF f
  <2> QED
    BY <1>1, <1>2, WordsIsSum
<1> QED
  BY <1>3

(* The tokens a registry has when it is written at such paths. *)
Tokens ==
  {REG_HIVE_SIG_S, REG_HIVE_SIG_E, REG_BASE_SIG_E}
    \cup {HiveName(name, depth) : name \in PlainName, depth \in Nat}
    \cup {Cell(name, v.type, v.len, v.data) : name \in PlainName, v \in {Stored(v) : v \in Values}}

IsName(tok) == tok.w \notin SigWords

(* What a token is, it is by its first dword. *)
LEMMA TokenKinds ==
  ASSUME NEW tok \in Tokens
  PROVE  /\ tok.n \in Nat
         /\ tok.w = "HIVE" <=> tok = REG_HIVE_SIG_S
         /\ tok.w = "EVIH" <=> tok = REG_HIVE_SIG_E
         /\ tok.w = "ESAB" <=> tok = REG_BASE_SIG_E
         /\ IsName(tok) => tok = HiveName(tok.w, tok.depth) /\ tok.depth \in Nat /\ tok.w \in PlainName
         /\ tok.w = "CELL" => tok.name \in PlainName
<1>1. CASE tok \in {REG_HIVE_SIG_S, REG_HIVE_SIG_E, REG_BASE_SIG_E}
  BY <1>1 DEF REG_HIVE_SIG_S, REG_HIVE_SIG_E, REG_BASE_SIG_E, IsName, SigWords
<1>2. CASE \E name \in PlainName, depth \in Nat : tok = HiveName(name, depth)
  <2>1. PICK name \in PlainName, depth \in Nat : tok = HiveName(name, depth)
    BY <1>2
  <2>2. tok.w = name /\ tok.depth = depth /\ tok.n = 10
    BY <2>1 DEF HiveName
  <2>3. tok.w \notin SigWords /\ tok.w # "HIVE" /\ tok.w # "EVIH" /\ tok.w # "ESAB" /\ tok.w # "CELL"
    BY <2>2 DEF PlainName, SigWords
  <2>4. tok # REG_HIVE_SIG_S /\ tok # REG_HIVE_SIG_E /\ tok # REG_BASE_SIG_E
    BY <2>2 DEF REG_HIVE_SIG_S, REG_HIVE_SIG_E, REG_BASE_SIG_E
  <2> QED
    BY <2>1, <2>2, <2>3, <2>4 DEF IsName
<1>3. CASE \E name \in PlainName, v \in {Stored(v) : v \in Values} : tok = Cell(name, v.type, v.len, v.data)
  <2>1. PICK name \in PlainName, v \in Values : tok = Cell(name, Stored(v).type, Stored(v).len, Stored(v).data)
    BY <1>3
  <2>2. Stored(v).len = v.len
    BY RegistryAssumption DEF Stored
  <2>3. v.len \in Nat /\ v.len \in 0 .. REG_MAX_SIZE
    BY RegistryAssumption, SizeAssumption
  <2>4. tok.w = "CELL" /\ tok.name = name /\ tok.n = 12 + v.len
    BY <2>1, <2>2 DEF Cell, ItemWords
  <2> QED
    BY <2>3, <2>4 DEF IsName, SigWords, REG_HIVE_SIG_S, REG_HIVE_SIG_E, REG_BASE_SIG_E
<1> QED
  BY <1>1, <1>2, <1>3 DEF Tokens

-----------------------------------------------------------------------------
(* A stream is nested when there is a depth d for every token: one System hive
   at depth 0, all tokens but the base end in it, every hive with its name
   behind its opening tag and the depth it is at behind its name. *)
Nested(m, d) ==
  /\ m \in Seq(Tokens) /\ d \in [1 .. Len(m) -> Nat]
  /\ Len(m) >= 2
  /\ m[1].w = "HIVE" /\ d[1] = 0 /\ m[Len(m)].w = "ESAB" /\ d[Len(m)] = 0
  /\ \A i \in 2 .. Len(m) - 1 : d[i] > 0 /\ m[i].w # "ESAB"
  /\ \A i \in 1 .. Len(m) - 1 :
       /\ m[i].w = "HIVE" => d[i + 1] = d[i] + 1
       /\ m[i].w = "EVIH" => d[i] = d[i + 1] + 1
       /\ m[i].w \notin {"HIVE", "EVIH"} => d[i + 1] = d[i]
       /\ m[i].w = "HIVE" => IsName(m[i + 1]) /\ m[i + 1].depth = d[i]
       /\ IsName(m[i + 1]) => m[i].w = "HIVE"

(* The first place from i on where the walk to an end tag stops that has come
   to i with k hives open. *)
StopsAt(m, d, i, k, j) ==
  /\ j \in i .. Len(m)
  /\ m[j].w = "ESAB" \/ (m[j].w = "EVIH" /\ k + d[j] - d[i] <= 0)

FirstStop(m, d, i, k, j) ==
  StopsAt(m, d, i, k, j) /\ \A l \in i .. j - 1 : ~ StopsAt(m, d, i, k, l)

EndWalk(m, w) ==
  w = [i \in DOMAIN m |->
        [depth \in Nat |->
          CASE m[i].w = "HIVE" -> w[i + 1][depth + 1]
            [] m[i].w = "EVIH" -> IF depth > 0 THEN w[i + 1][depth - 1] ELSE i
            [] m[i].w = "ESAB" -> i
            [] OTHER -> w[i + 1][depth]]]

(* There is such a place, and one only. *)
LEMMA FirstStopExists ==
  ASSUME NEW m, NEW d, Nested(m, d), NEW i \in 1 .. Len(m), NEW k \in Nat
  PROVE  \E j \in i .. Len(m) : FirstStop(m, d, i, k, j)
<1>0. Len(m) \in Nat
  BY DEF Nested
<1> DEFINE S == {j \in i .. Len(m) : StopsAt(m, d, i, k, j)}
<1>1. Len(m) \in S
  BY <1>0 DEF StopsAt, Nested
<1>2. S \in SUBSET Nat /\ S # {}
  BY <1>1
<1> HIDE DEF S
<1>3. PICK j \in S : \A l \in S : j <= l
  BY <1>2, HasSmallest
<1> QED
  BY <1>0, <1>3 DEF S, FirstStop

(* Two first places where the walk stops are one. *)
LEMMA FirstStopUnique ==
  ASSUME NEW m, NEW d, NEW i \in Nat, NEW k, Len(m) \in Nat,
         NEW j, FirstStop(m, d, i, k, j), NEW l, FirstStop(m, d, i, k, l)
  PROVE  j = l
<1>1. j \in i .. Len(m) /\ l \in i .. Len(m)
  BY DEF FirstStop, StopsAt
<1>2. ~ (j < l) /\ ~ (l < j)
  BY <1>1 DEF FirstStop
<1> QED
  BY <1>1, <1>2

(* A walk that does not stop at i goes on from i + 1. *)
LEMMA StopAhead ==
  ASSUME NEW m, NEW d, Nested(m, d), NEW i \in 1 .. Len(m), NEW k \in Nat,
         NEW h \in Nat, m[i].w # "ESAB", ~ (m[i].w = "EVIH" /\ k = 0),
         m[i].w = "HIVE" => h = k + 1, m[i].w = "EVIH" => h = k - 1,
         m[i].w \notin {"HIVE", "EVIH"} => h = k
  PROVE  /\ i + 1 \in 1 .. Len(m)
         /\ \A j \in i + 1 .. Len(m) : FirstStop(m, d, i, k, j) <=> FirstStop(m, d, i + 1, h, j)
<1>0. Len(m) \in Nat
  BY DEF Nested
<1>1. i # Len(m)
  BY DEF Nested
<1>2. i + 1 \in 1 .. Len(m) /\ i \in 1 .. Len(m) - 1
  BY <1>0, <1>1
<1>3. h - d[i + 1] = k - d[i] /\ d[i] \in Nat /\ d[i + 1] \in Nat
  <2>1. d[i] \in Nat /\ d[i + 1] \in Nat
    BY <1>0, <1>2 DEF Nested
  <2>2. CASE m[i].w = "HIVE"
    <3>1. d[i + 1] = d[i] + 1 /\ h = k + 1
      BY <1>2, <2>2 DEF Nested
    <3> QED
      BY <2>1, <3>1
  <2>3. CASE m[i].w = "EVIH"
    <3>1. d[i] = d[i + 1] + 1 /\ h = k - 1
      BY <1>2, <2>3 DEF Nested
    <3> QED
      BY <2>1, <3>1
  <2>4. CASE m[i].w \notin {"HIVE", "EVIH"}
    <3>1. d[i] = d[i + 1] /\ h = k
      BY <1>2, <2>4 DEF Nested
    <3> QED
      BY <2>1, <3>1
  <2> QED
    BY <2>2, <2>3, <2>4
<1>4. ~ StopsAt(m, d, i, k, i)
  BY <1>3 DEF StopsAt
<1>5. ASSUME NEW j \in i + 1 .. Len(m) PROVE StopsAt(m, d, i, k, j) <=> StopsAt(m, d, i + 1, h, j)
  <2>1. j \in 1 .. Len(m) /\ j \in i .. Len(m)
    BY <1>0
  <2>2. d[j] \in Nat
    BY <2>1 DEF Nested
  <2>3. PICK x \in Int, a \in Int, b \in Int : x = d[j] /\ a = d[i + 1] /\ b = d[i]
    BY <1>3, <2>2
  <2>4. h + d[j] - d[i + 1] = k + d[j] - d[i]
    <3>1. h - a = k - b
      BY <1>3, <2>3
    <3>2. h + x - a = k + x - b
      BY <3>1
    <3> QED
      BY <2>3, <3>2
  <2> QED
    BY <2>1, <2>4 DEF StopsAt
<1>6. ASSUME NEW j \in i + 1 .. Len(m)
      PROVE  FirstStop(m, d, i, k, j) <=> FirstStop(m, d, i + 1, h, j)
  <2>1. \A l \in i .. j - 1 : l = i \/ l \in i + 1 .. j - 1
    BY <1>0
  <2>2. \A l \in i + 1 .. j - 1 : l \in i .. j - 1 /\ l \in i + 1 .. Len(m)
    BY <1>0
  <2> QED
    BY <1>4, <1>5, <2>1, <2>2 DEF FirstStop
<1> QED
  BY <1>2, <1>6

(* The walk exists. *)
LEMMA EndWalkExists ==
  ASSUME NEW m, NEW d, Nested(m, d)
  PROVE  \E w : EndWalk(m, w)
<1>0. Len(m) \in Nat /\ DOMAIN m = 1 .. Len(m)
  BY DEF Nested
<1> DEFINE first(i, k) == CHOOSE j \in i .. Len(m) : FirstStop(m, d, i, k, j)
           w == [i \in DOMAIN m |-> [k \in Nat |-> first(i, k)]]
<1>1. ASSUME NEW i \in 1 .. Len(m), NEW k \in Nat PROVE first(i, k) \in i .. Len(m) /\ FirstStop(m, d, i, k, first(i, k))
  BY FirstStopExists
<1>2. ASSUME NEW i \in 1 .. Len(m), NEW k \in Nat, NEW j \in i .. Len(m), FirstStop(m, d, i, k, j) PROVE first(i, k) = j
  BY <1>0, <1>1, <1>2, FirstStopUnique
<1> HIDE DEF first
<1>3. \A i \in 1 .. Len(m), k \in Nat : w[i][k] = first(i, k)
  BY <1>0
<1>4. ASSUME NEW i \in 1 .. Len(m), NEW k \in Nat
      PROVE  w[i][k] = CASE m[i].w = "HIVE" -> w[i + 1][k + 1]
                         [] m[i].w = "EVIH" -> IF k > 0 THEN w[i + 1][k - 1] ELSE i
                         [] m[i].w = "ESAB" -> i
                         [] OTHER -> w[i + 1][k]
  <2>1. CASE m[i].w = "ESAB" \/ (m[i].w = "EVIH" /\ k = 0)
    <3>1. FirstStop(m, d, i, k, i)
      <4>1. i \in i .. Len(m) /\ i .. i - 1 = {} /\ d[i] \in Nat
        BY <1>0 DEF Nested
      <4>2. k + d[i] - d[i] = k
        BY <4>1
      <4> QED
        BY <2>1, <4>1, <4>2 DEF FirstStop, StopsAt
    <3>2. first(i, k) = i
      BY <1>0, <1>2, <3>1
    <3> QED
      BY <1>3, <2>1, <3>2
  <2>2. CASE ~ (m[i].w = "ESAB" \/ (m[i].w = "EVIH" /\ k = 0))
    <3> DEFINE h == CASE m[i].w = "HIVE" -> k + 1 [] m[i].w = "EVIH" -> k - 1 [] OTHER -> k
    <3>1. h \in Nat
      BY <2>2
    <3>2. /\ i + 1 \in 1 .. Len(m)
          /\ \A j \in i + 1 .. Len(m) : FirstStop(m, d, i, k, j) <=> FirstStop(m, d, i + 1, h, j)
      <4>1. m[i].w # "ESAB" /\ ~ (m[i].w = "EVIH" /\ k = 0)
        BY <2>2
      <4> QED
        BY <3>1, <4>1, StopAhead
    <3>3. w[i + 1][h] = first(i + 1, h) /\ w[i][k] = first(i, k)
      BY <1>3, <3>1, <3>2
    <3>4. first(i + 1, h) \in i + 1 .. Len(m) /\ FirstStop(m, d, i + 1, h, first(i + 1, h))
      BY <1>1, <3>1, <3>2
    <3>5. first(i, k) = first(i + 1, h)
      <4>1. FirstStop(m, d, i, k, first(i + 1, h)) /\ first(i + 1, h) \in i .. Len(m)
        BY <1>0, <3>2, <3>4
      <4> QED
        BY <1>2, <4>1
    <3>6. w[i][k] = w[i + 1][h]
      BY <3>3, <3>5
    <3> HIDE DEF w
    <3> QED
      BY <2>2, <3>6
  <2> QED
    BY <2>1, <2>2
<1>5. EndWalk(m, w)
  BY <1>0, <1>4 DEF EndWalk
<1> QED
  BY <1>5

(* A walk stops at the first place to stop at. *)
LEMMA EndWalkStops ==
  ASSUME NEW m, NEW d, Nested(m, d), NEW w, EndWalk(m, w), NEW i \in 1 .. Len(m), NEW k \in Nat
  PROVE  w[i][k] \in i .. Len(m) /\ FirstStop(m, d, i, k, w[i][k])
<1>0. Len(m) \in Nat /\ DOMAIN m = 1 .. Len(m)
  BY DEF Nested
<1>1. ASSUME NEW a \in 1 .. Len(m), NEW b \in Nat
      PROVE  w[a][b] = CASE m[a].w = "HIVE" -> w[a + 1][b + 1]
                         [] m[a].w = "EVIH" -> IF b > 0 THEN w[a + 1][b - 1] ELSE a
                         [] m[a].w = "ESAB" -> a
                         [] OTHER -> w[a + 1][b]
  BY <1>0 DEF EndWalk
<1> DEFINE Right(a) == \A b \in Nat : w[a][b] \in a .. Len(m) /\ FirstStop(m, d, a, b, w[a][b])
           S == {n \in Nat : n < Len(m) => Right(Len(m) - n)}
<1>2. ASSUME NEW a \in 1 .. Len(m), a # Len(m) => Right(a + 1) PROVE Right(a)
  <2> TAKE b \in Nat
  <2>1. CASE m[a].w = "ESAB" \/ (m[a].w = "EVIH" /\ b = 0)
    <3>1. FirstStop(m, d, a, b, a)
      <4>1. a \in a .. Len(m) /\ a .. a - 1 = {} /\ d[a] \in Nat
        BY <1>0 DEF Nested
      <4>2. b + d[a] - d[a] = b
        BY <4>1
      <4> QED
        BY <2>1, <4>1, <4>2 DEF FirstStop, StopsAt
    <3>2. w[a][b] = a
      BY <1>1, <2>1
    <3> QED
      BY <1>0, <3>1, <3>2
  <2>2. CASE ~ (m[a].w = "ESAB" \/ (m[a].w = "EVIH" /\ b = 0))
    <3> DEFINE h == CASE m[a].w = "HIVE" -> b + 1 [] m[a].w = "EVIH" -> b - 1 [] OTHER -> b
    <3>1. h \in Nat
      BY <2>2
    <3>2. /\ a + 1 \in 1 .. Len(m)
          /\ \A j \in a + 1 .. Len(m) : FirstStop(m, d, a, b, j) <=> FirstStop(m, d, a + 1, h, j)
      <4>1. m[a].w # "ESAB" /\ ~ (m[a].w = "EVIH" /\ b = 0)
        BY <2>2
      <4> QED
        BY <3>1, <4>1, StopAhead
    <3>3. w[a][b] = w[a + 1][h]
      BY <1>1, <2>2
    <3>4. w[a + 1][h] \in a + 1 .. Len(m) /\ FirstStop(m, d, a + 1, h, w[a + 1][h])
      BY <1>0, <1>2, <3>1, <3>2
    <3> QED
      BY <1>0, <3>2, <3>3, <3>4
  <2> QED
    BY <2>1, <2>2
<1>3. 0 \in S
  <2>1. Len(m) \in 1 .. Len(m)
    BY <1>0 DEF Nested
  <2>2. Right(Len(m))
    <3> HIDE DEF Right
    <3> QED
      BY <1>2, <2>1
  <2> HIDE DEF Right
  <2> QED
    BY <1>0, <2>2
<1>4. ASSUME NEW n \in Nat, n \in S PROVE n + 1 \in S
  <2> HIDE DEF Right
  <2> SUFFICES ASSUME n + 1 < Len(m) PROVE Right(Len(m) - (n + 1))
    OBVIOUS
  <2> DEFINE a == Len(m) - (n + 1)
  <2>1. a \in 1 .. Len(m) /\ a + 1 = Len(m) - n
    BY <1>0
  <2> HIDE DEF a
  <2>2. Right(a + 1)
    BY <1>0, <1>4, <2>1
  <2>3. Right(a)
    BY <1>2, <2>1, <2>2
  <2> QED
    BY <2>3 DEF a
<1>5. Nat \subseteq S
  <2> HIDE DEF S
  <2> QED
    BY <1>3, <1>4, SetInduction
<1>6. Len(m) - i \in Nat /\ Len(m) - i < Len(m) /\ Len(m) - (Len(m) - i) = i
  BY <1>0
<1>7. Right(i)
  <2> HIDE DEF Right
  <2> QED
    BY <1>5, <1>6
<1> QED
  BY <1>7

(* The token at j closes the hive that is opened at p. *)
EndsHive(m, d, p, j) ==
  /\ j \in p + 2 .. Len(m) - 1 /\ m[j].w = "EVIH" /\ d[j] = d[p] + 1
  /\ \A l \in p + 1 .. j : d[l] > d[p]

(* In a nested stream the walk to the end of a hive ends at its own end tag. *)
LEMMA EndTagFound ==
  ASSUME NEW m, NEW d, Nested(m, d), NEW p \in 1 .. Len(m), m[p].w = "HIVE"
  PROVE  EndsHive(m, d, p, FindEndTag(m, p))
<1>0. Len(m) \in Nat
  BY DEF Nested
<1>1. p \in 1 .. Len(m) - 1 /\ p + 1 \in 1 .. Len(m) /\ d[p + 1] = d[p] + 1 /\ IsName(m[p + 1])
  <2>1. p # Len(m)
    BY DEF Nested
  <2>2. p \in 1 .. Len(m) - 1 /\ p + 1 \in 1 .. Len(m)
    BY <1>0, <2>1
  <2> QED
    BY <2>2 DEF Nested
<1>2. \A l \in 1 .. Len(m) : d[l] \in Nat
  BY <1>0 DEF Nested
<1> DEFINE j == FindEndTag(m, p)
<1>3. j \in p + 1 .. Len(m) /\ FirstStop(m, d, p + 1, 0, j)
  <2>1. \E w : EndWalk(m, w)
    BY EndWalkExists
  <2>2. EndWalk(m, CHOOSE w : EndWalk(m, w))
    BY <2>1
  <2>3. j = (CHOOSE w : EndWalk(m, w))[p + 1][0]
    BY DEF FindEndTag, EndWalk
  <2> QED
    BY <1>1, <2>2, <2>3, EndWalkStops
<1> HIDE DEF j
<1>4. \A l \in p + 1 .. j - 1 : ~ (m[l].w = "EVIH" /\ d[l] <= d[p] + 1)
  <2> TAKE l \in p + 1 .. j - 1
  <2>1. l \in p + 1 .. Len(m) /\ l \in 1 .. Len(m)
    BY <1>0, <1>3
  <2>2. ~ StopsAt(m, d, p + 1, 0, l)
    BY <1>3 DEF FirstStop
  <2>3. d[l] \in Nat /\ d[p] \in Nat
    BY <1>2, <2>1
  <2>4. ~ (m[l].w = "EVIH" /\ 0 + d[l] - d[p + 1] <= 0)
    BY <2>1, <2>2 DEF StopsAt
  <2> QED
    BY <1>1, <2>3, <2>4
<1>5. \A l \in p + 1 .. j : d[l] > d[p]
  <2> SUFFICES ASSUME NEW b \in p + 1 .. j, ~ (d[b] > d[p]) PROVE FALSE
    OBVIOUS
  <2> DEFINE S == {l \in p + 1 .. j : ~ (d[l] > d[p])}
  <2>1. S \in SUBSET Nat /\ S # {}
    BY <1>3
  <2> HIDE DEF S
  <2>2. PICK c \in S : \A l \in S : c <= l
    BY <2>1, HasSmallest
  <2>3. c \in p + 1 .. j /\ ~ (d[c] > d[p]) /\ \A l \in p + 1 .. c - 1 : d[l] > d[p]
    BY <1>0, <1>3, <2>2 DEF S
  <2>4. c # p + 1
    BY <1>1, <1>2, <2>3
  <2>5. c - 1 \in p + 1 .. c - 1 /\ c - 1 \in p + 1 .. j - 1 /\ c - 1 \in 1 .. Len(m) - 1
        /\ c \in 1 .. Len(m)
    BY <1>0, <1>3, <2>3, <2>4
  <2>6. d[c - 1] > d[p] /\ d[c - 1] \in Nat /\ d[c] \in Nat /\ d[p] \in Nat
    BY <1>2, <2>3, <2>5
  <2>7. /\ m[c - 1].w = "HIVE" => d[c] = d[c - 1] + 1
        /\ m[c - 1].w = "EVIH" => d[c - 1] = d[c] + 1
        /\ m[c - 1].w \notin {"HIVE", "EVIH"} => d[c] = d[c - 1]
    <3> DEFINE b1 == c - 1
    <3>1. b1 \in 1 .. Len(m) - 1 /\ c = b1 + 1
      BY <2>3, <2>5
    <3> HIDE DEF b1
    <3>2. /\ m[b1].w = "HIVE" => d[b1 + 1] = d[b1] + 1
          /\ m[b1].w = "EVIH" => d[b1] = d[b1 + 1] + 1
          /\ m[b1].w \notin {"HIVE", "EVIH"} => d[b1 + 1] = d[b1]
      BY <3>1 DEF Nested
    <3> QED
      BY <3>1, <3>2 DEF b1
  <2>8. m[c - 1].w = "EVIH" /\ d[c - 1] <= d[p] + 1
    <3> DEFINE w == m[c - 1].w
               x == d[c - 1]
               y == d[c]
               z == d[p]
    <3>1. x \in Nat /\ y \in Nat /\ z \in Nat /\ x > z /\ ~ (y > z)
      BY <2>3, <2>6
    <3>2. (w = "HIVE" => y = x + 1) /\ (w = "EVIH" => x = y + 1)
            /\ (w \notin {"HIVE", "EVIH"} => y = x)
      BY <2>7
    <3> HIDE DEF w, x, y, z
    <3>3. y # x + 1 /\ y # x
      BY <3>1
    <3>4. w = "EVIH" /\ x = y + 1
      BY <3>2, <3>3
    <3>5. w = "EVIH" /\ x <= z + 1
      BY <3>1, <3>4
    <3> QED
      BY <3>5 DEF w, x, z
  <2> QED
    BY <1>4, <2>5, <2>8
<1>6. j # Len(m)
  <2>1. j \in p + 1 .. j
    BY <1>0, <1>3
  <2> QED
    BY <1>2, <1>5, <2>1 DEF Nested
<1>7. j \in 2 .. Len(m) - 1 /\ j \in 1 .. Len(m)
  BY <1>0, <1>3, <1>6
<1>8. m[j].w = "EVIH" /\ 0 + d[j] - d[p + 1] <= 0
  BY <1>3, <1>7 DEF FirstStop, StopsAt, Nested
<1>9. d[j] = d[p] + 1
  <2>1. j \in p + 1 .. j
    BY <1>0, <1>3
  <2>2. d[j] > d[p] /\ d[j] \in Nat /\ d[p] \in Nat
    BY <1>2, <1>5, <1>7, <2>1
  <2> QED
    BY <1>1, <1>8, <2>2
<1>10. j # p + 1
  BY <1>1, <1>8 DEF IsName, SigWords
<1>11. j \in p + 2 .. Len(m) - 1
  BY <1>0, <1>3, <1>7, <1>10
<1> QED
  BY <1>5, <1>8, <1>9, <1>11 DEF EndsHive, j

-----------------------------------------------------------------------------
(* The walk to an item. *)

IsItem(m, name, sig, j) ==
  \/ sig = "HIVE" /\ m[j].w = "HIVE" /\ m[j + 1].w = name
  \/ sig = "CELL" /\ m[j].w = "CELL" /\ m[j].name = name

(* Where the walk that has come to i with k hives open may stop: at the item,
   at the end of the hive, or where it is not at an item at all. *)
ItemStop(m, d, name, sig, i, k, j) ==
  /\ j \in i .. Len(m) /\ (j = i \/ ~ IsName(m[j]))
  /\ \/ IsItem(m, name, sig, j) /\ k + d[j] - d[i] = 1
     \/ m[j].w = "EVIH" /\ k + d[j] - d[i] <= 1
     \/ m[j].w = "ESAB"
     \/ IsName(m[j])

FirstItemStop(m, d, name, sig, i, k, j) ==
  /\ ItemStop(m, d, name, sig, i, k, j)
  /\ \A l \in i .. j - 1 : ~ ItemStop(m, d, name, sig, i, k, l)

ItemWalk(m, name, sig, w) ==
  w = [i \in DOMAIN m |->
        [depth \in Nat |->
          CASE m[i].w = "HIVE" ->
                 IF depth = 1 /\ sig = "HIVE" /\ m[i + 1].w = name THEN i
                 ELSE w[i + 2][depth + 1]
            [] m[i].w = "CELL" ->
                 IF depth = 1 /\ sig = "CELL" /\ m[i].name = name THEN i
                 ELSE w[i + 1][depth]
            [] m[i].w = "EVIH" -> IF depth <= 1 THEN NULL ELSE w[i + 1][depth - 1]
            [] OTHER -> NULL]]

(* What the walk returns when it stops at j. *)
Outcome(m, j) == IF m[j].w \in {"HIVE", "CELL"} THEN j ELSE NULL

(* The walk to an item stops somewhere in the stream. *)
LEMMA ItemStopExists ==
  ASSUME NEW m, NEW d, Nested(m, d), NEW name, NEW sig, NEW i \in 1 .. Len(m), NEW k \in Nat
  PROVE  \E j \in i .. Len(m) : FirstItemStop(m, d, name, sig, i, k, j)
<1>0. Len(m) \in Nat
  BY DEF Nested
<1> DEFINE S == {j \in i .. Len(m) : ItemStop(m, d, name, sig, i, k, j)}
<1>1. Len(m) \in S
  BY <1>0 DEF ItemStop, Nested, IsName, SigWords
<1>2. S \in SUBSET Nat /\ S # {}
  BY <1>1
<1> HIDE DEF S
<1>3. PICK j \in S : \A l \in S : j <= l
  BY <1>2, HasSmallest
<1> QED
  BY <1>0, <1>3 DEF S, FirstItemStop

(* Two first places where the walk to an item stops are one. *)
LEMMA ItemStopUnique ==
  ASSUME NEW m, NEW d, NEW name, NEW sig, NEW i \in Nat, NEW k, Len(m) \in Nat,
         NEW j, FirstItemStop(m, d, name, sig, i, k, j), NEW l, FirstItemStop(m, d, name, sig, i, k, l)
  PROVE  j = l
<1>1. j \in i .. Len(m) /\ l \in i .. Len(m)
  BY DEF FirstItemStop, ItemStop
<1>2. ~ (j < l) /\ ~ (l < j)
  BY <1>1 DEF FirstItemStop
<1> QED
  BY <1>1, <1>2

(* The token the walk looks at after i, and the depth it is then at. *)
Onward(m, i)   == IF m[i].w = "HIVE" THEN i + 2 ELSE i + 1
Deeper(m, i, k) == IF m[i].w = "HIVE" THEN k + 1 ELSE IF m[i].w = "EVIH" THEN k - 1 ELSE k

(* A walk that does not stop at i goes on. *)
LEMMA ItemStopAhead ==
  ASSUME NEW m, NEW d, Nested(m, d), NEW name, NEW sig, NEW i \in 1 .. Len(m), NEW k \in Nat,
         ~ ItemStop(m, d, name, sig, i, k, i)
  PROVE  /\ m[i].w \in {"HIVE", "CELL"} \/ (m[i].w = "EVIH" /\ k > 1)
         /\ Deeper(m, i, k) \in Nat
         /\ Onward(m, i) \in i + 1 .. Len(m)
         /\ \A j \in Onward(m, i) .. Len(m) :
              FirstItemStop(m, d, name, sig, i, k, j)
                <=> FirstItemStop(m, d, name, sig, Onward(m, i), Deeper(m, i, k), j)
<1>0. Len(m) \in Nat /\ \A l \in 1 .. Len(m) : d[l] \in Nat
  BY DEF Nested
<1>1. m[i].w # "ESAB" /\ ~ IsName(m[i]) /\ (m[i].w = "EVIH" => k > 1)
  <2>1. i \in i .. Len(m) /\ k + d[i] - d[i] = k
    BY <1>0
  <2> QED
    BY <2>1 DEF ItemStop
<1>2. i # Len(m) /\ i + 1 \in 1 .. Len(m) /\ i \in 1 .. Len(m) - 1
  BY <1>0, <1>1 DEF Nested
<1>3. m[i].w \in {"HIVE", "CELL"} \/ (m[i].w = "EVIH" /\ k > 1)
  BY <1>1 DEF IsName, SigWords
<1> DEFINE n == Onward(m, i)
           h == Deeper(m, i, k)
<1>4. h \in Nat
  BY <1>3 DEF Deeper
<1>5. /\ n \in i + 1 .. Len(m) /\ ~ IsName(m[n]) /\ h - d[n] = k - d[i]
      /\ \A l \in i + 1 .. n - 1 : IsName(m[l])
  <2>1. CASE m[i].w = "HIVE"
    <3>1. IsName(m[i + 1]) /\ d[i + 1] = d[i] + 1
      BY <1>2, <2>1 DEF Nested
    <3>2. i + 1 # Len(m)
      BY <3>1 DEF Nested, IsName, SigWords
    <3>3. i + 1 \in 1 .. Len(m) - 1 /\ i + 2 \in i + 1 .. Len(m) /\ (i + 1) + 1 = i + 2
      BY <1>0, <1>2, <3>2
    <3>4. ~ IsName(m[(i + 1) + 1]) /\ d[(i + 1) + 1] = d[i + 1]
      BY <3>1, <3>3 DEF Nested, IsName, SigWords
    <3>5. n = i + 2 /\ h = k + 1
      BY <2>1 DEF Onward, Deeper
    <3>6. PICK a \in Int : a = d[i]
      BY <1>0
    <3>7. d[i + 2] = a + 1
      BY <3>1, <3>3, <3>4, <3>6
    <3>8. (k + 1) - (a + 1) = k - a
      BY <3>6
    <3>9. \A l \in i + 1 .. i + 1 : l = i + 1
      OBVIOUS
    <3> QED
      BY <3>1, <3>3, <3>4, <3>5, <3>6, <3>7, <3>8, <3>9
  <2>2. CASE m[i].w # "HIVE"
    <3>1. ~ IsName(m[i + 1])
      BY <1>2, <2>2 DEF Nested
    <3>2. n = i + 1 /\ i + 1 .. (i + 1) - 1 = {}
      BY <2>2 DEF Onward
    <3>3. CASE m[i].w = "EVIH"
      <4>1. d[i] = d[i + 1] + 1 /\ h = k - 1
        BY <1>2, <3>3 DEF Nested, Deeper
      <4>2. PICK a \in Int : a = d[i + 1]
        BY <1>0, <1>2
      <4>3. (k - 1) - a = k - (a + 1)
        BY <4>2
      <4> QED
        BY <1>0, <1>2, <3>1, <3>2, <4>1, <4>2, <4>3
    <3>4. CASE m[i].w # "EVIH"
      <4>1. d[i] = d[i + 1] /\ h = k
        BY <1>2, <2>2, <3>4 DEF Nested, Deeper
      <4> QED
        BY <1>0, <1>2, <3>1, <3>2, <4>1
    <3> QED
      BY <3>3, <3>4
  <2> QED
    BY <2>1, <2>2
<1> HIDE DEF n, h
<1>6. ASSUME NEW j \in n .. Len(m)
      PROVE  ItemStop(m, d, name, sig, i, k, j) <=> ItemStop(m, d, name, sig, n, h, j)
  <2>1. j \in 1 .. Len(m) /\ j \in i .. Len(m) /\ j # i
    BY <1>0, <1>5
  <2>2. PICK x \in Int, a \in Int, b \in Int : x = d[j] /\ a = d[n] /\ b = d[i]
    BY <1>0, <1>5, <2>1
  <2>3. h + d[j] - d[n] = k + d[j] - d[i]
    <3>1. h - a = k - b
      BY <1>5, <2>2
    <3>2. h + x - a = k + x - b
      BY <1>4, <3>1
    <3> QED
      BY <2>2, <3>2
  <2> QED
    BY <1>5, <2>1, <2>3 DEF ItemStop
<1>7. ASSUME NEW l \in i .. n - 1 PROVE ~ ItemStop(m, d, name, sig, i, k, l)
  <2>1. CASE l = i
    BY <2>1
  <2>2. CASE l # i
    <3>1. l \in i + 1 .. n - 1
      BY <1>5, <2>2
    <3>2. IsName(m[l])
      BY <1>5, <3>1
    <3> QED
      BY <2>2, <3>2 DEF ItemStop
  <2> QED
    BY <2>1, <2>2
<1>8. ASSUME NEW j \in n .. Len(m)
      PROVE  FirstItemStop(m, d, name, sig, i, k, j) <=> FirstItemStop(m, d, name, sig, n, h, j)
  <2>1. \A l \in i .. j - 1 : l \in i .. n - 1 \/ l \in n .. j - 1
    BY <1>0, <1>5
  <2>2. \A l \in n .. j - 1 : l \in i .. j - 1 /\ l \in n .. Len(m)
    BY <1>0, <1>5
  <2> QED
    BY <1>6, <1>7, <2>1, <2>2 DEF FirstItemStop
<1> QED
  BY <1>3, <1>4, <1>5, <1>8 DEF n, h

(* A walk that stops at i returns what is there. *)
LEMMA ItemStopHere ==
  ASSUME NEW m, NEW d, Nested(m, d), NEW name, NEW sig, NEW i \in 1 .. Len(m), NEW k \in Nat
  PROVE  /\ ItemStop(m, d, name, sig, i, k, i) => FirstItemStop(m, d, name, sig, i, k, i)
         /\ m[i].w = "HIVE" => (ItemStop(m, d, name, sig, i, k, i)
                                 <=> k = 1 /\ sig = "HIVE" /\ m[i + 1].w = name)
         /\ m[i].w = "CELL" => (ItemStop(m, d, name, sig, i, k, i)
                                 <=> k = 1 /\ sig = "CELL" /\ m[i].name = name)
         /\ m[i].w = "EVIH" => (ItemStop(m, d, name, sig, i, k, i) <=> k <= 1)
         /\ m[i].w \notin {"HIVE", "CELL", "EVIH"} => ItemStop(m, d, name, sig, i, k, i)
<1>0. Len(m) \in Nat /\ d[i] \in Nat
  BY DEF Nested
<1>1. i \in i .. Len(m) /\ k + d[i] - d[i] = k /\ i .. i - 1 = {}
  BY <1>0
<1>2. ItemStop(m, d, name, sig, i, k, i) => FirstItemStop(m, d, name, sig, i, k, i)
  BY <1>1 DEF FirstItemStop
<1>3. ItemStop(m, d, name, sig, i, k, i)
        <=> \/ IsItem(m, name, sig, i) /\ k = 1
            \/ m[i].w = "EVIH" /\ k <= 1
            \/ m[i].w = "ESAB"
            \/ IsName(m[i])
  BY <1>1 DEF ItemStop
<1> QED
  <2>1. CASE m[i].w = "HIVE"
    BY <1>2, <1>3, <2>1 DEF IsItem, IsName, SigWords
  <2>2. CASE m[i].w = "CELL"
    BY <1>2, <1>3, <2>2 DEF IsItem, IsName, SigWords
  <2>3. CASE m[i].w \notin {"HIVE", "CELL"}
    <3>1. ~ IsItem(m, name, sig, i)
      BY <2>3 DEF IsItem
    <3>2. m[i].w \notin {"HIVE", "CELL", "EVIH"} => m[i].w = "ESAB" \/ IsName(m[i])
      BY <2>3 DEF IsName, SigWords
    <3>3. m[i].w = "EVIH" => ~ IsName(m[i]) /\ m[i].w # "ESAB"
      BY DEF IsName, SigWords
    <3> QED
      BY <1>2, <1>3, <2>3, <3>1, <3>2, <3>3
  <2> QED
    BY <2>1, <2>2, <2>3

ItemStep(m, name, sig, w, i, k) ==
  CASE m[i].w = "HIVE" ->
         IF k = 1 /\ sig = "HIVE" /\ m[i + 1].w = name THEN i ELSE w[i + 2][k + 1]
    [] m[i].w = "CELL" ->
         IF k = 1 /\ sig = "CELL" /\ m[i].name = name THEN i ELSE w[i + 1][k]
    [] m[i].w = "EVIH" -> IF k <= 1 THEN NULL ELSE w[i + 1][k - 1]
    [] OTHER -> NULL

(* One step of the walk to an item is what it returns if it stops, and what
   the rest of the walk returns if it goes on. *)
LEMMA ItemStepIs ==
  ASSUME NEW m, NEW d, Nested(m, d), NEW name, NEW sig, NEW w, NEW i \in 1 .. Len(m), NEW k \in Nat
  PROVE  ItemStep(m, name, sig, w, i, k)
           = IF ItemStop(m, d, name, sig, i, k, i) THEN Outcome(m, i)
             ELSE w[Onward(m, i)][Deeper(m, i, k)]
<1> DEFINE stop == ItemStop(m, d, name, sig, i, k, i)
<1>1. /\ m[i].w = "HIVE" => (stop <=> k = 1 /\ sig = "HIVE" /\ m[i + 1].w = name)
      /\ m[i].w = "CELL" => (stop <=> k = 1 /\ sig = "CELL" /\ m[i].name = name)
      /\ m[i].w = "EVIH" => (stop <=> k <= 1)
      /\ m[i].w \notin {"HIVE", "CELL", "EVIH"} => stop
  BY ItemStopHere
<1> HIDE DEF stop
<1>2. CASE m[i].w = "HIVE"
  BY <1>1, <1>2 DEF ItemStep, Outcome, Onward, Deeper, stop
<1>3. CASE m[i].w = "CELL"
  BY <1>1, <1>3 DEF ItemStep, Outcome, Onward, Deeper, stop
<1>4. CASE m[i].w = "EVIH"
  BY <1>1, <1>4 DEF ItemStep, Outcome, Onward, Deeper, stop
<1>5. CASE m[i].w \notin {"HIVE", "CELL", "EVIH"}
  BY <1>1, <1>5 DEF ItemStep, Outcome, stop
<1> QED
  BY <1>2, <1>3, <1>4, <1>5

(* The walk to an item, in terms of its steps. *)
LEMMA ItemWalkIs ==
  ASSUME NEW m, NEW name, NEW sig, NEW w
  PROVE  ItemWalk(m, name, sig, w)
           <=> w = [i \in DOMAIN m |-> [k \in Nat |-> ItemStep(m, name, sig, w, i, k)]]
BY DEF ItemWalk, ItemStep

(* The walk exists. *)
LEMMA ItemWalkExists ==
  ASSUME NEW m, NEW d, Nested(m, d), NEW name, NEW sig
  PROVE  \E w : ItemWalk(m, name, sig, w)
<1>0. Len(m) \in Nat /\ DOMAIN m = 1 .. Len(m)
  BY DEF Nested
<1> DEFINE First(i, k, j) == FirstItemStop(m, d, name, sig, i, k, j)
           first(i, k) == CHOOSE j \in i .. Len(m) : First(i, k, j)
           w == [i \in DOMAIN m |-> [k \in Nat |-> Outcome(m, first(i, k))]]
<1>1. ASSUME NEW i \in 1 .. Len(m), NEW k \in Nat
      PROVE  first(i, k) \in i .. Len(m) /\ First(i, k, first(i, k))
  BY ItemStopExists
<1>2. ASSUME NEW i \in 1 .. Len(m), NEW k \in Nat, NEW j \in i .. Len(m), First(i, k, j)
      PROVE  first(i, k) = j
  <2>1. First(i, k, first(i, k))
    BY <1>1
  <2> HIDE DEF first
  <2> QED
    BY <1>0, <1>2, <2>1, ItemStopUnique
<1> HIDE DEF first
<1>3. \A i \in 1 .. Len(m), k \in Nat : w[i][k] = Outcome(m, first(i, k))
  BY <1>0
<1>4. DOMAIN w = DOMAIN m /\ w = [i \in DOMAIN m |-> [k \in Nat |-> w[i][k]]]
  BY <1>0, <1>3
<1> HIDE DEF w
<1>5. ASSUME NEW i \in 1 .. Len(m), NEW k \in Nat
      PROVE  w[i][k] = ItemStep(m, name, sig, w, i, k)
  <2>1. CASE ItemStop(m, d, name, sig, i, k, i)
    <3>1. First(i, k, i) /\ i \in i .. Len(m)
      BY <1>0, <2>1, ItemStopHere
    <3>2. first(i, k) = i
      BY <1>2, <3>1
    <3> QED
      BY <1>3, <2>1, <3>2, ItemStepIs
  <2>2. CASE ~ ItemStop(m, d, name, sig, i, k, i)
    <3> DEFINE n == Onward(m, i)
               h == Deeper(m, i, k)
    <3>1. /\ h \in Nat /\ n \in i + 1 .. Len(m)
          /\ \A j \in n .. Len(m) : First(i, k, j) <=> First(n, h, j)
      BY <2>2, ItemStopAhead
    <3> HIDE DEF n, h
    <3>2. n \in 1 .. Len(m)
      BY <1>0, <3>1
    <3>3. first(n, h) \in n .. Len(m) /\ First(n, h, first(n, h))
      BY <1>1, <3>1, <3>2
    <3>4. first(n, h) \in i .. Len(m) /\ First(i, k, first(n, h))
      BY <1>0, <3>1, <3>3
    <3>5. first(i, k) = first(n, h)
      BY <1>2, <3>4
    <3>6. w[i][k] = w[n][h]
      BY <1>3, <3>1, <3>2, <3>5
    <3> QED
      BY <2>2, <3>6, ItemStepIs DEF n, h
  <2> QED
    BY <2>1, <2>2
<1>6. w = [i \in DOMAIN m |-> [k \in Nat |-> ItemStep(m, name, sig, w, i, k)]]
  BY <1>0, <1>4, <1>5
<1> QED
  BY <1>6, ItemWalkIs

(* A walk returns what is at the first place to stop at. *)
LEMMA ItemWalkStops ==
  ASSUME NEW m, NEW d, Nested(m, d), NEW name, NEW sig, NEW w, ItemWalk(m, name, sig, w),
         NEW i \in 1 .. Len(m), NEW k \in Nat
  PROVE  \E j \in i .. Len(m) : FirstItemStop(m, d, name, sig, i, k, j) /\ w[i][k] = Outcome(m, j)
<1>0. Len(m) \in Nat /\ DOMAIN m = 1 .. Len(m)
  BY DEF Nested
<1>1. \A a \in 1 .. Len(m), b \in Nat : w[a][b] = ItemStep(m, name, sig, w, a, b)
  BY <1>0, ItemWalkIs
<1> DEFINE First(a, b, j) == FirstItemStop(m, d, name, sig, a, b, j)
           Right(a) == \A b \in Nat : \E j \in a .. Len(m) : First(a, b, j) /\ w[a][b] = Outcome(m, j)
           S == {n \in Nat : n < Len(m) => \A a \in 1 .. Len(m) : a >= Len(m) - n => Right(a)}
<1>2. ASSUME NEW a \in 1 .. Len(m), \A c \in a + 1 .. Len(m) : Right(c) PROVE Right(a)
  <2> TAKE b \in Nat
  <2>0. w[a][b] = ItemStep(m, name, sig, w, a, b)
    BY <1>1
  <2>1. CASE ItemStop(m, d, name, sig, a, b, a)
    <3>1. First(a, b, a) /\ a \in a .. Len(m)
      BY <1>0, <2>1, ItemStopHere
    <3>2. w[a][b] = Outcome(m, a)
      BY <2>0, <2>1, ItemStepIs
    <3> QED
      BY <3>1, <3>2
  <2>2. CASE ~ ItemStop(m, d, name, sig, a, b, a)
    <3> DEFINE n == Onward(m, a)
               h == Deeper(m, a, b)
    <3>1. /\ h \in Nat /\ n \in a + 1 .. Len(m)
          /\ \A j \in n .. Len(m) : First(a, b, j) <=> First(n, h, j)
      BY <2>2, ItemStopAhead
    <3>2. w[a][b] = w[n][h]
      BY <2>0, <2>2, ItemStepIs
    <3> HIDE DEF n, h
    <3>3. PICK j \in n .. Len(m) : First(n, h, j) /\ w[n][h] = Outcome(m, j)
      <4>1. Right(n)
        <5> HIDE DEF Right
        <5> QED
          BY <1>2, <3>1
      <4> QED
        BY <3>1, <4>1
    <3>4. j \in a .. Len(m) /\ First(a, b, j)
      BY <1>0, <3>1, <3>3
    <3> QED
      BY <3>2, <3>3, <3>4
  <2> QED
    BY <2>1, <2>2
<1> HIDE DEF Right
<1>3. 0 \in S
  <2>1. \A a \in 1 .. Len(m) : a >= Len(m) - 0 => a + 1 .. Len(m) = {}
    BY <1>0
  <2> QED
    BY <1>0, <1>2, <2>1
<1>4. ASSUME NEW n \in Nat, n \in S PROVE n + 1 \in S
  <2> SUFFICES ASSUME n + 1 < Len(m), NEW a \in 1 .. Len(m), a >= Len(m) - (n + 1) PROVE Right(a)
    OBVIOUS
  <2>1. \A c \in a + 1 .. Len(m) : c \in 1 .. Len(m) /\ c >= Len(m) - n
    BY <1>0
  <2>2. n < Len(m)
    BY <1>0
  <2>3. \A c \in a + 1 .. Len(m) : Right(c)
    BY <1>4, <2>1, <2>2
  <2> QED
    BY <1>2, <2>3
<1>5. Nat \subseteq S
  <2> HIDE DEF S
  <2> QED
    BY <1>3, <1>4, SetInduction
<1>6. Len(m) - i \in Nat /\ Len(m) - i < Len(m) /\ i >= Len(m) - (Len(m) - i)
  BY <1>0
<1>7. Right(i)
  BY <1>5, <1>6
<1> QED
  BY <1>7 DEF Right

(* An item of the hive that is opened at p and closed at e. *)
ItemIn(m, d, p, e, name, sig, j) ==
  j \in p + 2 .. e - 1 /\ IsItem(m, name, sig, j) /\ d[j] = d[p] + 1

(* The walk finds an item of the hive, or there is none. *)
LEMMA ItemFound ==
  ASSUME NEW m, NEW d, Nested(m, d), NEW p \in 1 .. Len(m), m[p].w = "HIVE",
         NEW e, EndsHive(m, d, p, e), NEW name, NEW sig
  PROVE  \/ ItemIn(m, d, p, e, name, sig, FindItem(m, p, name, sig))
         \/ FindItem(m, p, name, sig) = NULL /\ \A j \in Nat : ~ ItemIn(m, d, p, e, name, sig, j)
<1>0. Len(m) \in Nat /\ \A l \in 1 .. Len(m) : d[l] \in Nat
  BY DEF Nested
<1>1. PICK w : ItemWalk(m, name, sig, w) /\ FindItem(m, p, name, sig) = w[p][0]
  <2>1. ItemWalk(m, name, sig, CHOOSE w : ItemWalk(m, name, sig, w))
    BY ItemWalkExists
  <2>2. FindItem(m, p, name, sig) = (CHOOSE w : ItemWalk(m, name, sig, w))[p][0]
    BY DEF FindItem, ItemWalk
  <2> QED
    BY <2>1, <2>2
<1>2. PICK j \in p .. Len(m) : FirstItemStop(m, d, name, sig, p, 0, j) /\ w[p][0] = Outcome(m, j)
  BY <1>1, ItemWalkStops
<1>3. /\ e \in p + 2 .. Len(m) - 1 /\ m[e].w = "EVIH" /\ d[e] = d[p] + 1
      /\ \A l \in p + 1 .. e : d[l] > d[p]
  BY DEF EndsHive
<1>4. /\ e \in 1 .. Len(m) /\ p + 1 \in 1 .. Len(m) /\ p \in 1 .. Len(m) - 1
      /\ d[p] \in Nat /\ d[e] \in Nat
  BY <1>0, <1>3
<1>5. IsName(m[p + 1]) /\ ~ IsName(m[p])
  BY <1>4 DEF Nested, IsName, SigWords
<1>6. ItemStop(m, d, name, sig, p, 0, e)
  <2>1. 0 + d[e] - d[p] = 1 /\ e \in p .. Len(m)
    BY <1>0, <1>3, <1>4
  <2> QED
    BY <1>3, <2>1 DEF ItemStop, IsName, SigWords
<1>7. j <= e
  <2>1. e \notin p .. j - 1
    BY <1>2, <1>6 DEF FirstItemStop
  <2> QED
    BY <1>0, <1>2, <1>3, <2>1
<1>8. j # p
  <2>1. ~ ItemStop(m, d, name, sig, p, 0, p)
    BY ItemStopHere
  <2> QED
    BY <1>2, <2>1 DEF FirstItemStop
<1>9. ~ IsName(m[j])
  BY <1>2, <1>8 DEF FirstItemStop, ItemStop
<1>10. j # p + 1
  BY <1>5, <1>9
<1>11. j \in p + 2 .. e /\ j \in 1 .. Len(m) /\ j \in p + 1 .. e
  BY <1>0, <1>2, <1>3, <1>7, <1>8, <1>10
<1>12. d[j] \in Nat /\ d[j] > d[p]
  BY <1>0, <1>3, <1>11
<1>13. m[j].w # "ESAB"
  <2>1. j \in 2 .. Len(m) - 1
    BY <1>0, <1>3, <1>11
  <2> QED
    BY <2>1 DEF Nested
<1>14. \/ IsItem(m, name, sig, j) /\ 0 + d[j] - d[p] = 1
       \/ m[j].w = "EVIH" /\ 0 + d[j] - d[p] <= 1
  BY <1>2, <1>9, <1>13 DEF FirstItemStop, ItemStop
<1>15. d[j] = d[p] + 1
  BY <1>4, <1>12, <1>14
<1>16. CASE IsItem(m, name, sig, j)
  <2>1. m[j].w \in {"HIVE", "CELL"}
    BY <1>16 DEF IsItem
  <2>2. FindItem(m, p, name, sig) = j
    BY <1>1, <1>2, <2>1 DEF Outcome
  <2>3. j # e
    BY <1>3, <2>1
  <2>4. j \in p + 2 .. e - 1
    BY <1>0, <1>3, <1>11, <2>3
  <2> QED
    BY <1>15, <1>16, <2>2, <2>4 DEF ItemIn
<1>17. CASE ~ IsItem(m, name, sig, j)
  <2>1. m[j].w = "EVIH"
    BY <1>14, <1>17
  <2>2. FindItem(m, p, name, sig) = NULL
    BY <1>1, <1>2, <2>1 DEF Outcome
  <2>3. j = e
    <3> SUFFICES ASSUME j # e PROVE FALSE
      OBVIOUS
    <3>1. j \in 1 .. Len(m) - 1 /\ j + 1 \in p + 1 .. e /\ j + 1 \in 1 .. Len(m)
      BY <1>0, <1>3, <1>11
    <3>2. d[j] = d[j + 1] + 1
      BY <2>1, <3>1 DEF Nested
    <3>3. d[j + 1] \in Nat /\ d[j + 1] > d[p]
      BY <1>0, <1>3, <3>1
    <3> QED
      BY <1>4, <1>15, <3>2, <3>3
  <2>4. ASSUME NEW l \in Nat, ItemIn(m, d, p, e, name, sig, l) PROVE FALSE
    <3>1. l \in p + 2 .. e - 1 /\ IsItem(m, name, sig, l) /\ d[l] = d[p] + 1
      BY <2>4 DEF ItemIn
    <3>2. l \in p .. j - 1 /\ l \in p .. Len(m)
      BY <1>0, <1>3, <2>3, <3>1
    <3>3. 0 + d[l] - d[p] = 1
      BY <1>4, <3>1
    <3>4. ~ IsName(m[l])
      BY <3>1 DEF IsItem, IsName, SigWords
    <3>5. ItemStop(m, d, name, sig, p, 0, l)
      BY <3>1, <3>2, <3>3, <3>4 DEF ItemStop
    <3> QED
      BY <1>2, <3>2, <3>5 DEF FirstItemStop
  <2> QED
    BY <2>2, <2>4
<1> QED
  BY <1>16, <1>17

(* The tokens between a and b are replaced by T, which is at depths c. *)
Splice(m, a, T, b) == SubSeq(m, 1, a) \o T \o SubSeq(m, b, Len(m))

SpliceDepth(m, d, a, T, c, b) ==
  [i \in 1 .. a + Len(T) + (Len(m) - b + 1) |->
    IF i <= a THEN d[i] ELSE IF i <= a + Len(T) THEN c[i - a] ELSE d[i - a - Len(T) + b - 1]]

Follows(tok, depth, next, nextDepth) ==
  /\ tok.w = "HIVE" => nextDepth = depth + 1
  /\ tok.w = "EVIH" => depth = nextDepth + 1
  /\ tok.w \notin {"HIVE", "EVIH"} => nextDepth = depth
  /\ tok.w = "HIVE" => IsName(next) /\ next.depth = depth
  /\ IsName(next) => tok.w = "HIVE"

(* What is at each place of a stream when tokens in it have been replaced. *)
LEMMA SpliceIs ==
  ASSUME NEW m \in Seq(Tokens), NEW T \in Seq(Tokens), NEW a \in 0 .. Len(m), NEW b \in a + 1 .. Len(m) + 1
  PROVE  /\ Splice(m, a, T, b) \in Seq(Tokens)
         /\ Len(Splice(m, a, T, b)) = a + Len(T) + (Len(m) - b + 1)
         /\ \A i \in 1 .. a + Len(T) + (Len(m) - b + 1) :
              Splice(m, a, T, b)[i] = IF i <= a THEN m[i]
                                      ELSE IF i <= a + Len(T) THEN T[i - a]
                                      ELSE m[i - a - Len(T) + b - 1]
<1>0. Len(m) \in Nat /\ Len(T) \in Nat /\ a \in Nat /\ b \in Nat /\ a <= Len(m) /\ b <= Len(m) + 1
  OBVIOUS
<1> DEFINE x == SubSeq(m, 1, a)
           y == SubSeq(m, b, Len(m))
           z == x \o T
           r == z \o y
<1>1. x \in Seq(Tokens) /\ Len(x) = a /\ \A i \in 1 .. a : x[i] = m[i]
  <2>1. \A i \in 1 .. a : i \in 1 .. Len(m)
    BY <1>0
  <2> QED
    BY <1>0, <2>1, SubSeqProperties
<1>2. y \in Seq(Tokens) /\ Len(y) = Len(m) - b + 1 /\ \A i \in 1 .. Len(m) - b + 1 : y[i] = m[b + i - 1]
  <2>1. \A i \in b .. Len(m) : i \in 1 .. Len(m)
    BY <1>0
  <2> QED
    BY <1>0, <2>1, SubSeqProperties
<1> HIDE DEF x, y
<1>3. /\ z \in Seq(Tokens) /\ Len(z) = a + Len(T)
      /\ \A i \in 1 .. a + Len(T) : z[i] = IF i <= a THEN m[i] ELSE T[i - a]
  BY <1>0, <1>1, ConcatProperties
<1> HIDE DEF z
<1>4. /\ r \in Seq(Tokens) /\ Len(r) = Len(z) + Len(y)
      /\ \A i \in 1 .. Len(z) + Len(y) : r[i] = IF i <= Len(z) THEN z[i] ELSE y[i - Len(z)]
  BY <1>2, <1>3, ConcatProperties
<1> HIDE DEF r
<1>5. ASSUME NEW i \in 1 .. a + Len(T) + (Len(m) - b + 1)
      PROVE  r[i] = IF i <= a THEN m[i] ELSE IF i <= a + Len(T) THEN T[i - a]
                    ELSE m[i - a - Len(T) + b - 1]
  <2>1. i \in 1 .. Len(z) + Len(y)
    BY <1>2, <1>3
  <2>2. CASE i <= a + Len(T)
    <3>1. i \in 1 .. a + Len(T) /\ i <= Len(z)
      BY <1>3, <2>2
    <3>2. r[i] = z[i]
      BY <1>4, <2>1, <3>1
    <3> QED
      BY <1>3, <2>2, <3>1, <3>2
  <2>3. CASE ~ (i <= a + Len(T))
    <3>1. /\ i - Len(z) \in 1 .. Len(m) - b + 1 /\ ~ (i <= Len(z)) /\ ~ (i <= a)
          /\ b + (i - Len(z)) - 1 = i - a - Len(T) + b - 1
      BY <1>0, <1>3, <2>3
    <3>2. r[i] = y[i - Len(z)]
      BY <1>4, <2>1, <3>1
    <3>3. y[i - Len(z)] = m[b + (i - Len(z)) - 1]
      BY <1>2, <3>1
    <3> QED
      BY <2>3, <3>1, <3>2, <3>3
  <2> QED
    BY <2>2, <2>3
<1>6. r = Splice(m, a, T, b)
  BY DEF Splice, r, x, y, z
<1>7. Len(r) = a + Len(T) + (Len(m) - b + 1)
  BY <1>2, <1>3, <1>4
<1> QED
  BY <1>4, <1>5, <1>6, <1>7

(* What may be put into a stream at depth D. *)
Insertable(T, c, D) ==
  /\ T \in Seq(Tokens) /\ c \in [1 .. Len(T) + 1 -> Nat]
  /\ c[1] = D /\ c[Len(T) + 1] = D
  /\ \A i \in 1 .. Len(T) :
       /\ c[i] > 0 /\ T[i].w # "ESAB"
       /\ T[i].w = "HIVE" => c[i + 1] = c[i] + 1
       /\ T[i].w = "EVIH" => c[i] = c[i + 1] + 1
       /\ T[i].w \notin {"HIVE", "EVIH"} => c[i + 1] = c[i]
  /\ \A i \in 1 .. Len(T) - 1 :
       /\ T[i].w = "HIVE" => IsName(T[i + 1]) /\ T[i + 1].depth = c[i]
       /\ IsName(T[i + 1]) => T[i].w = "HIVE"
  /\ Len(T) > 0 => ~ IsName(T[1]) /\ T[Len(T)].w # "HIVE"

(* A nested stream stays nested when what is between a and b, which begins and
   ends at one depth, is replaced by tokens that do. *)
LEMMA SpliceNested ==
  ASSUME NEW m, NEW d, Nested(m, d), NEW a \in 1 .. Len(m) - 1, NEW b \in a + 1 .. Len(m),
         d[b] = d[a + 1], d[b] > 0, ~ IsName(m[a + 1]), ~ IsName(m[b]),
         NEW T, NEW c, Insertable(T, c, d[b])
  PROVE  Nested(Splice(m, a, T, b), SpliceDepth(m, d, a, T, c, b))
<1> DEFINE L == Len(m)
           N == Len(T)
           r == Splice(m, a, T, b)
           g == SpliceDepth(m, d, a, T, c, b)
           R == a + N + (L - b + 1)
           o(i) == i - a - N + b - 1
<1>0. m \in Seq(Tokens) /\ T \in Seq(Tokens) /\ L \in Nat /\ N \in Nat
  BY DEF Nested, Insertable
<1>1. a \in Nat /\ b \in Nat /\ a >= 1 /\ b > a /\ b <= L /\ a <= L - 1
  BY <1>0
<1>2. /\ r \in Seq(Tokens) /\ Len(r) = R
      /\ \A i \in 1 .. R : r[i] = IF i <= a THEN m[i] ELSE IF i <= a + N THEN T[i - a] ELSE m[o(i)]
  <2>1. a \in 0 .. Len(m) /\ b \in a + 1 .. Len(m) + 1
    BY <1>0, <1>1
  <2> QED
    BY <1>0, <2>1, SpliceIs
<1>3. /\ DOMAIN g = 1 .. R /\ g = [i \in 1 .. R |-> g[i]]
      /\ \A i \in 1 .. R : g[i] = IF i <= a THEN d[i] ELSE IF i <= a + N THEN c[i - a] ELSE d[o(i)]
  BY DEF SpliceDepth
<1>4. /\ d \in [1 .. L -> Nat] /\ c \in [1 .. N + 1 -> Nat] /\ c[1] = d[b] /\ c[N + 1] = d[b]
      /\ \A i \in 1 .. L - 1 : Follows(m[i], d[i], m[i + 1], d[i + 1])
      /\ \A i \in 2 .. L - 1 : d[i] > 0 /\ m[i].w # "ESAB"
      /\ m[1].w = "HIVE" /\ d[1] = 0 /\ m[L].w = "ESAB" /\ d[L] = 0
  BY DEF Nested, Insertable, Follows
<1>5. /\ \A i \in 1 .. N : c[i] > 0 /\ T[i].w # "ESAB"
      /\ \A i \in 1 .. N - 1 : Follows(T[i], c[i], T[i + 1], c[i + 1])
  <2>1. \A i \in 1 .. N : c[i] > 0 /\ T[i].w # "ESAB"
    BY DEF Insertable
  <2>2. ASSUME NEW i \in 1 .. N - 1 PROVE Follows(T[i], c[i], T[i + 1], c[i + 1])
    <3>1. i \in 1 .. N
      BY <1>0
    <3>2. /\ T[i].w = "HIVE" => c[i + 1] = c[i] + 1
          /\ T[i].w = "EVIH" => c[i] = c[i + 1] + 1
          /\ T[i].w \notin {"HIVE", "EVIH"} => c[i + 1] = c[i]
      BY <3>1 DEF Insertable
    <3>3. /\ T[i].w = "HIVE" => IsName(T[i + 1]) /\ T[i + 1].depth = c[i]
          /\ IsName(T[i + 1]) => T[i].w = "HIVE"
      BY DEF Insertable
    <3> QED
      BY <3>2, <3>3 DEF Follows
  <2> QED
    BY <2>1, <2>2
<1>6. m[a].w # "HIVE" /\ Follows(m[a], d[a], m[b], d[b])
  <2>1. Follows(m[a], d[a], m[a + 1], d[a + 1])
    BY <1>4
  <2> QED
    BY <2>1 DEF Follows
<1>7. N > 0 => Follows(m[a], d[a], T[1], c[1])
  BY <1>4, <1>6 DEF Follows, Insertable
<1>8. N > 0 => Follows(T[N], c[N], m[b], d[b])
  <2> SUFFICES ASSUME N > 0 PROVE Follows(T[N], c[N], m[b], d[b])
    OBVIOUS
  <2>1. N \in 1 .. N
    BY <1>0
  <2>2. /\ T[N].w # "HIVE"
        /\ T[N].w = "EVIH" => c[N] = c[N + 1] + 1
        /\ T[N].w \notin {"HIVE", "EVIH"} => c[N + 1] = c[N]
    BY <2>1 DEF Insertable
  <2> QED
    BY <1>4, <2>2 DEF Follows
<1>9. b # L
  BY <1>4
<1> HIDE DEF r, g
<1>10. \A i \in 1 .. R : i > a + N => o(i) \in b .. L
  BY <1>0, <1>1
<1>11. g \in [1 .. R -> Nat]
  <2>1. ASSUME NEW i \in 1 .. R PROVE g[i] \in Nat
    <3>1. CASE i <= a
      <4>1. i \in 1 .. L
        BY <1>1, <3>1
      <4> QED
        BY <1>3, <1>4, <3>1, <4>1
    <3>2. CASE i > a /\ i <= a + N
      <4>1. i - a \in 1 .. N + 1
        BY <1>0, <1>1, <3>2
      <4>2. g[i] = c[i - a]
        BY <1>1, <1>3, <3>2
      <4>3. c[i - a] \in Nat
        BY <1>4, <4>1
      <4> QED
        BY <4>2, <4>3
    <3>3. CASE i > a + N
      <4>1. o(i) \in 1 .. L /\ ~ (i <= a) /\ ~ (i <= a + N)
        BY <1>0, <1>1, <1>10, <3>3
      <4>2. g[i] = d[o(i)]
        BY <1>3, <4>1
      <4> HIDE DEF o
      <4> QED
        BY <1>4, <4>1, <4>2
    <3> QED
      BY <1>0, <1>1, <3>1, <3>2, <3>3
  <2> QED
    BY <1>3, <2>1
<1>12. R \in Nat /\ R >= 2 /\ 1 <= a /\ ~ (R <= a) /\ ~ (R <= a + N) /\ o(R) = L
  BY <1>0, <1>1, <1>9
<1>13. r[1].w = "HIVE" /\ g[1] = 0 /\ r[R].w = "ESAB" /\ g[R] = 0
  <2>1. 1 \in 1 .. R /\ R \in 1 .. R
    BY <1>12
  <2>2. r[1] = m[1] /\ g[1] = d[1]
    BY <1>2, <1>3, <1>12, <2>1
  <2>3. r[R] = m[o(R)] /\ g[R] = d[o(R)]
    BY <1>2, <1>3, <1>12, <2>1
  <2> QED
    BY <1>4, <1>12, <2>2, <2>3
<1>14. ASSUME NEW i \in 2 .. R - 1 PROVE g[i] > 0 /\ r[i].w # "ESAB"
  <2>0. i \in 1 .. R
    BY <1>12
  <2>1. CASE i <= a
    <3>1. i \in 2 .. L - 1
      BY <1>1, <2>1
    <3> QED
      BY <1>2, <1>3, <1>4, <2>0, <2>1, <3>1
  <2>2. CASE i > a /\ i <= a + N
    <3>1. i - a \in 1 .. N /\ ~ (i <= a)
      BY <1>0, <1>1, <2>2
    <3> QED
      BY <1>2, <1>3, <1>5, <2>0, <2>2, <3>1
  <2>3. CASE i > a + N
    <3>1. o(i) \in 2 .. L - 1 /\ ~ (i <= a) /\ ~ (i <= a + N)
      BY <1>0, <1>1, <2>3
    <3>2. g[i] = d[o(i)] /\ r[i] = m[o(i)]
      BY <1>2, <1>3, <2>0, <3>1
    <3> HIDE DEF o
    <3> QED
      BY <1>4, <3>1, <3>2
  <2> QED
    BY <1>0, <1>1, <2>1, <2>2, <2>3
<1>15. ASSUME NEW i \in 1 .. R - 1 PROVE Follows(r[i], g[i], r[i + 1], g[i + 1])
  <2>0. i \in 1 .. R /\ i + 1 \in 1 .. R
    BY <1>12
  <2>1. CASE i < a
    <3>1. i \in 1 .. L - 1 /\ i <= a /\ i + 1 <= a
      BY <1>1, <2>1
    <3>2. r[i] = m[i] /\ g[i] = d[i] /\ r[i + 1] = m[i + 1] /\ g[i + 1] = d[i + 1]
      BY <1>2, <1>3, <2>0, <3>1
    <3> QED
      BY <1>4, <3>1, <3>2
  <2>2. CASE i = a /\ N = 0
    <3>1. i <= a /\ ~ (i + 1 <= a) /\ ~ (i + 1 <= a + N) /\ o(i + 1) = b
      BY <1>0, <1>1, <2>2
    <3>2. r[i] = m[a] /\ g[i] = d[a] /\ r[i + 1] = m[o(i + 1)] /\ g[i + 1] = d[o(i + 1)]
      BY <1>2, <1>3, <2>0, <2>2, <3>1
    <3> HIDE DEF o
    <3> QED
      BY <1>6, <3>1, <3>2
  <2>3. CASE i = a /\ N > 0
    <3>1. i <= a /\ ~ (i + 1 <= a) /\ i + 1 <= a + N /\ (i + 1) - a = 1
      BY <1>0, <1>1, <2>3
    <3>2. r[i] = m[a] /\ g[i] = d[a] /\ r[i + 1] = T[(i + 1) - a] /\ g[i + 1] = c[(i + 1) - a]
      BY <1>2, <1>3, <2>0, <2>3, <3>1
    <3> QED
      BY <1>7, <2>3, <3>1, <3>2
  <2>4. CASE i > a /\ i < a + N
    <3> DEFINE k == i - a
    <3>1. /\ k \in 1 .. N - 1 /\ (i + 1) - a = k + 1
          /\ ~ (i <= a) /\ ~ (i + 1 <= a) /\ i <= a + N /\ i + 1 <= a + N
      BY <1>0, <1>1, <2>4
    <3>2. /\ r[i] = T[i - a] /\ g[i] = c[i - a]
          /\ r[i + 1] = T[(i + 1) - a] /\ g[i + 1] = c[(i + 1) - a]
      BY <1>2, <1>3, <2>0, <3>1
    <3>3. r[i] = T[k] /\ g[i] = c[k] /\ r[i + 1] = T[k + 1] /\ g[i + 1] = c[k + 1]
      BY <3>1, <3>2
    <3> HIDE DEF k
    <3> QED
      BY <1>5, <3>1, <3>3
  <2>5. CASE i > a /\ i = a + N
    <3>1. /\ N > 0 /\ i - a = N /\ o(i + 1) = b
          /\ ~ (i <= a) /\ ~ (i + 1 <= a) /\ i <= a + N /\ ~ (i + 1 <= a + N)
      BY <1>0, <1>1, <2>5
    <3>2. r[i] = T[i - a] /\ g[i] = c[i - a] /\ r[i + 1] = m[o(i + 1)] /\ g[i + 1] = d[o(i + 1)]
      BY <1>2, <1>3, <2>0, <3>1
    <3> HIDE DEF o
    <3> QED
      BY <1>8, <3>1, <3>2
  <2>6. CASE i > a + N
    <3> DEFINE k == o(i)
    <3>1. /\ k \in 1 .. L - 1 /\ o(i + 1) = k + 1
          /\ ~ (i <= a) /\ ~ (i + 1 <= a) /\ ~ (i <= a + N) /\ ~ (i + 1 <= a + N)
      BY <1>0, <1>1, <2>6
    <3>2. r[i] = m[k] /\ g[i] = d[k] /\ r[i + 1] = m[o(i + 1)] /\ g[i + 1] = d[o(i + 1)]
      BY <1>2, <1>3, <2>0, <3>1
    <3> HIDE DEF k, o
    <3> QED
      BY <1>4, <3>1, <3>2
  <2> QED
    BY <1>0, <1>1, <2>1, <2>2, <2>3, <2>4, <2>5, <2>6
<1>16. /\ r \in Seq(Tokens) /\ Len(r) = R /\ R >= 2
  BY <1>2, <1>12
<1> HIDE DEF R
<1>17. Nested(r, g)
  BY <1>11, <1>13, <1>14, <1>15, <1>16 DEF Nested, Follows
<1> QED
  BY <1>17 DEF r, g

-----------------------------------------------------------------------------
(* What is cut out of a stream and put into it is what its words change by. *)
LEMMA SpliceWords ==
  ASSUME NEW m \in Seq(Tokens), NEW T \in Seq(Tokens), NEW a \in 0 .. Len(m), NEW b \in a + 1 .. Len(m) + 1
  PROVE  /\ Words(m) \in Nat /\ Words(T) \in Nat /\ Words(SubSeq(m, a + 1, b - 1)) \in Nat
         /\ Words(Splice(m, a, T, b)) \in Nat
         /\ Words(Splice(m, a, T, b)) = Words(m) - Words(SubSeq(m, a + 1, b - 1)) + Words(T)
<1>0. Len(m) \in Nat /\ a \in Nat /\ b \in Nat /\ a <= Len(m) /\ b <= Len(m) + 1 /\ a < b
  OBVIOUS
<1>1. \A t \in Tokens : t.n \in Nat
  BY TokenKinds
<1> DEFINE x == SubSeq(m, 1, a)
           y == SubSeq(m, a + 1, b - 1)
           z == SubSeq(m, b, Len(m))
           u == SubSeq(m, a + 1, Len(m))
<1>2. x \in Seq(Tokens) /\ y \in Seq(Tokens) /\ z \in Seq(Tokens) /\ u \in Seq(Tokens)
  <2>1. \A i \in 1 .. a : i \in 1 .. Len(m)
    BY <1>0
  <2>2. \A i \in a + 1 .. b - 1 : i \in 1 .. Len(m)
    BY <1>0
  <2>3. \A i \in b .. Len(m) : i \in 1 .. Len(m)
    BY <1>0
  <2>4. \A i \in a + 1 .. Len(m) : i \in 1 .. Len(m)
    BY <1>0
  <2> QED
    BY <1>0, <2>1, <2>2, <2>3, <2>4, SubSeqProperties
<1>3. u = y \o z
  <2>1. /\ a + 1 \in 1 .. Len(m) + 1 /\ b - 1 \in (a + 1) - 1 .. Len(m)
        /\ Len(m) \in b - 1 .. Len(m) /\ (b - 1) + 1 = b
    BY <1>0
  <2> QED
    BY <2>1, ConcatAdjacentSubSeq
<1>4. m = x \o u
  <2>1. 1 \in 1 .. Len(m) + 1 /\ a \in 1 - 1 .. Len(m) /\ Len(m) \in a .. Len(m)
    BY <1>0
  <2>2. SubSeq(m, 1, a) \o SubSeq(m, a + 1, Len(m)) = SubSeq(m, 1, Len(m))
    BY <2>1, ConcatAdjacentSubSeq
  <2>3. SubSeq(m, 1, Len(m)) = m
    BY SubSeqFull
  <2> QED
    BY <2>2, <2>3
<1>5. Splice(m, a, T, b) = (x \o T) \o z
  BY DEF Splice
<1> HIDE DEF x, y, z, u
<1>6. Words(u) = Words(y) + Words(z) /\ Words(y) \in Nat /\ Words(z) \in Nat
  BY <1>1, <1>2, <1>3, WordsConcat
<1>7. Words(m) = Words(x) + Words(u) /\ Words(x) \in Nat /\ Words(u) \in Nat
  BY <1>1, <1>2, <1>4, WordsConcat
<1>8. x \o T \in Seq(Tokens) /\ Words(x \o T) = Words(x) + Words(T) /\ Words(T) \in Nat
  BY <1>1, <1>2, WordsConcat, ConcatProperties
<1>9. Words((x \o T) \o z) = Words(x \o T) + Words(z)
  BY <1>1, <1>2, <1>8, WordsConcat
<1>10. y = SubSeq(m, a + 1, b - 1)
  BY DEF y
<1> DEFINE wx == Words(x)
           wy == Words(y)
           wz == Words(z)
           wt == Words(T)
<1>11. /\ wx \in Nat /\ wy \in Nat /\ wz \in Nat /\ wt \in Nat
       /\ Words(m) = wx + (wy + wz) /\ Words(Splice(m, a, T, b)) = (wx + wt) + wz
  BY <1>5, <1>6, <1>7, <1>8, <1>9
<1>12. Words(SubSeq(m, a + 1, b - 1)) = wy
  BY <1>10
<1> HIDE DEF wx, wy, wz, wt
<1>13. (wx + wt) + wz = (wx + (wy + wz)) - wy + wt
  BY <1>11
<1> QED
  BY <1>11, <1>12, <1>13 DEF wt

(* A base whose stream is nested and whose length is that of its stream. *)
Sizes(base) ==
  /\ base = [m |-> base.m, size |-> base.size, length |-> base.length, crc |-> base.crc]
  /\ base.size \in Nat /\ base.length \in Nat /\ base.length <= base.size
  /\ base.length = SIZEOF_BASE + Words(base.m)

SoundBase(base) == Sizes(base) /\ \E d : Nested(base.m, d)

(* The hive at p in a stream with depths d. *)
HiveAt(m, d, p) == Nested(m, d) /\ p \in 1 .. Len(m) /\ m[p].w = "HIVE"

(* The first token is the System hive. *)
LEMMA FirstIsHive ==
  ASSUME NEW m, NEW d, Nested(m, d)
  PROVE  HiveAt(m, d, 1)
<1>1. Len(m) \in Nat /\ Len(m) >= 2 /\ m[1].w = "HIVE"
  BY DEF Nested
<1>2. 1 \in 1 .. Len(m)
  BY <1>1
<1> QED
  BY <1>1, <1>2 DEF HiveAt

(* A base with another stream and length. *)
LEMMA BaseUpdated ==
  ASSUME NEW base, base = [m |-> base.m, size |-> base.size, length |-> base.length, crc |-> base.crc],
         NEW x, NEW y
  PROVE  [base EXCEPT !.m = x, !.length = y]
           = [m |-> x, size |-> base.size, length |-> y, crc |-> base.crc]
<1>1. PICK bm, bs, bl, bc : base = [m |-> bm, size |-> bs, length |-> bl, crc |-> bc]
  OBVIOUS
<1>2. base.size = bs /\ base.crc = bc
  BY <1>1
<1>3. [base EXCEPT !.m = x, !.length = y] = [[base EXCEPT !.m = x] EXCEPT !.length = y]
  OBVIOUS
<1>4. [base EXCEPT !.m = x] = [m |-> x, size |-> bs, length |-> bl, crc |-> bc]
  BY <1>1
<1>5. ASSUME NEW f, f = [m |-> x, size |-> bs, length |-> bl, crc |-> bc]
      PROVE  [f EXCEPT !.length = y] = [m |-> x, size |-> bs, length |-> y, crc |-> bc]
  BY <1>5
<1> QED
  BY <1>2, <1>3, <1>4, <1>5

(* No tokens are no words. *)
LEMMA WordsEmpty == Words(<<>>) = 0
<1> DEFINE f == [i \in 0 .. 0 |-> 0]
<1>1. IsSum(<<>>, f) /\ <<>> \in Seq({}) /\ \A t \in {} : t.n \in Nat
  BY DEF IsSum
<1>2. Words(<<>>) = f[Len(<<>>)]
  <2> HIDE DEF f
  <2> QED
    BY <1>1, WordsIsSum
<1> QED
  BY <1>2

(* Tokens T at depths c, extra dwords more than an empty item, which there is
   room for in the hive at p. *)
Fits(base, d, p, T, c, k, extra) ==
  /\ Sizes(base) /\ HiveAt(base.m, d, p) /\ k = d[p] + 1
  /\ Insertable(T, c, k) /\ Len(T) > 0
  /\ extra \in Nat /\ Words(T) = ItemWords(extra) /\ HasRoom(base, extra)

(* Tokens put in front of the end tag of a hive leave the base sound. *)
LEMMA InsertSound ==
  ASSUME NEW base, NEW d, NEW p, NEW T, NEW c, NEW k, NEW extra, Fits(base, d, p, T, c, k, extra),
         NEW at, at = FindEndTag(base.m, p)
  PROVE  /\ at \in p + 2 .. Len(base.m) - 1
         /\ Sizes(Inserted(base, at, T, extra))
         /\ Inserted(base, at, T, extra).m = Splice(base.m, at - 1, T, at)
         /\ Nested(Inserted(base, at, T, extra).m, SpliceDepth(base.m, d, at - 1, T, c, at))
<1>a. /\ Sizes(base) /\ HiveAt(base.m, d, p) /\ k = d[p] + 1 /\ Insertable(T, c, k)
      /\ extra \in Nat /\ Words(T) = ItemWords(extra) /\ HasRoom(base, extra)
  BY DEF Fits
<1> USE <1>a
<1> DEFINE m == base.m
           r == Inserted(base, at, T, extra)
<1>0. /\ Len(m) \in Nat /\ m \in Seq(Tokens) /\ d \in [1 .. Len(m) -> Nat]
      /\ p \in 1 .. Len(m) /\ m[p].w = "HIVE" /\ Nested(m, d)
  BY DEF HiveAt, Nested
<1>1. at \in p + 2 .. Len(m) - 1 /\ m[at].w = "EVIH" /\ d[at] = d[p] + 1
  BY <1>0, EndTagFound DEF EndsHive
<1> DEFINE a == at - 1
<1>2. a \in 1 .. Len(m) - 1 /\ at \in a + 1 .. Len(m) /\ a + 1 = at /\ a \in 0 .. Len(m) /\ at \in a + 1 .. Len(m) + 1
  BY <1>0, <1>1
<1>3. r = [m |-> Splice(m, a, T, at), size |-> base.size, length |-> base.length + ItemWords(extra), crc |-> base.crc]
  <2>1. r = [base EXCEPT !.m = Splice(m, a, T, at), !.length = base.length + ItemWords(extra)]
    BY Zenon DEF Inserted, Splice
  <2>2. base = [m |-> base.m, size |-> base.size, length |-> base.length, crc |-> base.crc]
    BY DEF Sizes
  <2> HIDE DEF r
  <2> QED
    BY <2>1, <2>2, BaseUpdated
<1> HIDE DEF a
<1>4. ~ IsName(m[at]) /\ d[at] > 0
  BY <1>0, <1>1 DEF IsName, SigWords
<1>5. Nested(Splice(m, a, T, at), SpliceDepth(m, d, a, T, c, at))
  <2>1. Insertable(T, c, d[at])
    BY <1>1
  <2> QED
    BY <1>0, <1>1, <1>2, <1>4, <2>1, SpliceNested
<1>6. T \in Seq(Tokens)
  BY DEF Insertable
<1>7. Words(SubSeq(m, a + 1, at - 1)) = 0
  <2>1. a + 1 \in Int /\ at - 1 \in Int /\ at - 1 < a + 1
    BY <1>0, <1>1, <1>2
  <2>2. SubSeq(m, a + 1, at - 1) = <<>>
    BY <2>1, SubSeqEmpty
  <2> QED
    BY <2>2, WordsEmpty
<1>8. /\ Words(m) \in Nat /\ Words(Splice(m, a, T, at)) \in Nat
      /\ Words(Splice(m, a, T, at)) = Words(m) - Words(SubSeq(m, a + 1, at - 1)) + Words(T)
  BY <1>0, <1>2, <1>6, SpliceWords
<1>9. ItemWords(extra) \in Nat
  BY DEF ItemWords
<1>10. /\ base.size \in Nat /\ base.length \in Nat /\ base.length = SIZEOF_BASE + Words(m)
       /\ base.size - base.length >= ItemWords(extra)
  BY DEF Sizes, HasRoom
<1>11. /\ base.length + ItemWords(extra) \in Nat /\ base.length + ItemWords(extra) <= base.size
       /\ base.length + ItemWords(extra) = SIZEOF_BASE + Words(Splice(m, a, T, at))
  <2> DEFINE x == ItemWords(extra)
             y == Words(m)
  <2>1. x \in Nat /\ y \in Nat /\ Words(Splice(m, a, T, at)) = y - 0 + x
    BY <1>7, <1>8, <1>9
  <2> HIDE DEF x, y
  <2>2. base.length = 12 + y
    BY <1>10 DEF y, SIZEOF_BASE
  <2>3. base.length + x = 12 + (y - 0 + x)
    BY <2>1, <2>2
  <2>4. base.size - base.length >= x
    BY <1>10 DEF x
  <2>5. base.length + x <= base.size /\ base.length + x \in Nat
    BY <1>10, <2>1, <2>4
  <2> QED
    BY <2>1, <2>3, <2>5 DEF x, SIZEOF_BASE
<1>12. Sizes(r)
  BY <1>3, <1>10, <1>11 DEF Sizes
<1> QED
  BY <1>1, <1>3, <1>5, <1>12 DEF a

(* An item taken out of a hive leaves the base sound, and the hives before it
   where they are. *)
LEMMA RemoveSound ==
  ASSUME NEW base, Sizes(base), NEW d, Nested(base.m, d), NEW pos \in 2 .. Len(base.m) - 1,
         base.m[pos].w \in {"HIVE", "CELL"}
  PROVE  /\ Sizes(registry_remove_item(base, pos))
         /\ registry_remove_item(base, pos).size = base.size
         /\ registry_remove_item(base, pos).length <= base.length
         /\ \E e : HiveAt(registry_remove_item(base, pos).m, e, 1)
         /\ \A p \in 1 .. pos - 1 : base.m[p].w = "HIVE" =>
              \E e : HiveAt(registry_remove_item(base, pos).m, e, p) /\ e[p] = d[p]
<1> DEFINE m == base.m
           end == IF m[pos].w = "CELL" THEN pos ELSE FindEndTag(m, pos)
           r == registry_remove_item(base, pos)
           a == pos - 1
           b == end + 1
           c == [i \in 1 .. 1 |-> d[b]]
           cut == Splice(m, a, <<>>, b)
           e == SpliceDepth(m, d, a, <<>>, c, b)
<1>0. /\ Len(m) \in Nat /\ m \in Seq(Tokens) /\ d \in [1 .. Len(m) -> Nat] /\ Len(m) >= 2
      /\ pos \in 1 .. Len(m)
  BY DEF Nested
<1>1. end \in pos .. Len(m) - 1 /\ d[end + 1] = d[pos] /\ ~ IsName(m[end + 1])
  <2>1. CASE m[pos].w = "CELL"
    <3>1. pos \in 1 .. Len(m) - 1 /\ end = pos
      BY <1>0, <2>1
    <3>2. d[pos + 1] = d[pos] /\ ~ IsName(m[pos + 1])
      BY <2>1, <3>1 DEF Nested
    <3> QED
      BY <1>0, <3>1, <3>2
  <2>2. CASE m[pos].w = "HIVE"
    <3>1. end = FindEndTag(m, pos)
      BY <2>2
    <3>2. end \in pos + 2 .. Len(m) - 1 /\ m[end].w = "EVIH" /\ d[end] = d[pos] + 1
      BY <1>0, <2>2, <3>1, EndTagFound DEF EndsHive
    <3> HIDE DEF end
    <3>3. end \in 1 .. Len(m) - 1 /\ end \in pos .. Len(m) - 1 /\ end + 1 \in 1 .. Len(m)
      BY <1>0, <3>2
    <3>4. d[end] = d[end + 1] + 1 /\ ~ IsName(m[end + 1])
      BY <3>2, <3>3 DEF Nested
    <3>5. d[end + 1] \in Nat /\ d[pos] \in Nat
      BY <1>0, <3>3
    <3> QED
      BY <3>2, <3>3, <3>4, <3>5
  <2> QED
    BY <2>1, <2>2
<1> HIDE DEF end
<1>2. /\ a \in 1 .. Len(m) - 1 /\ b \in a + 1 .. Len(m) /\ a + 1 = pos /\ b - 1 = end
      /\ a \in 0 .. Len(m) /\ b \in a + 1 .. Len(m) + 1 /\ b \in 1 .. Len(m)
  BY <1>0, <1>1
<1>3. d[b] = d[a + 1] /\ d[b] > 0 /\ d[b] \in Nat
  <2>1. d[pos] > 0 /\ d[pos] \in Nat
    BY <1>0 DEF Nested
  <2> QED
    BY <1>1, <1>2, <2>1
<1>4. ~ IsName(m[a + 1]) /\ ~ IsName(m[b])
  BY <1>1, <1>2 DEF IsName, SigWords
<1>5. <<>> \in Seq(Tokens) /\ Len(<<>>) = 0
  OBVIOUS
<1>6. Insertable(<<>>, c, d[b])
  BY <1>3, <1>5 DEF Insertable
<1> HIDE DEF a, b, c
<1>7. Nested(cut, e)
  BY <1>2, <1>3, <1>4, <1>6, SpliceNested
<1>8. r.m = cut /\ r = [m |-> cut, size |-> base.size, length |-> base.length - Words(SubSeq(m, pos, end)), crc |-> base.crc]
  <2>1. SubSeq(m, 1, a) \in Seq(Tokens)
    <3>1. \A i \in 1 .. a : i \in 1 .. Len(m)
      BY <1>0, <1>2
    <3> QED
      BY <1>0, <1>2, <3>1, SubSeqProperties
  <2>2. SubSeq(m, 1, a) \o <<>> = SubSeq(m, 1, a)
    BY <2>1, ConcatEmptySeq
  <2>3. cut = SubSeq(m, 1, pos - 1) \o SubSeq(m, end + 1, Len(m))
    BY <2>2 DEF Splice, a, b
  <2> HIDE DEF cut
  <2> QED
    <3>1. r = [base EXCEPT !.m = cut, !.length = base.length - Words(SubSeq(m, pos, end))]
      BY <2>3, Zenon DEF registry_remove_item, end
    <3>2. base = [m |-> base.m, size |-> base.size, length |-> base.length, crc |-> base.crc]
      BY DEF Sizes
    <3> HIDE DEF r
    <3>3. r = [m |-> cut, size |-> base.size, length |-> base.length - Words(SubSeq(m, pos, end)), crc |-> base.crc]
      BY <3>1, <3>2, BaseUpdated
    <3> QED
      BY <3>3
<1> DEFINE w == Words(SubSeq(m, pos, end))
<1>9. w \in Nat /\ Words(m) \in Nat /\ Words(cut) \in Nat /\ Words(cut) = Words(m) - w + 0
  <2>1. /\ Words(m) \in Nat /\ Words(SubSeq(m, a + 1, b - 1)) \in Nat /\ Words(cut) \in Nat
        /\ Words(cut) = Words(m) - Words(SubSeq(m, a + 1, b - 1)) + Words(<<>>)
    BY <1>0, <1>2, <1>5, SpliceWords
  <2>2. a + 1 = pos /\ b - 1 = end
    BY <1>2
  <2> QED
    BY <2>1, <2>2, WordsEmpty
<1>10. base.size \in Nat /\ base.length \in Nat /\ base.length = 12 + Words(m) /\ base.length <= base.size
  BY DEF Sizes, SIZEOF_BASE
<1>11. /\ base.length - w \in Nat /\ base.length - w <= base.length /\ base.length - w <= base.size
       /\ base.length - w = 12 + Words(cut)
  <2> DEFINE x == Words(m)
             y == Words(cut)
  <2>1. w \in Nat /\ x \in Nat /\ y \in Nat /\ y = x - w + 0 /\ base.length = 12 + x
    BY <1>9, <1>10
  <2> HIDE DEF w, x, y
  <2>2. base.length - w = 12 + y
    BY <2>1
  <2> QED
    BY <1>10, <2>1, <2>2 DEF y
<1> HIDE DEF cut, e, w
<1>12. Sizes(r) /\ r.size = base.size /\ r.length <= base.length
  <2>1. r = [m |-> cut, size |-> base.size, length |-> base.length - w, crc |-> base.crc]
    BY <1>8 DEF w
  <2> QED
    BY <1>10, <1>11, <2>1 DEF Sizes, SIZEOF_BASE
<1>13. ASSUME NEW p \in 1 .. pos - 1, m[p].w = "HIVE"
       PROVE  HiveAt(r.m, e, p) /\ e[p] = d[p]
  <2>0. PICK none : none = <<>>
    OBVIOUS
  <2>1. /\ Len(cut) = a + Len(none) + (Len(m) - b + 1)
        /\ \A i \in 1 .. a + Len(none) + (Len(m) - b + 1) :
             cut[i] = IF i <= a THEN m[i] ELSE IF i <= a + Len(none) THEN none[i - a]
                      ELSE m[i - a - Len(none) + b - 1]
    <3>1. cut = Splice(m, a, none, b) /\ none \in Seq(Tokens)
      BY <1>5, <2>0 DEF cut
    <3> DEFINE s == Splice(m, a, none, b)
    <3>2. /\ Len(s) = a + Len(none) + (Len(m) - b + 1)
          /\ \A i \in 1 .. a + Len(none) + (Len(m) - b + 1) :
               s[i] = IF i <= a THEN m[i] ELSE IF i <= a + Len(none) THEN none[i - a]
                      ELSE m[i - a - Len(none) + b - 1]
      <4>1. m \in Seq(Tokens) /\ none \in Seq(Tokens) /\ a \in 0 .. Len(m) /\ b \in a + 1 .. Len(m) + 1
        BY <1>0, <1>2, <3>1
      <4> HIDE DEF m
      <4> QED
        BY <4>1, SpliceIs
    <3> HIDE DEF s
    <3> QED
      BY <3>1, <3>2 DEF s
  <2>2. p <= a /\ p \in 1 .. a + Len(none) + (Len(m) - b + 1)
    BY <1>0, <1>2, <1>5, <2>0
  <2>3. cut[p] = m[p] /\ e[p] = d[p]
    BY <2>0, <2>1, <2>2 DEF e, SpliceDepth
  <2> QED
    BY <1>7, <1>8, <1>13, <2>1, <2>2, <2>3 DEF HiveAt
<1>14. \E f : HiveAt(r.m, f, 1)
  <2>1. 1 \in 1 .. pos - 1 /\ m[1].w = "HIVE"
    BY <1>0 DEF Nested
  <2> QED
    BY <1>13, <2>1
<1> HIDE DEF r
<1> QED
  BY <1>12, <1>13, <1>14 DEF r

(* What may be put into a hive at depth k: a cell, and a hive that is empty. *)
LEMMA CellInsertable ==
  ASSUME NEW tok \in Tokens, tok.w = "CELL", NEW D \in Nat, D > 0
  PROVE  \E c : Insertable(<<tok>>, c, D) /\ c[1] = D
<1> DEFINE c == [i \in 1 .. 2 |-> D]
<1>1. Insertable(<<tok>>, c, D)
  BY DEF Insertable, IsName, SigWords
<1> QED
  BY <1>1

(* A hive that is empty may be put into a hive at any depth. *)
LEMMA HiveInsertable ==
  ASSUME NEW name \in PlainName, NEW D \in Nat, D > 0
  PROVE  \E c : /\ Insertable(<<REG_HIVE_SIG_S, HiveName(name, D), REG_HIVE_SIG_E>>, c, D)
                /\ c[1] = D
<1> DEFINE S == REG_HIVE_SIG_S
           N == HiveName(name, D)
           E == REG_HIVE_SIG_E
           T == <<S, N, E>>
           c == [i \in 1 .. 4 |-> IF i \in {1, 4} THEN D ELSE D + 1]
<1>1. S \in Tokens /\ N \in Tokens /\ E \in Tokens
  BY DEF Tokens
<1>2. S.w = "HIVE" /\ E.w = "EVIH" /\ N.w = name /\ N.depth = D
  BY DEF REG_HIVE_SIG_S, REG_HIVE_SIG_E, HiveName
<1>3. /\ IsName(N) /\ ~ IsName(S) /\ ~ IsName(E) /\ S.w # "ESAB" /\ E.w # "ESAB" /\ N.w # "ESAB"
      /\ N.w # "HIVE" /\ N.w # "EVIH" /\ S.w # "EVIH" /\ E.w # "HIVE"
  BY <1>2 DEF IsName, SigWords, PlainName
<1> HIDE DEF S, N, E
<1>4. T \in Seq(Tokens) /\ Len(T) = 3 /\ T[1] = S /\ T[2] = N /\ T[3] = E
  BY <1>1
<1> HIDE DEF T
<1>5. c \in [1 .. 4 -> Nat] /\ c[1] = D /\ c[2] = D + 1 /\ c[3] = D + 1 /\ c[4] = D
  OBVIOUS
<1> HIDE DEF c
<1>6. ASSUME NEW i \in 1 .. 3
      PROVE  /\ c[i] > 0 /\ T[i].w # "ESAB"
             /\ T[i].w = "HIVE" => c[i + 1] = c[i] + 1
             /\ T[i].w = "EVIH" => c[i] = c[i + 1] + 1
             /\ T[i].w \notin {"HIVE", "EVIH"} => c[i + 1] = c[i]
  <2>1. CASE i = 1
    BY <1>2, <1>3, <1>4, <1>5, <2>1
  <2>2. CASE i = 2
    BY <1>2, <1>3, <1>4, <1>5, <2>2
  <2>3. CASE i = 3
    BY <1>2, <1>3, <1>4, <1>5, <2>3
  <2> QED
    BY <2>1, <2>2, <2>3
<1>7. ASSUME NEW i \in 1 .. 2
      PROVE  /\ T[i].w = "HIVE" => IsName(T[i + 1]) /\ T[i + 1].depth = c[i]
             /\ IsName(T[i + 1]) => T[i].w = "HIVE"
  <2>1. CASE i = 1
    BY <1>2, <1>3, <1>4, <1>5, <2>1
  <2>2. CASE i = 2
    BY <1>2, <1>3, <1>4, <1>5, <2>2
  <2> QED
    BY <2>1, <2>2
<1>8. Insertable(T, c, D)
  BY <1>2, <1>3, <1>4, <1>5, <1>6, <1>7 DEF Insertable
<1> QED
  BY <1>5, <1>8 DEF T, S, N, E

(* The words of a hive that is empty are what registry_add_hive counts. *)
LEMMA HiveWords ==
  ASSUME NEW name \in PlainName, NEW D \in Nat
  PROVE  Words(<<REG_HIVE_SIG_S, HiveName(name, D), REG_HIVE_SIG_E>>) = ItemWords(0)
<1> DEFINE S == REG_HIVE_SIG_S
           N == HiveName(name, D)
           E == REG_HIVE_SIG_E
<1>1. S \in Tokens /\ N \in Tokens /\ E \in Tokens
  BY DEF Tokens
<1>2. S.n = 1 /\ N.n = 10 /\ E.n = 1
  BY DEF REG_HIVE_SIG_S, REG_HIVE_SIG_E, HiveName
<1> HIDE DEF S, N, E
<1> DEFINE T == <<S, N, E>>
           f == [i \in 0 .. 3 |-> IF i = 0 THEN 0 ELSE IF i = 1 THEN 1 ELSE IF i = 2 THEN 11 ELSE 12]
<1>3. T \in Seq(Tokens) /\ Len(T) = 3 /\ T[1].n = 1 /\ T[2].n = 10 /\ T[3].n = 1
  BY <1>1, <1>2
<1>4. IsSum(T, f)
  <2> HIDE DEF T
  <2>1. \A i \in 1 .. 3 : f[i] = f[i - 1] + T[i].n
    <3> TAKE i \in 1 .. 3
    <3>1. i = 1 \/ i = 2 \/ i = 3
      OBVIOUS
    <3> QED
      BY <1>3, <3>1
  <2> QED
    BY <1>3, <2>1 DEF IsSum
<1>5. \A t \in Tokens : t.n \in Nat
  BY TokenKinds
<1>6. f[3] = 12
  OBVIOUS
<1>7. Words(T) = f[Len(T)]
  <2> HIDE DEF T, f
  <2> QED
    BY <1>3, <1>4, <1>5, WordsIsSum
<1>8. Words(T) = 12
  <2> HIDE DEF T, f
  <2> QED
    BY <1>3, <1>6, <1>7
<1> QED
  BY <1>8 DEF T, S, N, E, ItemWords

-----------------------------------------------------------------------------
(* The record a write works on, when it has reached a hive at depth k. *)
WriteState(s, k) ==
  /\ s = [base |-> s.base, pos |-> s.pos, aborted |-> s.aborted] /\ s.aborted \in BOOLEAN
  /\ Sizes(s.base)
  /\ \E d : HiveAt(s.base.m, d, s.pos) /\ (s.aborted \/ d[s.pos] = k)

(* The record of a write with another place. *)
LEMMA PosUpdated ==
  ASSUME NEW s, s = [base |-> s.base, pos |-> s.pos, aborted |-> s.aborted], NEW y
  PROVE  [s EXCEPT !.pos = y] = [base |-> s.base, pos |-> y, aborted |-> s.aborted]
<1>1. PICK sb, sp, sa : s = [base |-> sb, pos |-> sp, aborted |-> sa]
  OBVIOUS
<1>2. [s EXCEPT !.pos = y] = [base |-> sb, pos |-> y, aborted |-> sa]
  BY <1>1
<1> QED
  BY <1>1, <1>2

(* The record of a write with another base. *)
LEMMA StreamUpdated ==
  ASSUME NEW s, s = [base |-> s.base, pos |-> s.pos, aborted |-> s.aborted], NEW x
  PROVE  [s EXCEPT !.base = x] = [base |-> x, pos |-> s.pos, aborted |-> s.aborted]
<1>1. PICK sb, sp, sa : s = [base |-> sb, pos |-> sp, aborted |-> sa]
  OBVIOUS
<1>2. [s EXCEPT !.base = x] = [base |-> x, pos |-> sp, aborted |-> sa]
  BY <1>1
<1> QED
  BY <1>1, <1>2

(* The record of a write with another flag. *)
LEMMA AbortUpdated ==
  ASSUME NEW s, s = [base |-> s.base, pos |-> s.pos, aborted |-> s.aborted], NEW z
  PROVE  [s EXCEPT !.aborted = z] = [base |-> s.base, pos |-> s.pos, aborted |-> z]
<1>1. PICK sb, sp, sa : s = [base |-> sb, pos |-> sp, aborted |-> sa]
  OBVIOUS
<1>2. [s EXCEPT !.aborted = z] = [base |-> sb, pos |-> sp, aborted |-> z]
  BY <1>1
<1> QED
  BY <1>1, <1>2

(* The record of a write with another base and another place. *)
LEMMA StateUpdated ==
  ASSUME NEW s, s = [base |-> s.base, pos |-> s.pos, aborted |-> s.aborted], NEW x, NEW y
  PROVE  [s EXCEPT !.base = x, !.pos = y] = [base |-> x, pos |-> y, aborted |-> s.aborted]
<1>1. PICK sa : sa = s.aborted
  OBVIOUS
<1>2. [s EXCEPT !.base = x, !.pos = y] = [[s EXCEPT !.base = x] EXCEPT !.pos = y]
  OBVIOUS
<1>3. [s EXCEPT !.base = x] = [base |-> x, pos |-> s.pos, aborted |-> sa]
  BY <1>1, StreamUpdated
<1>4. ASSUME NEW f, NEW fp, f = [base |-> x, pos |-> fp, aborted |-> sa]
      PROVE  [f EXCEPT !.pos = y] = [base |-> x, pos |-> y, aborted |-> sa]
  BY <1>4
<1> QED
  BY <1>1, <1>2, <1>3, <1>4

(* The record stays what it is when its parts do. *)
LEMMA WriteStateIs ==
  ASSUME NEW b, Sizes(b), NEW p, NEW ab \in BOOLEAN, NEW k, NEW d, HiveAt(b.m, d, p), ab \/ d[p] = k,
         NEW s, s = [base |-> b, pos |-> p, aborted |-> ab]
  PROVE  WriteState(s, k)
<1>1. s.base = b /\ s.pos = p /\ s.aborted = ab
  OBVIOUS
<1>2. s = [base |-> s.base, pos |-> s.pos, aborted |-> s.aborted]
  BY <1>1
<1> QED
  BY <1>1, <1>2 DEF WriteState

(* The base, and its depths, when tokens have been put in front of the end tag
   of the hive at p. *)
LEMMA InsertFound ==
  ASSUME NEW base, NEW d, NEW p, NEW T, NEW c, NEW k, NEW extra, Fits(base, d, p, T, c, k, extra),
         NEW at, at = FindEndTag(base.m, p),
         NEW r, r = Inserted(base, at, T, extra)
  PROVE  /\ Sizes(r)
         /\ \E g : /\ Nested(r.m, g)
                  /\ at \in 1 .. Len(r.m) /\ r.m[at] = T[1] /\ g[at] = k
                  /\ p \in 1 .. Len(r.m) /\ r.m[p] = base.m[p] /\ g[p] = d[p]
<1>1. /\ at \in p + 2 .. Len(base.m) - 1
      /\ Sizes(r) /\ r.m = Splice(base.m, at - 1, T, at)
      /\ Nested(r.m, SpliceDepth(base.m, d, at - 1, T, c, at))
  BY InsertSound
<1>2. PICK m, a : m = base.m /\ a = at - 1
  OBVIOUS
<1>3. PICK x, g : x = Splice(m, a, T, at) /\ g = SpliceDepth(m, d, a, T, c, at)
  OBVIOUS
<1>4. r.m = x /\ Nested(x, g)
  BY <1>1, <1>2, <1>3
<1>5. /\ m \in Seq(Tokens) /\ Len(m) \in Nat /\ p \in 1 .. Len(m) /\ T \in Seq(Tokens)
      /\ Len(T) \in Nat /\ Len(T) > 0 /\ c[1] = k
  BY <1>2 DEF Fits, HiveAt, Nested, Insertable
<1>6. /\ at \in 1 .. Len(m) /\ p \in 1 .. a /\ a \in Nat /\ a \in 0 .. Len(m)
      /\ at \in a + 1 .. Len(m) + 1
  BY <1>1, <1>2, <1>5
<1> DEFINE R == a + Len(T) + (Len(m) - at + 1)
<1>7. R \in Int
  BY <1>5, <1>6
<1>8. /\ Len(x) = R
      /\ \A i \in 1 .. R : x[i] = IF i <= a THEN m[i] ELSE IF i <= a + Len(T) THEN T[i - a]
                               ELSE m[i - a - Len(T) + at - 1]
  <2>1. /\ Len(Splice(m, a, T, at)) = R
        /\ \A i \in 1 .. R :
             Splice(m, a, T, at)[i] = IF i <= a THEN m[i] ELSE IF i <= a + Len(T) THEN T[i - a]
                                      ELSE m[i - a - Len(T) + at - 1]
    BY <1>5, <1>6, SpliceIs
  <2> HIDE DEF R
  <2> QED
    BY <1>3, <2>1
<1>9. \A i \in 1 .. R : g[i] = IF i <= a THEN d[i] ELSE IF i <= a + Len(T) THEN c[i - a]
                               ELSE d[i - a - Len(T) + at - 1]
  BY <1>3 DEF SpliceDepth
<1>10. /\ at \in 1 .. R /\ ~ (at <= a) /\ at <= a + Len(T) /\ at - a = 1
       /\ p \in 1 .. R /\ p <= a
  BY <1>2, <1>5, <1>6
<1> HIDE DEF R
<1>11. x[at] = T[at - a] /\ g[at] = c[at - a] /\ x[p] = m[p] /\ g[p] = d[p]
  BY <1>8, <1>9, <1>10
<1> QED
  BY <1>1, <1>2, <1>4, <1>5, <1>8, <1>10, <1>11

(* A write that adds a hive has then reached it. *)
LEMMA AddHiveSound ==
  ASSUME NEW k \in Nat, NEW s, WriteState(s, k), ~ s.aborted, NEW name \in PlainName
  PROVE  WriteState(registry_add_hive(s, name, k + 1), k + 1)
<1> DEFINE r == registry_add_hive(s, name, k + 1)
<1>1. PICK base, p, ab, at, T, b : /\ base = s.base /\ p = s.pos /\ ab = s.aborted
                                  /\ at = FindEndTag(base.m, p)
                                  /\ T = <<REG_HIVE_SIG_S, HiveName(name, k + 1), REG_HIVE_SIG_E>>
                                  /\ b = Inserted(base, at, T, 0)
  OBVIOUS
<1>a. s = [base |-> s.base, pos |-> s.pos, aborted |-> s.aborted]
  BY DEF WriteState
<1>2. Sizes(base) /\ ab = FALSE
  BY <1>1 DEF WriteState
<1>3. PICK d : HiveAt(base.m, d, p) /\ d[p] = k
  BY <1>1 DEF WriteState
<1>4. CASE ~ HasRoom(base, 0)
  <2>1. r = [s EXCEPT !.aborted = TRUE]
    BY <1>1, <1>4 DEF registry_add_hive
  <2>2. [s EXCEPT !.aborted = TRUE] = [base |-> s.base, pos |-> s.pos, aborted |-> TRUE]
    BY <1>a, AbortUpdated
  <2> HIDE DEF r
  <2>3. r = [base |-> base, pos |-> p, aborted |-> TRUE]
    BY <1>1, <2>1, <2>2
  <2>4. WriteState(r, k + 1)
    BY <1>2, <1>3, <2>3, WriteStateIs
  <2> QED
    BY <2>4 DEF r
<1>5. CASE HasRoom(base, 0)
  <2>1. r = [s EXCEPT !.base = b, !.pos = at]
    <3>1. HasRoom(s.base, 0)
      BY <1>1, <1>5
    <3>2. /\ FindEndTag(s.base.m, s.pos) = at
          /\ Inserted(s.base, at, <<REG_HIVE_SIG_S, HiveName(name, k + 1), REG_HIVE_SIG_E>>, 0) = b
      BY <1>1
    <3> QED
      BY <3>1, <3>2, Zenon DEF registry_add_hive
  <2>2. [s EXCEPT !.base = b, !.pos = at] = [base |-> b, pos |-> at, aborted |-> s.aborted]
    BY <1>a, StateUpdated
  <2> HIDE DEF r
  <2>3. r = [base |-> b, pos |-> at, aborted |-> FALSE]
    BY <1>1, <1>2, <2>1, <2>2
  <2>4. \E c : Insertable(T, c, k + 1)
    BY <1>1, HiveInsertable
  <2>5. PICK c : Insertable(T, c, k + 1)
    BY <2>4
  <2>6. Words(T) = ItemWords(0)
    BY <1>1, HiveWords
  <2>7. Len(T) > 0 /\ T[1].w = "HIVE"
    BY <1>1 DEF REG_HIVE_SIG_S
  <2>8. PICK z, h : z = 0 /\ h = k + 1
    OBVIOUS
  <2>9. Fits(base, d, p, T, c, h, z) /\ b = Inserted(base, at, T, z)
    BY <1>1, <1>2, <1>3, <1>5, <2>5, <2>6, <2>7, <2>8 DEF Fits
  <2>10. Sizes(b) /\ \E g : Nested(b.m, g) /\ at \in 1 .. Len(b.m) /\ b.m[at] = T[1] /\ g[at] = h
    BY <1>1, <2>9, InsertFound
  <2>11. PICK g : HiveAt(b.m, g, at) /\ g[at] = k + 1
    BY <2>7, <2>8, <2>10 DEF HiveAt
  <2>12. WriteState(r, k + 1)
    BY <2>3, <2>10, <2>11, WriteStateIs
  <2> QED
    BY <2>12 DEF r
<1> QED
  BY <1>4, <1>5

(* A write that goes down one more hive has then reached it. *)
LEMMA IntoHiveSound ==
  ASSUME NEW k \in Nat, NEW s, WriteState(s, k), NEW name \in PlainName
  PROVE  WriteState(IntoHive(s, name, k + 1), k + 1)
<1> DEFINE p == FindItem(s.base.m, s.pos, name, "HIVE")
<1>1. CASE s.aborted
  <2>1. IntoHive(s, name, k + 1) = s
    BY <1>1 DEF IntoHive
  <2> QED
    BY <1>1, <2>1 DEF WriteState
<1>2. CASE ~ s.aborted /\ p = NULL
  <2>1. IntoHive(s, name, k + 1) = registry_add_hive(s, name, k + 1)
    BY <1>2 DEF IntoHive
  <2> QED
    BY <1>2, <2>1, AddHiveSound
<1>3. CASE ~ s.aborted /\ p # NULL
  <2>1. IntoHive(s, name, k + 1) = [s EXCEPT !.pos = p]
    BY <1>3 DEF IntoHive
  <2>2. PICK d : HiveAt(s.base.m, d, s.pos) /\ d[s.pos] = k
    BY <1>3 DEF WriteState
  <2>3. EndsHive(s.base.m, d, s.pos, FindEndTag(s.base.m, s.pos))
    BY <2>2, EndTagFound DEF HiveAt
  <2> DEFINE e == FindEndTag(s.base.m, s.pos)
  <2>4. ItemIn(s.base.m, d, s.pos, e, name, "HIVE", p)
    <3>1. Nested(s.base.m, d) /\ s.pos \in 1 .. Len(s.base.m) /\ s.base.m[s.pos].w = "HIVE"
      BY <2>2 DEF HiveAt
    <3> HIDE DEF e
    <3>2. EndsHive(s.base.m, d, s.pos, e)
      BY <2>3 DEF e
    <3> QED
      BY <1>3, <3>1, <3>2, ItemFound
  <2> HIDE DEF p, e
  <2>5. e \in s.pos + 2 .. Len(s.base.m) - 1 /\ p \in s.pos + 2 .. e - 1 /\ d[p] = k + 1 /\ s.base.m[p].w = "HIVE"
    BY <2>2, <2>3, <2>4 DEF EndsHive, ItemIn, IsItem, e
  <2>6. Len(s.base.m) \in Nat /\ s.pos \in 1 .. Len(s.base.m)
    BY <2>2 DEF HiveAt, Nested
  <2>7. p \in 1 .. Len(s.base.m)
    BY <2>5, <2>6
  <2>8. HiveAt(s.base.m, d, p)
    BY <2>2, <2>5, <2>7 DEF HiveAt
  <2>9. s = [base |-> s.base, pos |-> s.pos, aborted |-> s.aborted] /\ Sizes(s.base)
    BY DEF WriteState
  <2> DEFINE r == IntoHive(s, name, k + 1)
  <2>10. r = [base |-> s.base, pos |-> p, aborted |-> FALSE]
    <3>1. s.aborted = FALSE
      BY <1>3 DEF WriteState
    <3>2. [s EXCEPT !.pos = p] = [base |-> s.base, pos |-> p, aborted |-> s.aborted]
      BY <2>9, PosUpdated
    <3> QED
      BY <2>1, <3>1, <3>2
  <2> HIDE DEF r
  <2>11. WriteState(r, k + 1)
    BY <2>5, <2>8, <2>9, <2>10, WriteStateIs
  <2> QED
    BY <2>11 DEF r
<1> QED
  BY <1>1, <1>2, <1>3

(* A write that adds a cell is still at its hive. *)
LEMMA AddCellSound ==
  ASSUME NEW k \in Nat, NEW s, WriteState(s, k), ~ s.aborted, NEW name \in PlainName,
         NEW v \in {Stored(v) : v \in Values}
  PROVE  WriteState(registry_add_cell(s, name, v), k)
<1> DEFINE r == registry_add_cell(s, name, v)
<1>0. PICK n : n = v.len
  OBVIOUS
<1>1. PICK base, p, ab, at, T, b : /\ base = s.base /\ p = s.pos /\ ab = s.aborted
                                  /\ at = FindEndTag(base.m, p)
                                  /\ T = <<Cell(name, v.type, n, v.data)>>
                                  /\ b = Inserted(base, at, T, n)
  OBVIOUS
<1>a. s = [base |-> s.base, pos |-> s.pos, aborted |-> s.aborted]
  BY DEF WriteState
<1>2. Sizes(base) /\ ab = FALSE
  BY <1>1 DEF WriteState
<1>3. PICK d : HiveAt(base.m, d, p) /\ d[p] = k
  BY <1>1 DEF WriteState
<1>b. n \in Nat
  <2>1. PICK u \in Values : v = Stored(u)
    OBVIOUS
  <2>2. v.len = u.len
    BY <2>1, RegistryAssumption DEF Stored
  <2> QED
    BY <1>0, <2>2, RegistryAssumption, SizeAssumption
<1>4. CASE ~ HasRoom(base, n)
  <2>1. r = [s EXCEPT !.aborted = TRUE]
    BY <1>0, <1>1, <1>4 DEF registry_add_cell
  <2>2. [s EXCEPT !.aborted = TRUE] = [base |-> s.base, pos |-> s.pos, aborted |-> TRUE]
    BY <1>a, AbortUpdated
  <2> HIDE DEF r
  <2>3. r = [base |-> base, pos |-> p, aborted |-> TRUE]
    BY <1>1, <2>1, <2>2
  <2>4. WriteState(r, k)
    BY <1>2, <1>3, <2>3, WriteStateIs
  <2> QED
    BY <2>4 DEF r
<1>5. CASE HasRoom(base, n)
  <2>1. r = [s EXCEPT !.base = b]
    <3>1. HasRoom(s.base, v.len)
      BY <1>0, <1>1, <1>5
    <3>2. /\ FindEndTag(s.base.m, s.pos) = at
          /\ Inserted(s.base, at, <<Cell(name, v.type, v.len, v.data)>>, v.len) = b
      BY <1>0, <1>1
    <3> QED
      BY <3>1, <3>2, Zenon DEF registry_add_cell
  <2>2. [s EXCEPT !.base = b] = [base |-> b, pos |-> s.pos, aborted |-> s.aborted]
    BY <1>a, StreamUpdated
  <2> HIDE DEF r
  <2>3. r = [base |-> b, pos |-> p, aborted |-> FALSE]
    BY <1>1, <1>2, <2>1, <2>2
  <2>4. PICK tok : tok = Cell(name, v.type, n, v.data)
    OBVIOUS
  <2>5. tok \in Tokens /\ tok.w = "CELL" /\ tok.n = ItemWords(n)
    <3>1. tok \in Tokens
      BY <1>0, <2>4 DEF Tokens
    <3> QED
      BY <2>4, <3>1 DEF Cell
  <2>6. d[p] \in Nat
    BY <1>3 DEF HiveAt, Nested
  <2>7. PICK h : h = k + 1
    OBVIOUS
  <2>8. h \in Nat /\ h > 0 /\ h = d[p] + 1
    BY <1>3, <2>7
  <2>9. PICK c : Insertable(T, c, h) /\ c[1] = h
    BY <1>1, <2>4, <2>5, <2>8, CellInsertable
  <2>10. Words(T) = ItemWords(n)
    <3>1. ItemWords(n) \in Nat
      BY <1>b DEF ItemWords
    <3> QED
      BY <1>1, <2>4, <2>5, <3>1, WordsOne
  <2>11. Len(T) > 0
    BY <1>1
  <2>12. Fits(base, d, p, T, c, h, n)
    BY <1>b, <1>2, <1>3, <1>5, <2>8, <2>9, <2>10, <2>11 DEF Fits
  <2>13. /\ Sizes(b)
         /\ \E g : Nested(b.m, g) /\ p \in 1 .. Len(b.m) /\ b.m[p] = base.m[p] /\ g[p] = d[p]
    BY <1>1, <2>12, InsertFound
  <2>14. PICK g : HiveAt(b.m, g, p) /\ g[p] = k
    BY <1>3, <2>13 DEF HiveAt
  <2>15. WriteState(r, k)
    BY <2>3, <2>13, <2>14, WriteStateIs
  <2> QED
    BY <2>15 DEF r
<1> QED
  BY <1>4, <1>5

(* An item of the hive at p is a place between the hive and its end tag. *)
LEMMA ItemPlace ==
  ASSUME NEW m, NEW d, NEW p, HiveAt(m, d, p), NEW name, NEW sig \in {"HIVE", "CELL"}, NEW j,
         j = FindItem(m, p, name, sig), j # NULL
  PROVE  /\ j \in 2 .. Len(m) - 1 /\ p \in 1 .. j - 1 /\ m[j].w = sig /\ d[j] = d[p] + 1
         /\ j \in 1 .. Len(m)
<1>1. Nested(m, d) /\ p \in 1 .. Len(m) /\ m[p].w = "HIVE" /\ Len(m) \in Nat
  BY DEF HiveAt, Nested
<1>2. PICK e : e = FindEndTag(m, p)
  OBVIOUS
<1>3. EndsHive(m, d, p, e)
  BY <1>1, <1>2, EndTagFound
<1>4. ItemIn(m, d, p, e, name, sig, j)
  BY <1>1, <1>3, ItemFound
<1>5. /\ e \in p + 2 .. Len(m) - 1 /\ j \in p + 2 .. e - 1 /\ d[j] = d[p] + 1 /\ m[j].w = sig
  BY <1>3, <1>4 DEF EndsHive, ItemIn, IsItem
<1> QED
  BY <1>1, <1>5

(* A write that replaces a cell is still at its hive. *)
LEMMA ReplaceCellSound ==
  ASSUME NEW k \in Nat, NEW s, WriteState(s, k), ~ s.aborted, NEW name \in PlainName,
         NEW v \in {Stored(v) : v \in Values}
  PROVE  WriteState(ReplaceCell(s, name, v), k)
<1>1. PICK j : j = FindItem(s.base.m, s.pos, name, "CELL")
  OBVIOUS
<1>2. CASE j = NULL
  <2>1. ReplaceCell(s, name, v) = registry_add_cell(s, name, v)
    BY <1>1, <1>2 DEF ReplaceCell
  <2> QED
    BY <2>1, AddCellSound
<1>3. CASE j # NULL
  <2>1. PICK b, t : b = registry_remove_item(s.base, j) /\ t = [s EXCEPT !.base = b]
    OBVIOUS
  <2>2. ReplaceCell(s, name, v) = registry_add_cell(t, name, v)
    <3>1. [s EXCEPT !.base = registry_remove_item(@, j)] = t
      BY <2>1
    <3> QED
      BY <1>1, <1>3, <3>1 DEF ReplaceCell
  <2>3. /\ s = [base |-> s.base, pos |-> s.pos, aborted |-> s.aborted]
        /\ s.aborted = FALSE
    BY DEF WriteState
  <2>4. t = [base |-> b, pos |-> s.pos, aborted |-> FALSE]
    BY <2>1, <2>3, StreamUpdated
  <2>5. PICK base, p : base = s.base /\ p = s.pos
    OBVIOUS
  <2>6. PICK d : HiveAt(base.m, d, p) /\ d[p] = k /\ Sizes(base)
    BY <2>5 DEF WriteState
  <2>7. /\ j \in 2 .. Len(base.m) - 1 /\ p \in 1 .. j - 1 /\ base.m[j].w = "CELL"
    <3>1. HiveAt(base.m, d, p) /\ j = FindItem(base.m, p, name, "CELL") /\ j # NULL
      BY <1>1, <1>3, <2>5, <2>6
    <3> QED
      BY <3>1, ItemPlace
  <2>8. Nested(base.m, d) /\ base.m[p].w = "HIVE"
    BY <2>6 DEF HiveAt
  <2>9. Sizes(b) /\ \E e : HiveAt(b.m, e, p) /\ e[p] = d[p]
    <3>1. b = registry_remove_item(base, j) /\ base.m[j].w \in {"HIVE", "CELL"}
      BY <2>1, <2>5, <2>7
    <3> QED
      BY <2>6, <2>7, <2>8, <3>1, RemoveSound
  <2>10. WriteState(t, k)
    <3>1. PICK e : HiveAt(b.m, e, p) /\ e[p] = k
      BY <2>6, <2>9
    <3> QED
      BY <2>4, <2>5, <2>9, <3>1, WriteStateIs
  <2>11. ~ t.aborted
    BY <2>4
  <2> QED
    BY <2>2, <2>10, <2>11, AddCellSound
<1> QED
  BY <1>2, <1>3

-----------------------------------------------------------------------------
(* The way down a path, adding the hives that are not there. *)
Way(base, path, f) ==
  /\ DOMAIN f = 0 .. Len(path) - 1
  /\ f[0] = [base |-> base, pos |-> 1, aborted |-> FALSE]
  /\ \A i \in 1 .. Len(path) - 1 : f[i] = IntoHive(f[i - 1], path[i], i)

(* There is a way down every path. *)
LEMMA WayExists ==
  ASSUME NEW base, NEW path, Len(path) \in Nat, Len(path) > 0
  PROVE  \E f : Way(base, path, f)
<1> DEFINE Start == [base |-> base, pos |-> 1, aborted |-> FALSE]
           Upto(k, f) == /\ DOMAIN f = 0 .. k /\ f[0] = Start
                         /\ \A i \in 1 .. k : f[i] = IntoHive(f[i - 1], path[i], i)
           S == {k \in Nat : \E f : Upto(k, f)}
<1> HIDE DEF Start
<1>1. 0 \in S
  <2>1. Upto(0, [i \in 0 .. 0 |-> Start])
    OBVIOUS
  <2> QED
    BY <2>1
<1>2. ASSUME NEW k \in Nat, k \in S PROVE k + 1 \in S
  <2>1. PICK f : Upto(k, f)
    <3> HIDE DEF Upto
    <3> QED
      BY <1>2
  <2> DEFINE g == [i \in 0 .. k + 1 |-> IF i = k + 1 THEN IntoHive(f[k], path[k + 1], k + 1) ELSE f[i]]
  <2>2. DOMAIN g = 0 .. k + 1 /\ g[0] = Start
    BY <2>1
  <2>3. ASSUME NEW i \in 1 .. k + 1 PROVE g[i] = IntoHive(g[i - 1], path[i], i)
    <3>1. CASE i = k + 1
      <4>1. g[i] = IntoHive(f[k], path[i], i) /\ i - 1 = k
        BY <3>1
      <4>2. g[k] = f[k]
        OBVIOUS
      <4> HIDE DEF g
      <4> QED
        BY <4>1, <4>2
    <3>2. CASE i # k + 1
      <4>1. i \in 1 .. k /\ i - 1 \in 0 .. k /\ i \in 0 .. k + 1 /\ i - 1 \in 0 .. k + 1 /\ i - 1 # k + 1
        BY <3>2
      <4>2. g[i] = f[i] /\ g[i - 1] = f[i - 1]
        BY <3>2, <4>1
      <4> HIDE DEF g
      <4> QED
        BY <2>1, <4>1, <4>2
    <3> QED
      BY <3>1, <3>2
  <2>4. Upto(k + 1, g)
    <3> HIDE DEF g
    <3> QED
      BY <2>2, <2>3
  <2> QED
    <3> HIDE DEF Upto, g
    <3> QED
      BY <2>4
<1>3. Len(path) - 1 \in S
  <2>1. Len(path) - 1 \in Nat
    OBVIOUS
  <2> HIDE DEF S
  <2> QED
    BY <1>1, <1>2, <2>1, SetInduction
<1> QED
  BY <1>3 DEF Way, Start

(* AddHives is the end of the way. *)
LEMMA AddHivesIs ==
  ASSUME NEW base, NEW path, Len(path) \in Nat, Len(path) > 0
  PROVE  \E f : Way(base, path, f) /\ AddHives(base, path) = f[Len(path) - 1]
<1> DEFINE Fix(g) == g = [i \in 0 .. Len(path) - 1 |->
                           IF i = 0 THEN [base |-> base, pos |-> 1, aborted |-> FALSE]
                           ELSE IntoHive(g[i - 1], path[i], i)]
<1>1. \E f : Fix(f)
  <2>1. PICK f : Way(base, path, f)
    BY WayExists
  <2> DEFINE g == [i \in 0 .. Len(path) - 1 |-> f[i]]
  <2>2. ASSUME NEW i \in 0 .. Len(path) - 1
        PROVE  g[i] = IF i = 0 THEN [base |-> base, pos |-> 1, aborted |-> FALSE]
                      ELSE IntoHive(g[i - 1], path[i], i)
    <3>1. CASE i = 0
      BY <2>1, <3>1 DEF Way
    <3>2. CASE i # 0
      <4>1. i \in 1 .. Len(path) - 1 /\ i - 1 \in 0 .. Len(path) - 1
        BY <3>2
      <4>2. g[i] = f[i] /\ g[i - 1] = f[i - 1]
        BY <4>1
      <4>3. f[i] = IntoHive(f[i - 1], path[i], i)
        BY <2>1, <4>1 DEF Way
      <4> HIDE DEF g
      <4> QED
        BY <3>2, <4>2, <4>3
    <3> QED
      BY <3>1, <3>2
  <2>3. Fix(g)
    <3>1. g = [i \in 0 .. Len(path) - 1 |-> g[i]]
      OBVIOUS
    <3> HIDE DEF g
    <3> QED
      BY <2>2, <3>1
  <2> QED
    <3> HIDE DEF Fix
    <3> QED
      BY <2>3
<1>2. AddHives(base, path) = (CHOOSE g : Fix(g))[Len(path) - 1]
  BY DEF AddHives
<1>3. Fix(CHOOSE g : Fix(g))
  <2> HIDE DEF Fix
  <2> QED
    BY <1>1
<1>4. ASSUME NEW g, Fix(g) PROVE Way(base, path, g)
  <2>1. DOMAIN g = 0 .. Len(path) - 1
    BY <1>4
  <2>2. 0 \in 0 .. Len(path) - 1 /\ g[0] = [base |-> base, pos |-> 1, aborted |-> FALSE]
    BY <1>4
  <2>3. ASSUME NEW i \in 1 .. Len(path) - 1 PROVE g[i] = IntoHive(g[i - 1], path[i], i)
    <3>1. i \in 0 .. Len(path) - 1 /\ i # 0
      OBVIOUS
    <3> QED
      BY <1>4, <3>1
  <2> HIDE DEF Fix
  <2> QED
    BY <2>1, <2>2, <2>3 DEF Way
<1> HIDE DEF Fix
<1> QED
  BY <1>2, <1>3, <1>4

(* A write that has gone down a path has reached the hive the last name is in. *)
LEMMA AddHivesSound ==
  ASSUME NEW base, Sizes(base), NEW d, HiveAt(base.m, d, 1), NEW path \in Seq(PlainName), path # <<>>
  PROVE  WriteState(AddHives(base, path), Len(path) - 1)
<1>1. Len(path) \in Nat /\ Len(path) > 0 /\ \A i \in 1 .. Len(path) : path[i] \in PlainName
  OBVIOUS
<1>2. PICK f : Way(base, path, f) /\ AddHives(base, path) = f[Len(path) - 1]
  BY <1>1, AddHivesIs
<1> DEFINE S == {k \in Nat : k < Len(path) => WriteState(f[k], k)}
<1>3. 0 \in S
  <2>1. f[0] = [base |-> base, pos |-> 1, aborted |-> FALSE]
    BY <1>2 DEF Way
  <2>2. d[1] = 0
    BY DEF HiveAt, Nested
  <2>3. WriteState(f[0], 0)
    BY <2>1, <2>2, WriteStateIs
  <2> QED
    BY <2>3
<1>4. ASSUME NEW k \in Nat, k \in S PROVE k + 1 \in S
  <2> SUFFICES ASSUME k + 1 < Len(path) PROVE WriteState(f[k + 1], k + 1)
    OBVIOUS
  <2>1. k + 1 \in 1 .. Len(path) - 1 /\ k + 1 \in 1 .. Len(path) /\ k + 1 - 1 = k /\ k < Len(path)
    BY <1>1
  <2>2. WriteState(f[k], k)
    BY <1>4, <2>1
  <2>3. f[k + 1] = IntoHive(f[k], path[k + 1], k + 1)
    BY <1>2, <2>1 DEF Way
  <2>4. PICK name \in PlainName : name = path[k + 1]
    BY <1>1, <2>1
  <2>5. WriteState(IntoHive(f[k], name, k + 1), k + 1)
    BY <2>2, IntoHiveSound
  <2> QED
    BY <2>3, <2>4, <2>5
<1>5. Len(path) - 1 \in S
  <2>1. Len(path) - 1 \in Nat
    BY <1>1
  <2> HIDE DEF S
  <2> QED
    BY <1>3, <1>4, <2>1, SetInduction
<1> QED
  BY <1>1, <1>2, <1>5

(* The hives a path of names leads to, one after the other. *)
Trail(m, names, f) ==
  /\ f[0] = 1
  /\ \A i \in 1 .. Len(names) :
       f[i] = IF f[i - 1] = NULL THEN NULL ELSE FindItem(m, f[i - 1], names[i], "HIVE")

(* FindHive is the end of the trail, and every path has one. *)
LEMMA FindHiveIs ==
  ASSUME NEW m, NEW names, Len(names) \in Nat
  PROVE  \E f : Trail(m, names, f) /\ FindHive(m, names) = f[Len(names)]
<1> DEFINE Next1(x, i) == IF x = NULL THEN NULL ELSE FindItem(m, x, names[i], "HIVE")
           Upto(k, f) == /\ DOMAIN f = 0 .. k /\ f[0] = 1
                         /\ \A i \in 1 .. k : f[i] = Next1(f[i - 1], i)
           S == {k \in Nat : \E f : Upto(k, f)}
           Fix(g) == g = [i \in 0 .. Len(names) |-> IF i = 0 THEN 1 ELSE Next1(g[i - 1], i)]
<1>0. FindHive(m, names) = (CHOOSE g : Fix(g))[Len(names)]
  BY DEF FindHive
<1>a. ASSUME NEW f, Upto(Len(names), f) PROVE Trail(m, names, f)
  BY <1>a DEF Trail
<1> HIDE DEF Next1
<1>1. 0 \in S
  <2>1. Upto(0, [i \in 0 .. 0 |-> 1])
    OBVIOUS
  <2> QED
    BY <2>1
<1>2. ASSUME NEW k \in Nat, k \in S PROVE k + 1 \in S
  <2>1. PICK f : Upto(k, f)
    <3> HIDE DEF Upto
    <3> QED
      BY <1>2
  <2> DEFINE g == [i \in 0 .. k + 1 |-> IF i = k + 1 THEN Next1(f[k], k + 1) ELSE f[i]]
  <2>2. DOMAIN g = 0 .. k + 1 /\ g[0] = 1
    BY <2>1
  <2>3. ASSUME NEW i \in 1 .. k + 1 PROVE g[i] = Next1(g[i - 1], i)
    <3>1. CASE i = k + 1
      <4>1. g[i] = Next1(f[k], i) /\ i - 1 = k
        BY <3>1
      <4>2. g[k] = f[k]
        OBVIOUS
      <4> HIDE DEF g
      <4> QED
        BY <4>1, <4>2
    <3>2. CASE i # k + 1
      <4>1. i \in 1 .. k /\ i - 1 \in 0 .. k /\ i \in 0 .. k + 1 /\ i - 1 \in 0 .. k + 1 /\ i - 1 # k + 1
        BY <3>2
      <4>2. g[i] = f[i] /\ g[i - 1] = f[i - 1]
        BY <3>2, <4>1
      <4> HIDE DEF g
      <4> QED
        BY <2>1, <4>1, <4>2
    <3> QED
      BY <3>1, <3>2
  <2>4. Upto(k + 1, g)
    <3> HIDE DEF g
    <3> QED
      BY <2>2, <2>3
  <2> QED
    <3> HIDE DEF Upto, g
    <3> QED
      BY <2>4
<1>3. Len(names) \in S
  <2> HIDE DEF S
  <2> QED
    BY <1>1, <1>2, SetInduction
<1>4. \E g : Fix(g)
  <2>1. PICK f : Upto(Len(names), f)
    BY <1>3
  <2> DEFINE g == [i \in 0 .. Len(names) |-> f[i]]
  <2>2. ASSUME NEW i \in 0 .. Len(names) PROVE g[i] = IF i = 0 THEN 1 ELSE Next1(g[i - 1], i)
    <3>1. CASE i = 0
      BY <2>1, <3>1
    <3>2. CASE i # 0
      <4>1. i \in 1 .. Len(names) /\ i - 1 \in 0 .. Len(names)
        BY <3>2
      <4>2. g[i] = f[i] /\ g[i - 1] = f[i - 1]
        BY <4>1
      <4>3. f[i] = Next1(f[i - 1], i)
        BY <2>1, <4>1
      <4> HIDE DEF g
      <4> QED
        BY <3>2, <4>2, <4>3
    <3> QED
      BY <3>1, <3>2
  <2>3. Fix(g)
    <3>1. g = [i \in 0 .. Len(names) |-> g[i]]
      OBVIOUS
    <3> HIDE DEF g
    <3> QED
      BY <2>2, <3>1
  <2> QED
    <3> HIDE DEF Fix
    <3> QED
      BY <2>3
<1>5. Fix(CHOOSE g : Fix(g))
  <2> HIDE DEF Fix
  <2> QED
    BY <1>4
<1>6. ASSUME NEW g, Fix(g) PROVE Upto(Len(names), g)
  <2>1. DOMAIN g = 0 .. Len(names)
    BY <1>6
  <2>2. 0 \in 0 .. Len(names) /\ g[0] = 1
    BY <1>6
  <2>3. ASSUME NEW i \in 1 .. Len(names) PROVE g[i] = Next1(g[i - 1], i)
    <3>1. i \in 0 .. Len(names) /\ i # 0
      OBVIOUS
    <3> QED
      BY <1>6, <3>1
  <2> HIDE DEF Fix
  <2> QED
    BY <2>1, <2>2, <2>3
<1> HIDE DEF Fix, Upto
<1> QED
  BY <1>0, <1>a, <1>5, <1>6

(* A path leads to a hive, or to none. *)
LEMMA FindHiveSound ==
  ASSUME NEW m, NEW d, HiveAt(m, d, 1), NEW names, Len(names) \in Nat
  PROVE  FindHive(m, names) = NULL \/ HiveAt(m, d, FindHive(m, names))
<1>1. PICK f : Trail(m, names, f) /\ FindHive(m, names) = f[Len(names)]
  BY FindHiveIs
<1> DEFINE S == {k \in Nat : k <= Len(names) => f[k] = NULL \/ HiveAt(m, d, f[k])}
<1>2. 0 \in S
  <2>1. f[0] = 1
    BY <1>1 DEF Trail
  <2> QED
    BY <2>1
<1>3. ASSUME NEW k \in Nat, k \in S PROVE k + 1 \in S
  <2> SUFFICES ASSUME k + 1 <= Len(names) PROVE f[k + 1] = NULL \/ HiveAt(m, d, f[k + 1])
    OBVIOUS
  <2>1. k + 1 \in 1 .. Len(names) /\ k + 1 - 1 = k /\ k <= Len(names)
    OBVIOUS
  <2>2. PICK x, y, name : x = f[k] /\ y = f[k + 1] /\ name = names[k + 1]
    OBVIOUS
  <2>3. x = NULL \/ HiveAt(m, d, x)
    BY <1>3, <2>1, <2>2
  <2>4. y = IF x = NULL THEN NULL ELSE FindItem(m, x, name, "HIVE")
    BY <1>1, <2>1, <2>2 DEF Trail
  <2>5. CASE y = NULL
    BY <2>2, <2>5
  <2>6. CASE y # NULL
    <3>1. HiveAt(m, d, x) /\ y = FindItem(m, x, name, "HIVE")
      BY <2>3, <2>4, <2>6
    <3>2. y \in 1 .. Len(m) /\ m[y].w = "HIVE"
      BY <2>6, <3>1, ItemPlace
    <3>3. HiveAt(m, d, y)
      BY <3>1, <3>2 DEF HiveAt
    <3> QED
      BY <2>2, <3>3
  <2> QED
    BY <2>5, <2>6
<1>4. Len(names) \in S
  <2> HIDE DEF S
  <2> QED
    BY <1>2, <1>3, SetInduction
<1> QED
  BY <1>1, <1>4

(* What is found of a path is an item of its kind, in a hive of the stream. *)
LEMMA FindInSound ==
  ASSUME NEW m, NEW d, HiveAt(m, d, 1), NEW path \in Seq(PlainName), path # <<>>,
         NEW sig \in {"HIVE", "CELL"}, NEW at, at = FindIn(m, path, sig), at # NULL
  PROVE  at \in 2 .. Len(m) - 1 /\ m[at].w = sig
<1>1. Len(Front(path)) \in Nat
  <2>1. Len(path) \in Nat /\ Len(path) > 0 /\ \A i \in 1 .. Len(path) - 1 : i \in 1 .. Len(path)
    OBVIOUS
  <2>2. Len(path) - 1 \in Nat
    BY <2>1
  <2>3. SubSeq(path, 1, Len(path) - 1) \in Seq(PlainName)
    BY <2>1, <2>2, SubSeqProperties
  <2> QED
    BY <2>3 DEF Front
<1>2. PICK p, name : p = FindHive(m, Front(path)) /\ name = Last(path)
  OBVIOUS
<1>3. p = NULL \/ HiveAt(m, d, p)
  BY <1>1, <1>2, FindHiveSound
<1>4. at = IF p = NULL THEN NULL ELSE FindItem(m, p, name, sig)
  BY <1>2 DEF FindIn
<1>5. HiveAt(m, d, p) /\ at = FindItem(m, p, name, sig)
  BY <1>3, <1>4
<1> QED
  BY <1>5, ItemPlace

(* The names of a valid path are not signatures when those of the path are not. *)
LEMMA ParsePathPlain ==
  ASSUME NEW path \in Seq(PlainName), ValidPath(path)
  PROVE  ParsePath(path) \in Seq(PlainName) /\ ParsePath(path) # <<>>
<1> DEFINE q == Stripped(path)
           n == IF Len(q) < REG_NAME_DEPTH_MAX THEN Len(q) ELSE REG_NAME_DEPTH_MAX
<1>1. q \in Seq(PlainName)
  <2>1. CASE path # <<>> /\ Head(path) = "System"
    <3>1. q = Tail(path)
      BY <2>1 DEF Stripped
    <3> QED
      BY <2>1, <3>1
  <2>2. CASE ~ (path # <<>> /\ Head(path) = "System")
    BY <2>2 DEF Stripped
  <2> QED
    BY <2>1, <2>2
<1>2. ParsePath(path) = SubSeq(q, 1, n)
  BY DEF ParsePath
<1> HIDE DEF q
<1>3. n \in Nat /\ \A i \in 1 .. n : i \in 1 .. Len(q)
  BY <1>1, SizeAssumption
<1> HIDE DEF n
<1>4. SubSeq(q, 1, n) \in Seq(PlainName)
  BY <1>1, <1>3, SubSeqProperties
<1> QED
  BY <1>2, <1>4 DEF ValidPath

(* The call of a thread that waits for the lock. *)
CallSound(c) == c.path \in Paths /\ (c.op = "write" => c.v \in Values)

RoomLeft(base) == base.size - base.length >= Reserve

CrcSound(base) ==
  \/ base.crc = crc32(base)
  \/ base.crc = [crc32(base) EXCEPT !.size = @ - REG_GROW]

BaseSound(base) == SoundBase(base) /\ RoomLeft(base) /\ CrcSound(base)

RegistryInv ==
  /\ TypeOK
  /\ BaseSound(reg)
  /\ freed \in Seq(Seq(Tokens))
  /\ DOMAIN call = Threads
  /\ \A t \in Threads : pc[t] = "lock" => CallSound(call[t])

-----------------------------------------------------------------------------
(* The parts of a base with a checksum. *)
LEMMA CheckedIs ==
  ASSUME NEW base, Sizes(base)
  PROVE  Checked(base) = [m |-> base.m, size |-> base.size, length |-> base.length, crc |-> crc32(base)]
<1>1. PICK bm, bs, bl, bc : base = [m |-> bm, size |-> bs, length |-> bl, crc |-> bc]
  BY DEF Sizes
<1>2. PICK c : c = crc32(base)
  OBVIOUS
<1>3. [base EXCEPT !.crc = c] = [m |-> bm, size |-> bs, length |-> bl, crc |-> c]
  BY <1>1
<1>4. base.m = bm /\ base.size = bs /\ base.length = bl
  BY <1>1
<1> QED
  BY <1>2, <1>3, <1>4 DEF Checked

(* A nested base with a checksum is sound. *)
LEMMA CheckedSound ==
  ASSUME NEW base, Sizes(base), NEW d, Nested(base.m, d), NEW r, r = Checked(base)
  PROVE  /\ SoundBase(r) /\ r.crc = crc32(r) /\ r.size = base.size /\ r.length = base.length
<1>1. r = [m |-> base.m, size |-> base.size, length |-> base.length, crc |-> crc32(base)]
  BY CheckedIs
<1>2. PICK c : c = crc32(base)
  OBVIOUS
<1>3. /\ r.m = base.m /\ r.size = base.size /\ r.length = base.length /\ r.crc = c
      /\ r = [m |-> r.m, size |-> r.size, length |-> r.length, crc |-> r.crc]
  BY <1>1, <1>2
<1>4. Sizes(r)
  BY <1>3 DEF Sizes
<1>5. crc32(r) = c
  BY <1>2, <1>3 DEF crc32
<1> QED
  BY <1>3, <1>4, <1>5 DEF SoundBase

(* A base that is enlarged is sound but for the size in its checksum, and has
   room again. *)
LEMMA EnlargedSound ==
  ASSUME NEW base, SoundBase(base), base.crc = crc32(base), NEW r, r = Enlarged(base)
  PROVE  BaseSound(r)
<1>1. PICK bm, bs, bl, bc : base = [m |-> bm, size |-> bs, length |-> bl, crc |-> bc]
  BY DEF SoundBase, Sizes
<1>2. base.m = bm /\ base.size = bs /\ base.length = bl /\ base.crc = bc
  BY <1>1
<1>3. bs \in Nat /\ bl \in Nat /\ bl <= bs /\ bl = SIZEOF_BASE + Words(bm)
  BY <1>2 DEF SoundBase, Sizes
<1>4. PICK x : x = bs + REG_GROW
  OBVIOUS
<1>5. x \in Nat /\ bl <= x /\ x - bl >= REG_GROW /\ x - REG_GROW = bs
  BY <1>3, <1>4, SizeAssumption
<1>6. r = [m |-> bm, size |-> x, length |-> bl, crc |-> bc]
  <2>1. [base EXCEPT !.size = x] = [m |-> bm, size |-> x, length |-> bl, crc |-> bc]
    BY <1>1
  <2>2. r = [base EXCEPT !.size = base.size + REG_GROW]
    BY DEF Enlarged
  <2> QED
    BY <1>2, <1>4, <2>1, <2>2
<1>7. /\ r.m = bm /\ r.size = x /\ r.length = bl /\ r.crc = bc
      /\ r = [m |-> r.m, size |-> r.size, length |-> r.length, crc |-> r.crc]
  BY <1>6
<1>8. Sizes(r)
  BY <1>3, <1>5, <1>7 DEF Sizes
<1>9. SoundBase(r)
  BY <1>2, <1>7, <1>8 DEF SoundBase
<1>10. RoomLeft(r)
  <2>1. REG_GROW >= Reserve
    BY RegistryAssumption
  <2>2. x - bl >= Reserve
    BY <1>3, <1>5, <2>1, SizeAssumption DEF Reserve
  <2> QED
    BY <1>7, <2>2 DEF RoomLeft
<1>11. CrcSound(r)
  <2>1. bc = [m |-> bm, size |-> bs, length |-> bl]
    BY <1>2 DEF crc32
  <2>2. crc32(r) = [m |-> bm, size |-> x, length |-> bl]
    BY <1>7 DEF crc32
  <2>3. ASSUME NEW f, f = [m |-> bm, size |-> x, length |-> bl]
        PROVE  [f EXCEPT !.size = bs] = [m |-> bm, size |-> bs, length |-> bl] /\ f.size = x
    BY <2>3
  <2>4. PICK f : f = crc32(r)
    OBVIOUS
  <2>5. r.crc = [f EXCEPT !.size = f.size - REG_GROW]
    BY <1>5, <1>7, <2>1, <2>2, <2>3, <2>4
  <2> QED
    BY <2>4, <2>5 DEF CrcSound
<1> QED
  BY <1>9, <1>10, <1>11 DEF BaseSound

(* A write leaves a sound registry with room, wherever it is then. *)
LEMMA GrowSound ==
  ASSUME RegistryInv, NEW base, Sizes(base), NEW d, Nested(base.m, d), Grow(Checked(base))
  PROVE  BaseSound(reg') /\ block' \in Nat \ {0} /\ freed' \in Seq(Seq(Tokens)) /\ Len(freed') = block' - 1
<1>1. PICK r : r = Checked(base)
  OBVIOUS
<1>2. SoundBase(r) /\ r.crc = crc32(r)
  BY <1>1, CheckedSound
<1>3. r.m \in Seq(Tokens) /\ r.size \in Nat /\ r.length \in Nat
  BY <1>2 DEF SoundBase, Sizes, Nested
<1>4. block \in Nat \ {0} /\ freed \in Seq(Seq(Tokens)) /\ Len(freed) = block - 1
  BY DEF RegistryInv, TypeOK
<1>5. CASE LowOnRoom(r)
  <2>1. /\ reg' = Enlarged(r)
        /\ UNCHANGED <<block, freed>> \/ (block' = block + 1 /\ freed' = Append(freed, r.m))
    BY <1>1, <1>5 DEF Grow
  <2>2. BaseSound(reg')
    BY <1>2, <2>1, EnlargedSound
  <2>3. Append(freed, r.m) \in Seq(Seq(Tokens)) /\ Len(Append(freed, r.m)) = Len(freed) + 1
    BY <1>3, <1>4, AppendProperties
  <2>4. CASE UNCHANGED <<block, freed>>
    BY <1>4, <2>2, <2>4
  <2>5. CASE block' = block + 1 /\ freed' = Append(freed, r.m)
    <3>1. Len(freed') = block + 1 - 1 /\ freed' \in Seq(Seq(Tokens)) /\ block' \in Nat \ {0}
      BY <1>4, <2>3, <2>5
    <3> QED
      BY <1>4, <2>2, <2>5, <3>1
  <2> QED
    BY <2>1, <2>4, <2>5
<1>6. CASE ~ LowOnRoom(r)
  <2>1. reg' = r /\ UNCHANGED <<block, freed>>
    BY <1>1, <1>6 DEF Grow
  <2>2. RoomLeft(r)
    BY <1>3, <1>6, SizeAssumption DEF LowOnRoom, RoomLeft, Reserve
  <2>3. BaseSound(r)
    BY <1>2, <2>2 DEF BaseSound, CrcSound
  <2> QED
    BY <1>4, <2>1, <2>3
<1> QED
  BY <1>5, <1>6

(* An item that is removed leaves a sound registry with room. *)
LEMMA RemovedSound ==
  ASSUME NEW base, BaseSound(base), NEW at \in 2 .. Len(base.m) - 1, base.m[at].w \in {"HIVE", "CELL"},
         NEW r, r = Checked(registry_remove_item(base, at))
  PROVE  BaseSound(r)
<1>1. PICK d : Sizes(base) /\ Nested(base.m, d)
  BY DEF BaseSound, SoundBase
<1>2. PICK b : b = registry_remove_item(base, at)
  OBVIOUS
<1>3. Sizes(b) /\ b.size = base.size /\ b.length <= base.length /\ \E e : HiveAt(b.m, e, 1)
  BY <1>1, <1>2, RemoveSound
<1>4. PICK e : Nested(b.m, e)
  BY <1>3 DEF HiveAt
<1>5. SoundBase(r) /\ r.crc = crc32(r) /\ r.size = b.size /\ r.length = b.length
  BY <1>2, <1>3, <1>4, CheckedSound
<1>6. RoomLeft(r)
  <2>1. base.size \in Nat /\ base.length \in Nat /\ b.length \in Nat
    BY <1>1, <1>3 DEF Sizes
  <2>2. base.size - base.length >= Reserve
    BY DEF BaseSound, RoomLeft
  <2>3. b.size - b.length >= Reserve
    BY <1>3, <2>1, <2>2, SizeAssumption DEF Reserve
  <2> QED
    BY <1>5, <2>3 DEF RoomLeft
<1> QED
  BY <1>5, <1>6 DEF BaseSound, CrcSound

(* A remove that finds nothing leaves the registry with its checksum. *)
LEMMA KeptSound ==
  ASSUME NEW base, BaseSound(base), NEW r, r = Checked(base)
  PROVE  BaseSound(r)
<1>1. PICK d : Sizes(base) /\ Nested(base.m, d)
  BY DEF BaseSound, SoundBase
<1>2. SoundBase(r) /\ r.crc = crc32(r) /\ r.size = base.size /\ r.length = base.length
  BY <1>1, CheckedSound
<1> QED
  BY <1>2 DEF BaseSound, CrcSound, RoomLeft

-----------------------------------------------------------------------------
(* The steps. *)

(* A call that begins is one a caller may make. *)
LEMMA BeginSound ==
  ASSUME RegistryInv, NEW t \in Threads,
         CallWrite(t) \/ CallRead(t) \/ CallExist(t) \/ CallRemove(t)
  PROVE  RegistryInv'
<1>1. PICK c : Begin(t, c) /\ CallSound(c) /\ c # NoCall
  <2>1. CASE CallWrite(t)
    <3>1. PICK path \in Paths, v \in Values : Begin(t, [op |-> "write", path |-> path, v |-> v])
      BY <2>1 DEF CallWrite
    <3>2. PICK c : c = [op |-> "write", path |-> path, v |-> v]
      OBVIOUS
    <3>3. c.op = "write" /\ c.path = path /\ c.v = v /\ c # NoCall
      BY <3>2 DEF NoCall
    <3> QED
      BY <3>1, <3>2, <3>3 DEF CallSound
  <2>2. CASE CallRead(t)
    <3>1. PICK path \in Paths, v \in Values, max \in ReadSizes :
            Begin(t, [op |-> "read", path |-> path, type |-> v.type, max |-> max])
      BY <2>2 DEF CallRead
    <3>2. PICK c : c = [op |-> "read", path |-> path, type |-> v.type, max |-> max]
      OBVIOUS
    <3>3. c.op = "read" /\ c.path = path /\ c # NoCall
      BY <3>2 DEF NoCall
    <3> QED
      BY <3>1, <3>2, <3>3 DEF CallSound
  <2>3. CASE CallExist(t)
    <3>1. PICK path \in Paths : Begin(t, [op |-> "exist", path |-> path])
      BY <2>3 DEF CallExist
    <3>2. PICK c : c = [op |-> "exist", path |-> path]
      OBVIOUS
    <3>3. c.op = "exist" /\ c.path = path /\ c # NoCall
      BY <3>2 DEF NoCall
    <3> QED
      BY <3>1, <3>2, <3>3 DEF CallSound
  <2>4. CASE CallRemove(t)
    <3>1. PICK path \in Paths : Begin(t, [op |-> "remove", path |-> path, base |-> block])
      BY <2>4 DEF CallRemove
    <3>2. PICK c : c = [op |-> "remove", path |-> path, base |-> block]
      OBVIOUS
    <3>3. c.op = "remove" /\ c.path = path /\ c # NoCall
      BY <3>2 DEF NoCall
    <3> QED
      BY <3>1, <3>2, <3>3 DEF CallSound
  <2> QED
    BY <2>1, <2>2, <2>3, <2>4
<1>2. /\ Running /\ pc[t] = "idle" /\ pc' = [pc EXCEPT ![t] = "lock"] /\ call' = [call EXCEPT ![t] = c]
      /\ UNCHANGED <<reg, block, freed, reg_spinlock, answer>>
  BY <1>1 DEF Begin
<1>3. /\ pc \in [Threads -> {"idle", "lock", "unlock", "halt"}] /\ DOMAIN call = Threads
      /\ \A u \in Threads : pc[u] = "idle" <=> call[u] = NoCall
      /\ \A u \in Threads : pc[u] = "lock" => CallSound(call[u])
  BY DEF RegistryInv, TypeOK
<1>4. /\ pc' \in [Threads -> {"idle", "lock", "unlock", "halt"}] /\ DOMAIN call' = Threads
      /\ \A u \in Threads : pc'[u] = "idle" <=> call'[u] = NoCall
  BY <1>1, <1>2, <1>3
<1>5. \A u \in Threads : pc'[u] = "lock" => CallSound(call'[u])
  <2> TAKE u \in Threads
  <2>1. CASE u = t
    BY <1>1, <1>2, <1>3, <2>1
  <2>2. CASE u # t
    <3>1. pc'[u] = pc[u] /\ call'[u] = call[u]
      BY <1>2, <1>3, <2>2
    <3> QED
      BY <1>3, <3>1
  <2> QED
    BY <2>1, <2>2
<1>6. TypeOK'
  BY <1>2, <1>4 DEF RegistryInv, TypeOK
<1> QED
  BY <1>2, <1>4, <1>5, <1>6 DEF RegistryInv

(* A call that has worked leaves the threads as they must be when the registry
   is sound. *)
LEMMA WorkSound ==
  ASSUME RegistryInv, NEW t \in Threads, pc[t] = "lock", reg_spinlock' = TRUE,
         Halt(t) \/ \E r : Return(t, r),
         BaseSound(reg'), block' \in Nat \ {0}, freed' \in Seq(Seq(Tokens)), Len(freed') = block' - 1
  PROVE  RegistryInv'
<1>1. /\ call' = call
      /\ pc' = [pc EXCEPT ![t] = "unlock"] \/ pc' = [pc EXCEPT ![t] = "halt"]
  BY DEF Halt, Return
<1>2. /\ pc \in [Threads -> {"idle", "lock", "unlock", "halt"}] /\ DOMAIN call = Threads
      /\ \A u \in Threads : pc[u] = "idle" <=> call[u] = NoCall
      /\ \A u \in Threads : pc[u] = "lock" => CallSound(call[u])
  BY DEF RegistryInv, TypeOK
<1>3. /\ pc' \in [Threads -> {"idle", "lock", "unlock", "halt"}]
      /\ \A u \in Threads : pc'[u] = "idle" <=> pc[u] = "idle"
      /\ \A u \in Threads : pc'[u] = "lock" => pc[u] = "lock"
  BY <1>1, <1>2
<1>4. reg'.size \in Nat /\ reg'.length \in SIZEOF_BASE .. reg'.size
  <2>1. PICK x, y : x = reg'.length /\ y = Words(reg'.m)
    OBVIOUS
  <2>2. reg'.size \in Nat /\ x \in Nat /\ x <= reg'.size /\ x = SIZEOF_BASE + y
    BY <2>1 DEF BaseSound, SoundBase, Sizes
  <2>3. y \in Nat
    <3>1. PICK m : m = reg'.m /\ m \in Seq(Tokens)
      BY DEF BaseSound, SoundBase, Nested
    <3>2. \A tok \in Tokens : tok.n \in Nat
      BY TokenKinds
    <3> QED
      BY <2>1, <3>1, <3>2, WordsConcat
  <2> QED
    BY <2>1, <2>2, <2>3 DEF SIZEOF_BASE
<1>5. TypeOK'
  BY <1>1, <1>2, <1>3, <1>4 DEF TypeOK
<1> QED
  BY <1>1, <1>2, <1>3, <1>5 DEF RegistryInv

(* The last of a sequence is one of its elements. *)
LEMMA LastIn ==
  ASSUME NEW S, NEW p \in Seq(S), p # <<>>
  PROVE  Last(p) \in S
<1>1. Len(p) \in 1 .. Len(p)
  OBVIOUS
<1> QED
  BY <1>1 DEF Last

(* What a caller writes, as it is stored, and where: at a path of plain names. *)
LEMMA WriteRequest ==
  ASSUME PlainPaths, RegistryInv, NEW t \in Threads, pc[t] = "lock", call[t].op = "write", Valid(t)
  PROVE  /\ Path(t) \in Seq(PlainName) /\ Path(t) # <<>> /\ Last(Path(t)) \in PlainName
         /\ Stored(call[t].v) \in {Stored(v) : v \in Values}
<1>1. call[t].path \in Paths /\ call[t].v \in Values
  BY DEF RegistryInv, CallSound
<1>2. call[t].path \in Seq(PlainName)
  BY <1>1 DEF PlainPaths
<1>3. Path(t) \in Seq(PlainName) /\ Path(t) # <<>>
  BY <1>2, ParsePathPlain DEF Valid, Path
<1> QED
  BY <1>1, <1>3, LastIn

(* A write leaves a sound registry. *)
LEMMA WriteSound ==
  ASSUME PlainPaths, RegistryInv, NEW t \in Threads, registry_write(t)
  PROVE  RegistryInv'
<1>1. PICK path, v, s, clash, s2 :
        /\ path = Path(t) /\ v = Stored(call[t].v) /\ s = AddHives(reg, path)
        /\ clash = (FindItem(s.base.m, s.pos, Last(path), "HIVE") # NULL)
        /\ s2 = IF s.aborted \/ clash THEN s ELSE ReplaceCell(s, Last(path), v)
        /\ Enter(t, "write")
        /\ IF ~Valid(t) THEN Return(t, Answer(t, v.len)) /\ UNCHANGED <<reg, block, freed>>
           ELSE IF s2.aborted
                THEN Halt(t) /\ UNCHANGED <<reg, block, freed>>
                ELSE Return(t, Answer(t, IF clash THEN 0 ELSE v.len)) /\ Grow(Checked(s2.base))
  BY DEF registry_write
<1>2. pc[t] = "lock" /\ call[t].op = "write" /\ reg_spinlock' = TRUE
  BY <1>1 DEF Enter, SpinLock
<1>3. BaseSound(reg) /\ block \in Nat \ {0} /\ freed \in Seq(Seq(Tokens)) /\ Len(freed) = block - 1
  BY DEF RegistryInv, TypeOK
<1>4. CASE ~ Valid(t) \/ s2.aborted
  <2>1. Halt(t) \/ \E r : Return(t, r)
    BY <1>1, <1>4
  <2>2. UNCHANGED <<reg, block, freed>>
    BY <1>1, <1>4
  <2> QED
    BY <1>2, <1>3, <2>1, <2>2, WorkSound
<1>5. CASE Valid(t) /\ ~ s2.aborted
  <2>1. Grow(Checked(s2.base)) /\ \E r : Return(t, r)
    BY <1>1, <1>5
  <2>2. path \in Seq(PlainName) /\ path # <<>> /\ Last(path) \in PlainName /\ v \in {Stored(x) : x \in Values}
    BY <1>1, <1>2, <1>5, WriteRequest
  <2>3. PICK d : Sizes(reg) /\ HiveAt(reg.m, d, 1)
    <3>1. PICK e : Sizes(reg) /\ Nested(reg.m, e)
      BY <1>3 DEF BaseSound, SoundBase
    <3>2. HiveAt(reg.m, e, 1)
      BY <3>1, FirstIsHive
    <3> QED
      BY <3>1, <3>2
  <2>4. PICK k \in Nat : k = Len(path) - 1
    BY <2>2
  <2>5. WriteState(s, k)
    BY <1>1, <2>2, <2>3, <2>4, AddHivesSound
  <2>6. WriteState(s2, k)
    <3>1. CASE s.aborted \/ clash
      BY <1>1, <2>5, <3>1
    <3>2. CASE ~ (s.aborted \/ clash)
      <4>1. s2 = ReplaceCell(s, Last(path), v) /\ ~ s.aborted
        BY <1>1, <3>2
      <4> QED
        BY <2>2, <2>5, <4>1, ReplaceCellSound
    <3> QED
      BY <3>1, <3>2
  <2>7. PICK e : Sizes(s2.base) /\ Nested(s2.base.m, e)
    BY <2>6 DEF WriteState, HiveAt
  <2>8. /\ BaseSound(reg') /\ block' \in Nat \ {0} /\ freed' \in Seq(Seq(Tokens))
        /\ Len(freed') = block' - 1
    BY <2>1, <2>7, GrowSound
  <2> QED
    BY <1>2, <2>1, <2>8, WorkSound
<1> QED
  BY <1>4, <1>5

(* A remove leaves a sound registry. *)
LEMMA RemoveKeepsSound ==
  ASSUME PlainPaths, RegistryInv, NEW t \in Threads, registry_remove(t)
  PROVE  RegistryInv'
<1>1. PICK at :
        /\ at = IF Valid(t) THEN Found(reg.m, Path(t)) ELSE NULL
        /\ Enter(t, "remove")
        /\ Return(t, Answer(t, IF at = NULL THEN 0 ELSE 1))
        /\ reg' = IF ~Valid(t) THEN reg
                  ELSE Checked(IF at = NULL THEN reg ELSE registry_remove_item(reg, at))
        /\ UNCHANGED <<block, freed>>
  BY DEF registry_remove
<1>2. pc[t] = "lock" /\ reg_spinlock' = TRUE /\ \E r : Return(t, r)
  BY <1>1 DEF Enter, SpinLock
<1>3. BaseSound(reg) /\ block \in Nat \ {0} /\ freed \in Seq(Seq(Tokens)) /\ Len(freed) = block - 1
  BY DEF RegistryInv, TypeOK
<1>5. BaseSound(reg')
  <2>1. CASE ~ Valid(t)
    BY <1>1, <1>3, <2>1
  <2>2. CASE Valid(t) /\ at = NULL
    <3>1. reg' = Checked(reg)
      BY <1>1, <2>2
    <3> QED
      BY <1>3, <3>1, KeptSound
  <2>3. CASE Valid(t) /\ at # NULL
    <3>1. reg' = Checked(registry_remove_item(reg, at)) /\ at = Found(reg.m, Path(t))
      BY <1>1, <2>3
    <3>2. call[t].path \in Seq(PlainName)
      BY <1>2 DEF RegistryInv, CallSound, PlainPaths
    <3>3. PICK path : path = Path(t) /\ path \in Seq(PlainName) /\ path # <<>>
      BY <2>3, <3>2, ParsePathPlain DEF Valid, Path
    <3>4. PICK d : HiveAt(reg.m, d, 1)
      <4>1. PICK e : Nested(reg.m, e)
        BY <1>3 DEF BaseSound, SoundBase
      <4> QED
        BY <4>1, FirstIsHive
    <3>5. \E sig \in {"HIVE", "CELL"} : at = FindIn(reg.m, path, sig)
      BY <2>3, <3>1, <3>3 DEF Found
    <3>6. PICK sig \in {"HIVE", "CELL"} : at = FindIn(reg.m, path, sig)
      BY <3>5
    <3>7. at \in 2 .. Len(reg.m) - 1 /\ reg.m[at].w = sig
      BY <2>3, <3>3, <3>4, <3>6, FindInSound
    <3>8. reg.m[at].w \in {"HIVE", "CELL"}
      BY <3>7
    <3> QED
      BY <1>3, <3>1, <3>7, <3>8, RemovedSound
  <2> QED
    BY <2>1, <2>2, <2>3
<1> QED
  BY <1>1, <1>2, <1>3, <1>5, WorkSound

(* The other calls leave the registry alone. *)
LEMMA OthersSound ==
  ASSUME RegistryInv, NEW t \in Threads, registry_read(t) \/ registry_exist(t) \/ RemoveStale(t)
  PROVE  RegistryInv'
<1>1. BaseSound(reg) /\ block \in Nat \ {0} /\ freed \in Seq(Seq(Tokens)) /\ Len(freed) = block - 1
  BY DEF RegistryInv, TypeOK
<1>2. /\ pc[t] = "lock" /\ reg_spinlock' = TRUE /\ UNCHANGED <<reg, block, freed>>
      /\ Halt(t) \/ \E r : Return(t, r)
  <2>1. CASE registry_read(t)
    BY <2>1 DEF registry_read, Enter, SpinLock
  <2>2. CASE registry_exist(t)
    BY <2>2 DEF registry_exist, Enter, SpinLock
  <2>3. CASE RemoveStale(t)
    BY <2>3 DEF RemoveStale, Enter, SpinLock
  <2> QED
    BY <2>1, <2>2, <2>3
<1> QED
  BY <1>1, <1>2, WorkSound

(* Unlocking keeps the invariant. *)
LEMMA UnlockSound ==
  ASSUME RegistryInv, NEW t \in Threads, Unlock(t)
  PROVE  RegistryInv'
<1>1. /\ pc[t] = "unlock" /\ reg_spinlock' = FALSE /\ pc' = [pc EXCEPT ![t] = "idle"]
      /\ call' = [call EXCEPT ![t] = NoCall] /\ UNCHANGED <<reg, block, freed>>
  BY DEF Unlock
<1>2. /\ pc \in [Threads -> {"idle", "lock", "unlock", "halt"}] /\ DOMAIN call = Threads
      /\ \A u \in Threads : pc[u] = "idle" <=> call[u] = NoCall
      /\ \A u \in Threads : pc[u] = "lock" => CallSound(call[u])
  BY DEF RegistryInv, TypeOK
<1>3. /\ pc' \in [Threads -> {"idle", "lock", "unlock", "halt"}] /\ DOMAIN call' = Threads
      /\ \A u \in Threads : pc'[u] = "idle" <=> call'[u] = NoCall
      /\ \A u \in Threads : pc'[u] = "lock" => pc[u] = "lock" /\ call'[u] = call[u]
  BY <1>1, <1>2
<1>4. TypeOK'
  BY <1>1, <1>3 DEF RegistryInv, TypeOK
<1> QED
  BY <1>1, <1>2, <1>3, <1>4 DEF RegistryInv

(* The registry that is set up first. *)
LEMMA EmptySound == BaseSound(EmptyRegistry(InitialSize))
<1> DEFINE S == REG_HIVE_SIG_S
           N == HiveName("System", 0)
           E == REG_HIVE_SIG_E
           B == REG_BASE_SIG_E
           m == <<S, N, E, B>>
           d == [i \in 1 .. 4 |-> IF i \in {1, 4} THEN 0 ELSE 1]
           r == EmptyRegistry(InitialSize)
<1>1. "System" \in PlainName
  BY DEF PlainName, SigWords
<1>2. S \in Tokens /\ N \in Tokens /\ E \in Tokens /\ B \in Tokens
  BY <1>1 DEF Tokens
<1>3. /\ S.w = "HIVE" /\ E.w = "EVIH" /\ B.w = "ESAB" /\ N.w = "System" /\ N.depth = 0
      /\ S.n = 1 /\ N.n = 10 /\ E.n = 1 /\ B.n = 1
  BY DEF REG_HIVE_SIG_S, REG_HIVE_SIG_E, REG_BASE_SIG_E, HiveName
<1>4. /\ IsName(N) /\ ~ IsName(S) /\ ~ IsName(E) /\ ~ IsName(B)
  BY <1>3 DEF IsName, SigWords
<1>5. r = Checked([m |-> m, size |-> InitialSize, length |-> SIZEOF_BASE + 13, crc |-> {}])
  BY DEF EmptyRegistry
<1> HIDE DEF S, N, E, B, r
<1>6. m \in Seq(Tokens) /\ Len(m) = 4 /\ m[1] = S /\ m[2] = N /\ m[3] = E /\ m[4] = B
  BY <1>2
<1>7. d \in [1 .. 4 -> Nat] /\ d[1] = 0 /\ d[2] = 1 /\ d[3] = 1 /\ d[4] = 0
  OBVIOUS
<1> HIDE DEF m, d
<1>8. ASSUME NEW i \in 1 .. 3
      PROVE  /\ m[i].w = "HIVE" => d[i + 1] = d[i] + 1
             /\ m[i].w = "EVIH" => d[i] = d[i + 1] + 1
             /\ m[i].w \notin {"HIVE", "EVIH"} => d[i + 1] = d[i]
             /\ m[i].w = "HIVE" => IsName(m[i + 1]) /\ m[i + 1].depth = d[i]
             /\ IsName(m[i + 1]) => m[i].w = "HIVE"
  <2>1. CASE i = 1
    BY <1>3, <1>4, <1>6, <1>7, <2>1
  <2>2. CASE i = 2
    BY <1>3, <1>4, <1>6, <1>7, <2>2
  <2>3. CASE i = 3
    BY <1>3, <1>4, <1>6, <1>7, <2>3
  <2> QED
    BY <2>1, <2>2, <2>3
<1>9. ASSUME NEW i \in 2 .. 3 PROVE d[i] > 0 /\ m[i].w # "ESAB"
  <2>1. i = 2 \/ i = 3
    OBVIOUS
  <2> QED
    BY <1>3, <1>6, <1>7, <2>1
<1>10. Nested(m, d)
  BY <1>3, <1>6, <1>7, <1>8, <1>9 DEF Nested
<1>11. Words(m) = 13
  <2> DEFINE f == [i \in 0 .. 4 |-> IF i = 0 THEN 0 ELSE IF i = 1 THEN 1 ELSE IF i = 2 THEN 11
                                    ELSE IF i = 3 THEN 12 ELSE 13]
  <2>1. /\ f \in [0 .. 4 -> Nat] /\ f[0] = 0 /\ f[1] = 1 /\ f[2] = 11 /\ f[3] = 12 /\ f[4] = 13
    OBVIOUS
  <2> HIDE DEF f
  <2>2. \A i \in 1 .. 4 : f[i] = f[i - 1] + m[i].n
    <3> TAKE i \in 1 .. 4
    <3>1. i = 1 \/ i = 2 \/ i = 3 \/ i = 4
      OBVIOUS
    <3> QED
      BY <1>3, <1>6, <2>1, <3>1
  <2>3. IsSum(m, f)
    BY <1>6, <2>1, <2>2 DEF IsSum
  <2>4. \A t \in Tokens : t.n \in Nat
    BY TokenKinds
  <2>5. Words(m) = f[Len(m)]
    BY <1>6, <2>3, <2>4, WordsIsSum
  <2> QED
    BY <1>6, <2>1, <2>5
<1>12. PICK b : b = [m |-> m, size |-> InitialSize, length |-> 25, crc |-> {}]
  OBVIOUS
<1>13. InitialSize \in Nat /\ InitialSize - 25 >= Reserve /\ 25 <= InitialSize /\ Reserve \in Nat
  BY RegistryAssumption, SizeAssumption DEF Reserve
<1>14. b.m = m /\ b.size = InitialSize /\ b.length = 25
  BY <1>12
<1>15. Sizes(b) /\ Nested(b.m, d)
  BY <1>10, <1>11, <1>12, <1>13, <1>14 DEF Sizes, SIZEOF_BASE
<1>16. r = Checked(b)
  BY <1>5, <1>12 DEF SIZEOF_BASE
<1>17. SoundBase(r) /\ r.crc = crc32(r) /\ r.size = b.size /\ r.length = b.length
  BY <1>15, <1>16, CheckedSound
<1> QED
  BY <1>13, <1>14, <1>17 DEF BaseSound, CrcSound, RoomLeft, r

(* The invariant holds of the registry that is set up first. *)
LEMMA RegistryInit ==
  ASSUME Init PROVE RegistryInv
<1>1. BaseSound(reg)
  BY EmptySound DEF Init
<1>2. /\ block = 1 /\ freed = <<>> /\ reg_spinlock = FALSE /\ pc = [t \in Threads |-> "idle"]
      /\ call = [t \in Threads |-> NoCall]
  BY DEF Init
<1>3. reg.size \in Nat /\ reg.length \in SIZEOF_BASE .. reg.size
  <2>1. PICK b : b = [m |-> <<REG_HIVE_SIG_S, HiveName("System", 0), REG_HIVE_SIG_E, REG_BASE_SIG_E>>,
                      size |-> InitialSize, length |-> 25, crc |-> {}]
    OBVIOUS
  <2>2. reg = [b EXCEPT !.crc = crc32(b)]
    BY <2>1 DEF Init, EmptyRegistry, Checked, SIZEOF_BASE
  <2>3. reg.size = InitialSize /\ reg.length = 25
    <3>1. PICK c : c = crc32(b)
      OBVIOUS
    <3> QED
      BY <2>1, <2>2, <3>1
  <2>4. reg.size \in Nat /\ 25 <= reg.size
    BY <2>3, RegistryAssumption, SizeAssumption DEF Reserve
  <2> QED
    BY <2>3, <2>4 DEF SIZEOF_BASE
<1>4. Len(freed) = 0 /\ freed \in Seq(Seq(Tokens)) /\ block - 1 = 0 /\ block \in Nat \ {0}
  BY <1>2
<1>5. /\ pc \in [Threads -> {"idle", "lock", "unlock", "halt"}] /\ DOMAIN call = Threads
      /\ \A t \in Threads : pc[t] = "idle" /\ call[t] = NoCall
  BY <1>2
<1>6. TypeOK
  BY <1>2, <1>3, <1>4, <1>5 DEF TypeOK
<1> QED
  BY <1>1, <1>4, <1>5, <1>6 DEF RegistryInv

(* Every step keeps it. *)
LEMMA RegistryStep ==
  ASSUME PlainPaths, RegistryInv, [Next]_vars
  PROVE  RegistryInv'
<1>1. CASE UNCHANGED vars
  BY <1>1 DEF vars, RegistryInv, TypeOK
<1>2. CASE Next
  <2>1. PICK t \in Threads :
          \/ CallWrite(t) \/ CallRead(t) \/ CallExist(t) \/ CallRemove(t)
          \/ registry_write(t) \/ registry_read(t) \/ registry_exist(t)
          \/ registry_remove(t) \/ RemoveStale(t)
          \/ Unlock(t)
    BY <1>2 DEF Next
  <2> QED
    BY <2>1, BeginSound, WriteSound, RemoveKeepsSound, OthersSound, UnlockSound
<1> QED
  BY <1>1, <1>2

(* The invariant has in it what the registry must be. *)
LEMMA RegistryInvMeans ==
  ASSUME RegistryInv
  PROVE  TypeOK /\ LengthExact /\ ChecksumStaleBySizeOnly /\ RoomForOneCell
<1>1. ItemWords(REG_MAX_SIZE) = Reserve
  BY SizeAssumption DEF ItemWords, Reserve
<1> QED
  BY <1>1 DEF RegistryInv, BaseSound, SoundBase, Sizes, CrcSound, RoomLeft, LengthExact,
     ChecksumStaleBySizeOnly, RoomForOneCell

-----------------------------------------------------------------------------
(* Depths, as the properties count them. *)

(* How many of a set are in an interval, and in one longer by one. *)
LEMMA CountNext ==
  ASSUME NEW A, NEW i \in Nat, NEW j \in Nat, i <= j + 1
  PROVE  /\ Cardinality({k \in i .. j : k \in A}) \in Nat
         /\ Cardinality({k \in i .. j + 1 : k \in A})
              = Cardinality({k \in i .. j : k \in A}) + IF j + 1 \in A THEN 1 ELSE 0
<1> DEFINE X == {k \in i .. j : k \in A}
           Y == {k \in i .. j + 1 : k \in A}
<1>1. IsFiniteSet(X) /\ Cardinality(X) \in Nat
  <2>1. IsFiniteSet(i .. j)
    BY FS_Interval
  <2>2. IsFiniteSet(X)
    BY <2>1, FS_Subset
  <2> QED
    BY <2>2, FS_CardinalityType
<1>2. CASE j + 1 \in A
  <2>1. Y = X \cup {j + 1} /\ j + 1 \notin X
    BY <1>2
  <2> HIDE DEF X, Y
  <2>2. Cardinality(Y) = Cardinality(X) + 1
    BY <1>1, <2>1, FS_AddElement
  <2> QED
    BY <1>1, <1>2, <2>2 DEF X, Y
<1>3. CASE j + 1 \notin A
  <2>1. Y = X
    BY <1>3
  <2> HIDE DEF X, Y
  <2>2. Cardinality(Y) = Cardinality(X) + 0
    BY <1>1, <2>1
  <2> QED
    BY <1>1, <1>3, <2>2 DEF X, Y
<1> QED
  BY <1>2, <1>3

(* One token more opens one hive more, or closes one, or neither. *)
LEMMA OpensNext ==
  ASSUME NEW m, NEW i \in Nat, NEW j \in Nat, i <= j + 1
  PROVE  /\ Opens(m, i, j) \in Nat /\ Closes(m, i, j) \in Nat
         /\ Opens(m, i, j + 1) = Opens(m, i, j) + IF m[j + 1] = REG_HIVE_SIG_S THEN 1 ELSE 0
         /\ Closes(m, i, j + 1) = Closes(m, i, j) + IF m[j + 1] = REG_HIVE_SIG_E THEN 1 ELSE 0
<1>1. ASSUME NEW tok
      PROVE  LET C(h) == Cardinality({k \in i .. h : m[k] = tok})
             IN  C(j) \in Nat /\ C(j + 1) = C(j) + IF m[j + 1] = tok THEN 1 ELSE 0
  <2> DEFINE A == {k \in Nat : m[k] = tok}
  <2>1. /\ {k \in i .. j : m[k] = tok} = {k \in i .. j : k \in A}
        /\ {k \in i .. j + 1 : m[k] = tok} = {k \in i .. j + 1 : k \in A}
        /\ j + 1 \in A <=> m[j + 1] = tok
    OBVIOUS
  <2> HIDE DEF A
  <2>2. /\ Cardinality({k \in i .. j : k \in A}) \in Nat
        /\ Cardinality({k \in i .. j + 1 : k \in A})
             = Cardinality({k \in i .. j : k \in A}) + IF j + 1 \in A THEN 1 ELSE 0
    BY CountNext
  <2> QED
    BY <2>1, <2>2
<1> QED
  BY <1>1 DEF Opens, Closes

(* In a nested stream the tags from i to j lead from depth d[i] to d[j + 1]. *)
LEMMA DepthBetween ==
  ASSUME NEW m, NEW d, Nested(m, d), NEW i \in 1 .. Len(m), NEW j \in i - 1 .. Len(m) - 1
  PROVE  /\ Opens(m, i, j) \in Nat /\ Closes(m, i, j) \in Nat
         /\ Opens(m, i, j) - Closes(m, i, j) = d[j + 1] - d[i]
<1>0. Len(m) \in Nat /\ i \in Nat /\ \A l \in 1 .. Len(m) : d[l] \in Nat
  BY DEF Nested
<1> DEFINE Right(l) == /\ Opens(m, i, l) \in Nat /\ Closes(m, i, l) \in Nat
                       /\ Opens(m, i, l) - Closes(m, i, l) = d[l + 1] - d[i]
           S == {n \in Nat : i - 1 + n <= Len(m) - 1 => Right(i - 1 + n)}
<1>1. 0 \in S
  <2>1. Opens(m, i, i - 1) = 0 /\ Closes(m, i, i - 1) = 0
    <3>1. i .. i - 1 = {}
      BY <1>0
    <3>2. {k \in i .. i - 1 : m[k] = REG_HIVE_SIG_S} = {} /\ {k \in i .. i - 1 : m[k] = REG_HIVE_SIG_E} = {}
      BY <3>1
    <3>3. Cardinality({}) = 0
      BY FS_EmptySet
    <3> QED
      BY <3>2, <3>3 DEF Opens, Closes
  <2>2. d[i] \in Nat /\ i - 1 + 0 = i - 1 /\ i - 1 + 1 = i
    BY <1>0
  <2>3. Right(i - 1)
    BY <2>1, <2>2
  <2> HIDE DEF Right
  <2> QED
    BY <2>2, <2>3
<1>2. ASSUME NEW n \in Nat, n \in S PROVE n + 1 \in S
  <2> SUFFICES ASSUME i - 1 + (n + 1) <= Len(m) - 1 PROVE Right(i - 1 + (n + 1))
    <3> HIDE DEF Right
    <3> QED
      OBVIOUS
  <2>1. PICK l \in Nat : l = i - 1 + n
    BY <1>0
  <2>2. /\ i <= l + 1 /\ l + 1 \in 1 .. Len(m) - 1 /\ l + 1 \in 1 .. Len(m) /\ l + 2 \in 1 .. Len(m)
        /\ i - 1 + (n + 1) = l + 1 /\ l <= Len(m) - 1 /\ l + 1 + 1 = l + 2
    BY <1>0, <2>1
  <2>3. Right(l)
    <3> HIDE DEF Right
    <3> QED
      BY <1>2, <2>1, <2>2
  <2>4. /\ Opens(m, i, l + 1) = Opens(m, i, l) + IF m[l + 1] = REG_HIVE_SIG_S THEN 1 ELSE 0
        /\ Closes(m, i, l + 1) = Closes(m, i, l) + IF m[l + 1] = REG_HIVE_SIG_E THEN 1 ELSE 0
    BY <1>0, <2>2, OpensNext
  <2>5. m[l + 1] \in Tokens
    BY <2>2 DEF Nested
  <2>6. /\ m[l + 1].w = "HIVE" <=> m[l + 1] = REG_HIVE_SIG_S
        /\ m[l + 1].w = "EVIH" <=> m[l + 1] = REG_HIVE_SIG_E
    BY <2>5, TokenKinds
  <2>7. /\ m[l + 1].w = "HIVE" => d[l + 2] = d[l + 1] + 1
        /\ m[l + 1].w = "EVIH" => d[l + 1] = d[l + 2] + 1
        /\ m[l + 1].w \notin {"HIVE", "EVIH"} => d[l + 2] = d[l + 1]
    BY <2>2 DEF Nested
  <2>8. PICK o, c, x, y, z \in Nat :
          o = Opens(m, i, l) /\ c = Closes(m, i, l) /\ x = d[l + 1] /\ y = d[l + 2] /\ z = d[i]
    BY <1>0, <2>2, <2>3
  <2>9. o - c = x - z
    BY <2>3, <2>8
  <2>10. Right(l + 1)
    <3>1. CASE m[l + 1].w = "HIVE"
      <4>1. Opens(m, i, l + 1) = o + 1 /\ Closes(m, i, l + 1) = c /\ y = x + 1
        <5>1. m[l + 1] = REG_HIVE_SIG_S /\ m[l + 1] # REG_HIVE_SIG_E
          BY <2>6, <3>1
        <5> QED
          BY <2>4, <2>7, <2>8, <3>1, <5>1
      <4>2. PICK q \in Nat : q = o + 1
        OBVIOUS
      <4>3. q - c = y - z /\ Opens(m, i, l + 1) = q
        BY <2>9, <4>1, <4>2
      <4> QED
        BY <2>2, <2>8, <4>1, <4>3
    <3>2. CASE m[l + 1].w = "EVIH"
      <4>1. Opens(m, i, l + 1) = o /\ Closes(m, i, l + 1) = c + 1 /\ x = y + 1
        <5>1. m[l + 1] # REG_HIVE_SIG_S /\ m[l + 1] = REG_HIVE_SIG_E
          BY <2>6, <3>2
        <5> QED
          BY <2>4, <2>7, <2>8, <3>2, <5>1
      <4>2. o - (c + 1) = y - z /\ c + 1 \in Nat
        BY <2>9, <4>1
      <4> QED
        BY <2>2, <2>8, <4>1, <4>2
    <3>3. CASE m[l + 1].w \notin {"HIVE", "EVIH"}
      <4>1. Opens(m, i, l + 1) = o /\ Closes(m, i, l + 1) = c /\ x = y
        <5>1. m[l + 1] # REG_HIVE_SIG_S /\ m[l + 1] # REG_HIVE_SIG_E
          BY <2>6, <3>3
        <5> QED
          BY <2>4, <2>7, <2>8, <3>3, <5>1
      <4>2. o - c = y - z
        BY <2>9, <4>1
      <4> QED
        BY <2>2, <2>8, <4>1, <4>2
    <3> QED
      BY <3>1, <3>2, <3>3
  <2> HIDE DEF Right
  <2> QED
    BY <2>2, <2>10
<1>3. PICK n \in Nat : n = j - (i - 1)
  BY <1>0
<1>4. n \in S
  <2> HIDE DEF S
  <2> QED
    BY <1>1, <1>2, SetInduction
<1>5. i - 1 + n = j /\ j <= Len(m) - 1
  BY <1>0, <1>3
<1>6. Right(j)
  <2> HIDE DEF Right
  <2> QED
    BY <1>4, <1>5
<1> QED
  BY <1>6

(* The depth at a token is that of the stream there. *)
LEMMA DepthIs ==
  ASSUME NEW m, NEW d, Nested(m, d), NEW k \in 1 .. Len(m)
  PROVE  DepthAt(m, k) = d[k]
<1>1. Len(m) \in Nat /\ d[1] = 0 /\ d[k] \in Nat /\ 1 \in 1 .. Len(m)
  BY DEF Nested
<1>2. PICK j : j = k - 1 /\ j \in 1 - 1 .. Len(m) - 1 /\ j + 1 = k
  BY <1>1
<1>3. Opens(m, 1, j) - Closes(m, 1, j) = d[j + 1] - d[1]
  BY <1>1, <1>2, DepthBetween
<1>4. Opens(m, 1, j) - Closes(m, 1, j) = d[k]
  BY <1>1, <1>2, <1>3
<1> QED
  BY <1>2, <1>4 DEF DepthAt

(* A nested stream is nested as the properties say it. *)
LEMMA NestedMeans ==
  ASSUME NEW m, NEW d, Nested(m, d)
  PROVE  /\ m[1] = REG_HIVE_SIG_S /\ m[Len(m)] = REG_BASE_SIG_E
         /\ \A k \in 1 .. Len(m) : DepthAt(m, k) = 0 <=> k \in {1, Len(m)}
         /\ \A i \in HiveStarts(m) : m[i + 1].n = 10 /\ m[i + 1].depth = DepthAt(m, i)
<1>0. Len(m) \in Nat /\ Len(m) >= 2 /\ DOMAIN m = 1 .. Len(m) /\ \A i \in 1 .. Len(m) : m[i] \in Tokens
  BY DEF Nested
<1>a. Len(m) \in Nat
  BY DEF Nested
<1>1. m[1] = REG_HIVE_SIG_S /\ m[Len(m)] = REG_BASE_SIG_E
  <2>1. 1 \in 1 .. Len(m) /\ Len(m) \in 1 .. Len(m) /\ m[1].w = "HIVE" /\ m[Len(m)].w = "ESAB"
    BY <1>0 DEF Nested
  <2>2. m[1] \in Tokens /\ m[Len(m)] \in Tokens
    BY <1>0, <2>1
  <2> QED
    BY <2>1, <2>2, TokenKinds
<1>2. ASSUME NEW k \in 1 .. Len(m) PROVE DepthAt(m, k) = 0 <=> k \in {1, Len(m)}
  <2>1. DepthAt(m, k) = d[k]
    BY DepthIs
  <2>2. d[k] = 0 <=> k \in {1, Len(m)}
    <3>1. CASE k = 1 \/ k = Len(m)
      <4>1. d[1] = 0 /\ d[Len(m)] = 0
        BY DEF Nested
      <4>2. d[k] = 0
        BY <3>1, <4>1
      <4> QED
        BY <3>1, <4>2, Zenon
    <3>2. CASE k # 1 /\ k # Len(m)
      <4>2. k \in 2 .. Len(m) - 1
        BY <1>a, <3>2
      <4>3. d[k] > 0 /\ d[k] \in Nat
        BY <4>2 DEF Nested
      <4>4. d[k] # 0
        BY <4>3
      <4> QED
        BY <3>2, <4>4, Zenon
    <3> QED
      BY <3>1, <3>2, Zenon
  <2> QED
    BY <2>1, <2>2
<1>3. ASSUME NEW i \in HiveStarts(m) PROVE m[i + 1].n = 10 /\ m[i + 1].depth = DepthAt(m, i)
  <2>0. REG_HIVE_SIG_S.w = "HIVE" /\ REG_BASE_SIG_E.w = "ESAB"
    BY DEF REG_HIVE_SIG_S, REG_BASE_SIG_E
  <2>a. i \in 1 .. Len(m) /\ m[i] = REG_HIVE_SIG_S
    BY <1>0 DEF HiveStarts
  <2>b. m[i].w = "HIVE" /\ m[Len(m)].w = "ESAB"
    BY <1>1, <2>0, <2>a
  <2>1. i \in 1 .. Len(m) /\ m[i] = REG_HIVE_SIG_S /\ m[i].w = "HIVE" /\ i # Len(m)
    BY <2>a, <2>b, Zenon
  <2>2. i \in 1 .. Len(m) - 1 /\ i + 1 \in 1 .. Len(m)
    BY <1>a, <2>1
  <2>3. IsName(m[i + 1]) /\ m[i + 1].depth = d[i]
    BY <2>1, <2>2 DEF Nested
  <2>4. m[i + 1] = HiveName(m[i + 1].w, m[i + 1].depth)
    BY <1>0, <2>2, <2>3, TokenKinds
  <2>5. m[i + 1].n = 10
    BY <2>4 DEF HiveName
  <2> QED
    BY <2>1, <2>3, <2>5, DepthIs
<1> QED
  BY <1>1, <1>2, <1>3

(* In a nested stream the walk to the end of a hive ends at its own tag. *)
LEMMA NestedEnds ==
  ASSUME NEW m, NEW d, Nested(m, d), NEW i \in HiveStarts(m)
  PROVE  FindEndTag(m, i) = Closing(m, i)
<1>0. Len(m) \in Nat /\ DOMAIN m = 1 .. Len(m) /\ \A l \in 1 .. Len(m) : m[l] \in Tokens /\ d[l] \in Nat
  BY DEF Nested
<1>1. i \in 1 .. Len(m) /\ m[i].w = "HIVE"
  BY <1>0 DEF HiveStarts, REG_HIVE_SIG_S
<1>2. PICK e : e = FindEndTag(m, i) /\ EndsHive(m, d, i, e)
  BY <1>1, EndTagFound
<1>3. /\ e \in i + 2 .. Len(m) - 1 /\ m[e].w = "EVIH" /\ d[e] = d[i] + 1 /\ \A l \in i + 1 .. e : d[l] > d[i]
  BY <1>2 DEF EndsHive
<1>4. e \in 1 .. Len(m) - 1 /\ e \in 1 .. Len(m) /\ e + 1 \in 1 .. Len(m) /\ e \in i .. Len(m) /\ i \in Nat
  BY <1>0, <1>1, <1>3
<1> DEFINE Closes1(k) == /\ m[k] = REG_HIVE_SIG_E /\ Opens(m, i, k) = Closes(m, i, k)
                         /\ \A l \in i .. k - 1 : Opens(m, i, l) > Closes(m, i, l)
<1>5. m[e] = REG_HIVE_SIG_E
  BY <1>0, <1>3, <1>4, TokenKinds
<1>6. ASSUME NEW l \in i .. e
      PROVE  /\ Opens(m, i, l) \in Nat /\ Closes(m, i, l) \in Nat
             /\ Opens(m, i, l) - Closes(m, i, l) = d[l + 1] - d[i]
  <2>1. l \in i - 1 .. Len(m) - 1
    BY <1>0, <1>1, <1>4
  <2> QED
    BY <1>1, <2>1, DepthBetween
<1>7. Opens(m, i, e) = Closes(m, i, e)
  <2>1. d[e] = d[e + 1] + 1
    BY <1>3, <1>4 DEF Nested
  <2>2. d[e + 1] = d[i] /\ e \in i .. e
    BY <1>0, <1>1, <1>3, <1>4, <2>1
  <2>3. PICK o, c, x, y : o = Opens(m, i, e) /\ c = Closes(m, i, e) /\ x = d[e + 1] /\ y = d[i]
    OBVIOUS
  <2>4. o \in Nat /\ c \in Nat /\ x \in Nat /\ o - c = x - y /\ x = y
    BY <1>0, <1>4, <1>6, <2>2, <2>3
  <2> QED
    BY <2>3, <2>4
<1>8. ASSUME NEW l \in i .. e - 1 PROVE Opens(m, i, l) > Closes(m, i, l)
  <2>1. l + 1 \in i + 1 .. e /\ l \in i .. e /\ l + 1 \in 1 .. Len(m)
    BY <1>0, <1>1, <1>4
  <2>2. PICK o, c, x, y : o = Opens(m, i, l) /\ c = Closes(m, i, l) /\ x = d[l + 1] /\ y = d[i]
    OBVIOUS
  <2>3. o \in Nat /\ c \in Nat /\ x \in Nat /\ y \in Nat /\ o - c = x - y /\ x > y
    BY <1>0, <1>1, <1>3, <1>6, <2>1, <2>2
  <2>4. o > c
    BY <2>3
  <2> QED
    BY <2>2, <2>4
<1>9. Closes1(e)
  BY <1>5, <1>7, <1>8
<1>10. ASSUME NEW k \in i .. Len(m), Closes1(k) PROVE k = e
  <2>1. k \in Int /\ e \in Int
    BY <1>0, <1>1, <1>4
  <2>2. ~ (k < e)
    <3>1. ASSUME k < e PROVE FALSE
      <4>1. k \in i .. e - 1 /\ k \in i .. e
        BY <1>0, <1>4, <2>1, <3>1
      <4>2. Opens(m, i, k) > Closes(m, i, k) /\ Opens(m, i, k) \in Nat /\ Opens(m, i, k) = Closes(m, i, k)
        BY <1>6, <1>8, <1>10, <4>1
      <4> QED
        BY <4>2
    <3> QED
      BY <3>1
  <2>3. ~ (e < k)
    <3>1. ASSUME e < k PROVE FALSE
      <4>1. e \in i .. k - 1 /\ e \in i .. e
        BY <1>0, <1>4, <2>1, <3>1
      <4>2. Opens(m, i, e) > Closes(m, i, e) /\ Opens(m, i, e) \in Nat
        BY <1>6, <1>10, <4>1
      <4> QED
        BY <1>7, <4>2
    <3> QED
      BY <3>1
  <2> QED
    BY <2>1, <2>2, <2>3
<1>11. Closing(m, i) = CHOOSE k \in i .. Len(m) : Closes1(k)
  BY DEF Closing
<1> HIDE DEF Closes1
<1>12. (CHOOSE k \in i .. Len(m) : Closes1(k)) \in i .. Len(m) /\ Closes1(CHOOSE k \in i .. Len(m) : Closes1(k))
  BY <1>4, <1>9
<1> QED
  BY <1>2, <1>10, <1>11, <1>12

-----------------------------------------------------------------------------
(* The theorems, for registries with plain names. *)

(* Whatever the callers write, remove and read, in whatever order the threads
   get the lock: the stream is nested, base->length is that of the stream, and
   what the threads have called is what a caller may call. *)
THEOREM RegistryInductive ==
  ASSUME PlainPaths PROVE Spec => []RegistryInv
<1>1. Init => RegistryInv
  BY RegistryInit
<1>2. RegistryInv /\ [Next]_vars => RegistryInv'
  BY RegistryStep
<1> QED
  BY <1>1, <1>2, PTL DEF Spec

(* The base, the lock and the calls are always what they look like. *)
THEOREM RegistryTypes ==
  ASSUME PlainPaths PROVE Spec => []TypeOK
<1>1. RegistryInv => TypeOK
  BY RegistryInvMeans
<1> QED
  BY <1>1, RegistryInductive, PTL

(* base->length is always the header and the dwords of the stream, after any
   hives and cells have been added, replaced and removed. *)
THEOREM RegistryLength ==
  ASSUME PlainPaths PROVE Spec => []LengthExact
<1>1. RegistryInv => LengthExact
  BY RegistryInvMeans
<1> QED
  BY <1>1, RegistryInductive, PTL

(* The checksum in the base is wrong, if at all, by a size that realloc has
   made larger since. *)
THEOREM RegistryChecksum ==
  ASSUME PlainPaths PROVE Spec => []ChecksumStaleBySizeOnly
<1>1. RegistryInv => ChecksumStaleBySizeOnly
  BY RegistryInvMeans
<1> QED
  BY <1>1, RegistryInductive, PTL

(* A write whose hives exist always finds room for its cell: the reserve that
   the write before it restored is large enough for the largest data. *)
THEOREM RegistryRoom ==
  ASSUME PlainPaths PROVE Spec => []RoomForOneCell
<1>1. RegistryInv => RoomForOneCell
  BY RegistryInvMeans
<1> QED
  BY <1>1, RegistryInductive, PTL

(* Adding and removing hives always leaves one System hive with all others
   nested in it, each with its depth behind its name. *)
THEOREM RegistryNested ==
  ASSUME PlainPaths PROVE Spec => []StreamNested
<1>1. RegistryInv => StreamNested
  <2> SUFFICES ASSUME RegistryInv PROVE StreamNested
    OBVIOUS
  <2>1. PICK d : Nested(reg.m, d)
    BY DEF RegistryInv, BaseSound, SoundBase
  <2>2. PICK m : m = reg.m
    OBVIOUS
  <2>3. /\ m[1] = REG_HIVE_SIG_S /\ m[Len(m)] = REG_BASE_SIG_E
        /\ \A k \in 1 .. Len(m) : DepthAt(m, k) = 0 <=> k \in {1, Len(m)}
        /\ \A i \in HiveStarts(m) : m[i + 1].n = 10 /\ m[i + 1].depth = DepthAt(m, i)
    BY <2>1, <2>2, NestedMeans
  <2> QED
    BY <2>2, <2>3 DEF StreamNested
<1> QED
  BY <1>1, RegistryInductive, PTL

(* The walk to the end of a hive always ends at the tag that closes it, so an
   item is added to the hive it is meant for, and a hive is removed whole. *)
THEOREM RegistryEndTags ==
  ASSUME PlainPaths PROVE Spec => []EndTagIsOwn
<1>1. RegistryInv => EndTagIsOwn
  <2> SUFFICES ASSUME RegistryInv, NEW i \in HiveStarts(reg.m)
               PROVE  FindEndTag(reg.m, i) = Closing(reg.m, i)
    BY DEF EndTagIsOwn
  <2>1. PICK d : Nested(reg.m, d)
    BY DEF RegistryInv, BaseSound, SoundBase
  <2>2. PICK m : m = reg.m
    OBVIOUS
  <2>3. FindEndTag(m, i) = Closing(m, i)
    BY <2>1, <2>2, NestedEnds
  <2> QED
    BY <2>2, <2>3
<1> QED
  BY <1>1, RegistryInductive, PTL

-----------------------------------------------------------------------------
(* reg_spinlock *)

(* The typing the argument needs: pc and reg_spinlock are what they look like. *)
LockTypes == DOMAIN pc = Threads /\ reg_spinlock \in BOOLEAN

LockInv == LockTypes /\ RegistryMutualExclusion

(* Each call takes the lock on its way from "lock" to "unlock" or "halt". *)
Works(t) ==
  /\ pc[t] = "lock" /\ ~reg_spinlock /\ reg_spinlock' = TRUE
  /\ \/ pc' = [pc EXCEPT ![t] = "unlock"]
     \/ pc' = [pc EXCEPT ![t] = "halt"]

(* Whatever a call does once it has the lock, it took the lock when it was
   free. *)
LEMMA WorkTakesLock ==
  ASSUME NEW t \in Threads,
         registry_write(t) \/ registry_read(t) \/ registry_exist(t)
           \/ registry_remove(t) \/ RemoveStale(t)
  PROVE  Works(t)
<1>1. CASE registry_write(t)
  BY <1>1 DEF registry_write, Enter, SpinLock, Return, Halt, Works
<1>2. CASE registry_read(t)
  BY <1>2 DEF registry_read, Enter, SpinLock, Return, Works
<1>3. CASE registry_exist(t)
  BY <1>3 DEF registry_exist, Enter, SpinLock, Return, Works
<1>4. CASE registry_remove(t)
  BY <1>4 DEF registry_remove, Enter, SpinLock, Return, Works
<1>5. CASE RemoveStale(t)
  BY <1>5 DEF RemoveStale, Enter, SpinLock, Return, Halt, Works
<1>6. QED
  BY <1>1, <1>2, <1>3, <1>4, <1>5

(* Taking the lock and working keeps the invariant. *)
LEMMA WorksKeepsLockInv ==
  ASSUME LockInv, NEW t \in Threads, Works(t)
  PROVE  LockInv'
<1>1. LockTypes'
  BY DEF LockInv, LockTypes, Works
<1>2. \A u \in Threads : ~Inside(u)
  BY DEF LockInv, RegistryMutualExclusion, Works
<1>3. \A u \in Threads : Inside(u)' => u = t
  BY <1>2 DEF LockInv, LockTypes, Works, Inside
<1>4. QED
  BY <1>1, <1>3 DEF LockInv, RegistryMutualExclusion, Works

(* Beginning a call keeps the invariant. *)
LEMMA BeginKeepsLockInv ==
  ASSUME LockInv, NEW t \in Threads,
         CallWrite(t) \/ CallRead(t) \/ CallExist(t) \/ CallRemove(t)
  PROVE  LockInv'
<1>1. pc[t] = "idle" /\ pc' = [pc EXCEPT ![t] = "lock"] /\ UNCHANGED reg_spinlock
  <2>1. \E c : Begin(t, c)
    BY DEF CallWrite, CallRead, CallExist, CallRemove
  <2>2. QED
    BY <2>1 DEF Begin
<1>2. \A u \in Threads : Inside(u)' => Inside(u)
  BY <1>1 DEF LockInv, LockTypes, Inside
<1>3. QED
  BY <1>1, <1>2 DEF LockInv, LockTypes, RegistryMutualExclusion

(* Unlocking keeps the invariant. *)
LEMMA UnlockKeepsLockInv ==
  ASSUME LockInv, NEW t \in Threads, Unlock(t)
  PROVE  LockInv'
<1>1. pc[t] = "unlock" /\ pc' = [pc EXCEPT ![t] = "idle"] /\ reg_spinlock' = FALSE
  BY DEF Unlock
<1>2. \A u \in Threads : Inside(u) => u = t
  BY <1>1 DEF LockInv, RegistryMutualExclusion, Inside
<1>3. \A u \in Threads : ~Inside(u)'
  BY <1>1, <1>2 DEF LockInv, LockTypes, Inside
<1>4. QED
  BY <1>1, <1>3 DEF LockInv, LockTypes, RegistryMutualExclusion

(* Two threads are never at work on the registry at once, however many call
   it: every call works between taking reg_spinlock and releasing it. *)
THEOREM RegistryMutex == Spec => []RegistryMutualExclusion
<1>1. Init => LockInv
  BY DEF Init, LockInv, LockTypes, RegistryMutualExclusion, Inside
<1>2. LockInv /\ [Next]_vars => LockInv'
  <2> SUFFICES ASSUME LockInv, [Next]_vars PROVE LockInv'
    OBVIOUS
  <2>1. CASE UNCHANGED vars
    BY <2>1 DEF vars, LockInv, LockTypes, RegistryMutualExclusion, Inside
  <2>2. CASE Next
    <3>1. PICK t \in Threads :
            \/ CallWrite(t) \/ CallRead(t) \/ CallExist(t) \/ CallRemove(t)
            \/ registry_write(t) \/ registry_read(t) \/ registry_exist(t)
            \/ registry_remove(t) \/ RemoveStale(t)
            \/ Unlock(t)
      BY <2>2 DEF Next
    <3>2. QED
      BY <3>1, WorkTakesLock, WorksKeepsLockInv, BeginKeepsLockInv, UnlockKeepsLockInv
  <2>3. QED
    BY <2>1, <2>2
<1>3. LockInv => RegistryMutualExclusion
  BY DEF LockInv
<1>4. QED
  BY <1>1, <1>2, <1>3, PTL DEF Spec

-----------------------------------------------------------------------------
(* The stream as a tree.  Every token is in a hive with a path; an entry is the
   path of a hive, or that of a cell with its value. *)

(* How a token leads from the path q of the hive it is in to that of the next. *)
PathStep(tok, next, q, r) ==
  /\ tok.w = "HIVE" => r = Append(q, next.w)
  /\ tok.w = "EVIH" => r = IF q = <<>> THEN <<>> ELSE Front(q)
  /\ tok.w \notin {"HIVE", "EVIH"} => r = q

(* p is the path of the hive each token of the stream is in, without System. *)
Pathed(m, d, p) ==
  /\ Nested(m, d)
  /\ p \in [1 .. Len(m) -> Seq(PlainName)]
  /\ p[1] = <<>> /\ p[2] = <<>>
  /\ \A i \in 2 .. Len(m) - 1 : Len(p[i]) = d[i] - 1 /\ PathStep(m[i], m[i + 1], p[i], p[i + 1])

(* The hives but System, and the cells. *)
IsEntry(tok) == tok.w \in {"HIVE", "CELL"}
Items(m) == {i \in 2 .. Len(m) - 1 : IsEntry(m[i])}

(* What a token says that is in a hive with path q: a hive, or a cell with its value. *)
EntryOf(tok, next, q) ==
  [sig  |-> tok.w,
   path |-> Append(q, IF tok.w = "HIVE" THEN next.w ELSE tok.name),
   v    |-> IF tok.w = "CELL" THEN [type |-> tok.type, len |-> tok.len, data |-> tok.data] ELSE NULL]

Entry(m, p, i) == EntryOf(m[i], m[i + 1], p[i])
Entries(m, p)  == {Entry(m, p, i) : i \in Items(m)}

SameKey(e, f) == e.sig = f.sig /\ e.path = f.path

(* No two hives have one path, and no two cells. *)
Distinct(m, p) ==
  \A i, j \in Items(m) : SameKey(Entry(m, p, i), Entry(m, p, j)) => i = j

-----------------------------------------------------------------------------
(* Paths. *)

(* q is what path begins with. *)
Starts(q, path) == Len(q) <= Len(path) /\ \A k \in 1 .. Len(q) : path[k] = q[k]

(* A path without its last name. *)
LEMMA FrontLast ==
  ASSUME NEW S, NEW u \in Seq(S), u # <<>>
  PROVE  /\ Front(u) \in Seq(S) /\ Last(u) \in S /\ u = Append(Front(u), Last(u))
         /\ Len(Front(u)) = Len(u) - 1 /\ \A k \in 1 .. Len(u) - 1 : Front(u)[k] = u[k]
<1>1. Len(u) \in Nat /\ Len(u) > 0 /\ \A i \in 1 .. Len(u) : u[i] \in S
  OBVIOUS
<1>2. PICK n : n = Len(u) - 1
  OBVIOUS
<1>3. n \in Nat /\ \A i \in 1 .. n : u[i] \in S
  BY <1>1, <1>2
<1>4. PICK f : f = SubSeq(u, 1, n)
  OBVIOUS
<1>5. f \in Seq(S) /\ Len(f) = n /\ \A k \in 1 .. n : f[k] = u[k]
  BY <1>3, <1>4, SubSeqProperties
<1>6. Front(u) = f /\ Last(u) = u[Len(u)] /\ Last(u) \in S
  BY <1>1, <1>2, <1>4 DEF Front, Last
<1>7. PICK z : z = Append(f, Last(u))
  OBVIOUS
<1>8. z \in Seq(S) /\ Len(z) = n + 1 /\ (\A k \in 1 .. n : z[k] = f[k]) /\ z[n + 1] = Last(u)
  BY <1>5, <1>6, <1>7, AppendProperties
<1>9. Len(z) = Len(u) /\ \A k \in 1 .. Len(z) : z[k] = u[k]
  BY <1>1, <1>2, <1>5, <1>6, <1>8
<1>10. z = u
  BY <1>8, <1>9, SeqEqual
<1> QED
  BY <1>2, <1>5, <1>6, <1>7, <1>10

(* A name put behind a path is its last, with the path in front. *)
LEMMA FrontAppend ==
  ASSUME NEW S, NEW u \in Seq(S), NEW w \in S
  PROVE  Front(Append(u, w)) = u /\ Last(Append(u, w)) = w
<1>1. PICK z : z = Append(u, w)
  OBVIOUS
<1>2. z \in Seq(S) /\ z # <<>>
  BY <1>1, AppendProperties
<1>3. Front(z) \in Seq(S) /\ Last(z) \in S /\ z = Append(Front(z), Last(z))
  BY <1>2, FrontLast
<1> QED
  BY <1>1, <1>3, AppendInjective

(* Equal paths have equal last names, and are equal in front of them. *)
LEMMA AppendSame ==
  ASSUME NEW S, NEW u \in Seq(S), NEW w \in S, NEW v \in Seq(S), NEW z \in S,
         Append(u, w) = Append(v, z)
  PROVE  u = v /\ w = z
BY AppendInjective

(* What a path begins with, every path in it begins with too. *)
LEMMA StartsAppend ==
  ASSUME NEW S, NEW q \in Seq(S), NEW u \in Seq(S), NEW w \in S
  PROVE  Starts(q, Append(u, w)) <=> Starts(q, u) \/ q = Append(u, w)
<1>1. PICK z : z = Append(u, w)
  OBVIOUS
<1>2. /\ z \in Seq(S) /\ Len(z) = Len(u) + 1 /\ Len(u) \in Nat /\ Len(q) \in Nat
      /\ \A k \in 1 .. Len(u) : z[k] = u[k]
  BY <1>1, AppendProperties
<1>3. ASSUME Starts(q, u) PROVE Starts(q, z)
  BY <1>2, <1>3 DEF Starts
<1>4. ASSUME q = z PROVE Starts(q, z)
  BY <1>2, <1>4 DEF Starts
<1>5. ASSUME Starts(q, z), Len(q) <= Len(u) PROVE Starts(q, u)
  BY <1>2, <1>5 DEF Starts
<1>6. ASSUME Starts(q, z), ~ (Len(q) <= Len(u)) PROVE q = z
  <2>1. Len(q) = Len(z) /\ \A k \in 1 .. Len(q) : q[k] = z[k]
    BY <1>2, <1>6 DEF Starts
  <2> QED
    BY <1>2, <2>1, SeqEqual
<1> QED
  BY <1>1, <1>3, <1>4, <1>5, <1>6

(* What a longer path begins with, it begins with when its last name is gone. *)
LEMMA StartsFront ==
  ASSUME NEW S, NEW q \in Seq(S), NEW u \in Seq(S), u # <<>>, Starts(q, u), Len(q) <= Len(u) - 1
  PROVE  Starts(q, Front(u))
<1>1. /\ Len(Front(u)) = Len(u) - 1 /\ \A k \in 1 .. Len(u) - 1 : Front(u)[k] = u[k]
  BY FrontLast
<1>2. Len(u) \in Nat /\ Len(q) \in Nat
  OBVIOUS
<1> QED
  BY <1>1, <1>2 DEF Starts

(* A path begins with no other path of its length. *)
LEMMA StartsSame ==
  ASSUME NEW S, NEW q \in Seq(S), NEW u \in Seq(S), Starts(q, u), Len(q) = Len(u)
  PROVE  q = u
<1>1. \A k \in 1 .. Len(q) : q[k] = u[k]
  BY DEF Starts
<1> QED
  BY <1>1, SeqEqual

(* A path begins with itself. *)
LEMMA StartsSelf ==
  ASSUME NEW S, NEW q \in Seq(S)
  PROVE  Starts(q, q)
BY DEF Starts

(* To begin with a path is to have it as a prefix, as the abstract registry says. *)
LEMMA StartsIsPrefix ==
  ASSUME NEW S, NEW q \in Seq(S), NEW u \in Seq(S)
  PROVE  Starts(q, u) <=> IsPrefix(q, u)
<1>1. Len(q) \in Nat /\ Len(u) \in Nat /\ \A i \in 1 .. Len(u) : u[i] \in S
  OBVIOUS
<1>2. PICK f : f = SubSeq(u, 1, Len(q))
  OBVIOUS
<1>3. ASSUME Len(q) <= Len(u)
      PROVE  Starts(q, u) <=> f = q
  <2>1. \A i \in 1 .. Len(q) : u[i] \in S
    BY <1>1, <1>3
  <2>2. f \in Seq(S) /\ Len(f) = Len(q) /\ \A k \in 1 .. Len(q) : f[k] = u[k]
    BY <1>1, <1>2, <2>1, SubSeqProperties
  <2>3. ASSUME Starts(q, u) PROVE f = q
    <3>1. \A k \in 1 .. Len(f) : f[k] = q[k]
      BY <2>2, <2>3 DEF Starts
    <3> QED
      BY <2>2, <3>1, SeqEqual
  <2>4. ASSUME f = q PROVE Starts(q, u)
    BY <1>3, <2>2, <2>4 DEF Starts
  <2> QED
    BY <2>3, <2>4
<1> QED
  BY <1>2, <1>3 DEF Starts, IsPrefix

(* The name of a hive, and that of a cell, is a plain name. *)
LEMMA NamePlain ==
  ASSUME NEW m, NEW d, Nested(m, d), NEW i \in 1 .. Len(m) - 1
  PROVE  /\ m[i] \in Tokens /\ m[i + 1] \in Tokens
         /\ m[i].w = "HIVE" => m[i + 1].w \in PlainName /\ m[i + 1].w \notin SigWords
         /\ m[i].w = "CELL" => m[i].name \in PlainName
<1>1. /\ m \in Seq(Tokens) /\ Len(m) \in Nat
      /\ m[i].w = "HIVE" => IsName(m[i + 1])
  BY DEF Nested
<1>2. m[i] \in Tokens /\ m[i + 1] \in Tokens
  BY <1>1
<1>3. IsName(m[i + 1]) => m[i + 1].w \in PlainName
  BY <1>2, TokenKinds
<1>4. m[i].w = "CELL" => m[i].name \in PlainName
  BY <1>2, TokenKinds
<1> QED
  BY <1>1, <1>2, <1>3, <1>4 DEF IsName

-----------------------------------------------------------------------------
(* The greatest of a bounded set of numbers. *)
LEMMA HasGreatest ==
  ASSUME NEW n \in Nat, NEW S \in SUBSET (0 .. n), S # {}
  PROVE  \E x \in S : \A y \in S : y <= x
<1> DEFINE Z == {n - x : x \in S}
<1>1. Z \in SUBSET Nat /\ Z # {}
  <2>1. \A x \in S : n - x \in Nat
    OBVIOUS
  <2>2. PICK x \in S : TRUE
    OBVIOUS
  <2>3. n - x \in Z
    OBVIOUS
  <2> QED
    BY <2>1, <2>3
<1>2. PICK z \in Z : \A y \in Z : z <= y
  <2> HIDE DEF Z
  <2> QED
    BY <1>1, HasSmallest
<1>3. PICK x \in S : z = n - x
  OBVIOUS
<1>4. \A y \in S : y <= x
  <2> TAKE y \in S
  <2>1. z <= n - y /\ y \in 0 .. n /\ x \in 0 .. n
    BY <1>2
  <2> QED
    BY <1>3, <2>1
<1> QED
  BY <1>4

(* A token at depth more than k is in a hive that is opened at depth k. *)
LEMMA Encloses ==
  ASSUME NEW m, NEW d, Nested(m, d), NEW i \in 2 .. Len(m) - 1, NEW k \in Nat, k < d[i]
  PROVE  \E y \in 1 .. i - 1 : /\ m[y].w = "HIVE" /\ d[y] = k /\ d[y + 1] = k + 1
                               /\ \A l \in y + 1 .. i : d[l] > k
<1>0. /\ Len(m) \in Nat /\ i \in Nat /\ i >= 2 /\ i <= Len(m) - 1
      /\ d \in [1 .. Len(m) -> Nat] /\ d[1] = 0
  BY DEF Nested
<1> DEFINE S == {y \in 1 .. i - 1 : d[y] <= k}
<1>1. 1 \in S /\ S \in SUBSET (0 .. i)
  BY <1>0
<1>2. PICK y \in S : \A l \in S : l <= y
  <2> HIDE DEF S
  <2> QED
    BY <1>0, <1>1, HasGreatest
<1>3. y \in 1 .. i - 1 /\ d[y] <= k /\ y \in Nat /\ y \in 1 .. Len(m) - 1 /\ d[y] \in Nat
  BY <1>0
<1>4. ASSUME NEW l \in y + 1 .. i PROVE d[l] > k
  <2>1. l \in 1 .. Len(m) /\ d[l] \in Nat
    BY <1>0, <1>3
  <2>2. CASE l = i
    BY <2>2
  <2>3. CASE l # i
    <3>1. l \in 1 .. i - 1 /\ ~ (l <= y)
      BY <1>0, <1>3, <2>3
    <3>2. l \notin S
      BY <1>2, <3>1
    <3> QED
      BY <2>1, <3>1, <3>2
  <2> QED
    BY <2>2, <2>3
<1>5. d[y + 1] > k /\ d[y + 1] \in Nat
  BY <1>0, <1>3, <1>4
<1>6. /\ m[y].w = "HIVE" => d[y + 1] = d[y] + 1
      /\ m[y].w = "EVIH" => d[y] = d[y + 1] + 1
      /\ m[y].w \notin {"HIVE", "EVIH"} => d[y + 1] = d[y]
  BY <1>3 DEF Nested
<1>7. m[y].w = "HIVE" /\ d[y] = k /\ d[y + 1] = k + 1
  BY <1>3, <1>5, <1>6
<1> QED
  BY <1>3, <1>4, <1>7

(* In a hive every path begins with that of the hive. *)
LEMMA InsideStarts ==
  ASSUME NEW m, NEW d, NEW p, Pathed(m, d, p), NEW x, HiveAt(m, d, x), NEW q, q = p[x + 1],
         NEW i \in x + 1 .. Len(m) - 1, \A l \in x + 1 .. i : d[l] > d[x]
  PROVE  Starts(q, p[i]) /\ Len(q) = d[x]
<1>0. /\ Nested(m, d) /\ x \in 1 .. Len(m) /\ m[x].w = "HIVE" /\ Len(m) \in Nat /\ x \in Nat
      /\ d \in [1 .. Len(m) -> Nat] /\ m[Len(m)].w = "ESAB"
      /\ p \in [1 .. Len(m) -> Seq(PlainName)]
  BY DEF HiveAt, Nested, Pathed
<1>1. x \in 1 .. Len(m) - 1 /\ d[x + 1] = d[x] + 1 /\ d[x] \in Nat
  <2>1. x # Len(m)
    BY <1>0
  <2>2. x \in 1 .. Len(m) - 1
    BY <1>0, <2>1
  <2> QED
    BY <1>0, <2>2 DEF Nested
<1>2. x + 1 \in 2 .. Len(m) - 1
  BY <1>0, <1>1
<1>3. Len(q) = d[x] /\ q \in Seq(PlainName)
  <2>1. Len(p[x + 1]) = d[x + 1] - 1
    BY <1>2 DEF Pathed
  <2>2. p[x + 1] \in Seq(PlainName)
    BY <1>0, <1>2
  <2> QED
    BY <1>1, <2>1, <2>2
<1> DEFINE S == {k \in Nat : x + 1 + k <= i => Starts(q, p[x + 1 + k])}
<1>4. 0 \in S
  <2>1. x + 1 + 0 = x + 1
    BY <1>0
  <2>2. Starts(q, q)
    BY <1>3 DEF Starts
  <2> QED
    BY <2>1, <2>2
<1>5. ASSUME NEW k \in Nat, k \in S PROVE k + 1 \in S
  <2> SUFFICES ASSUME x + 1 + (k + 1) <= i PROVE Starts(q, p[x + 1 + (k + 1)])
    OBVIOUS
  <2>1. PICK l : l = x + 1 + k
    OBVIOUS
  <2>2. /\ l \in 2 .. Len(m) - 1 /\ l + 1 \in 2 .. Len(m) - 1 /\ l \in x + 1 .. i /\ l + 1 \in x + 1 .. i
        /\ x + 1 + k <= i /\ x + 1 + (k + 1) = l + 1 /\ l \in 1 .. Len(m) /\ l + 1 \in 1 .. Len(m)
    BY <1>0, <1>1, <2>1
  <2>3. Starts(q, p[l])
    BY <1>5, <2>1, <2>2
  <2>4. /\ Len(p[l]) = d[l] - 1 /\ Len(p[l + 1]) = d[l + 1] - 1
        /\ PathStep(m[l], m[l + 1], p[l], p[l + 1])
    BY <2>2 DEF Pathed
  <2>5. d[l + 1] > d[x] /\ d[l + 1] \in Nat /\ d[l] \in Nat
    BY <1>0, <2>2
  <2>6. PICK u, z : u = p[l] /\ z = p[l + 1]
    OBVIOUS
  <2>a. u \in Seq(PlainName) /\ z \in Seq(PlainName)
    <3>1. \A k1 \in 1 .. Len(m) : p[k1] \in Seq(PlainName)
      BY <1>0
    <3>2. p[l] \in Seq(PlainName) /\ p[l + 1] \in Seq(PlainName)
      BY <2>2, <3>1
    <3> QED
      BY <2>6, <3>2
  <2>7. Len(q) <= Len(z) /\ Len(q) \in Nat /\ Len(z) \in Nat /\ Len(u) \in Nat
    <3>1. Len(z) \in Nat /\ Len(u) \in Nat /\ Len(q) \in Nat
      BY <1>3, <2>a
    <3>2. Len(z) = d[l + 1] - 1 /\ Len(q) = d[x]
      BY <1>3, <2>4, <2>6
    <3> QED
      BY <1>1, <2>5, <3>1, <3>2
  <2>8. CASE m[l].w = "HIVE"
    <3>1. z = Append(u, m[l + 1].w)
      BY <2>4, <2>6, <2>8 DEF PathStep
    <3>2. m[l + 1].w \in PlainName
      <4>1. l \in 1 .. Len(m) - 1
        BY <1>0, <2>2
      <4> QED
        BY <1>0, <2>8, <4>1, NamePlain
    <3>3. Starts(q, z)
      BY <1>3, <2>3, <2>6, <2>a, <3>1, <3>2, StartsAppend
    <3> QED
      BY <2>2, <2>6, <3>3
  <2>9. CASE m[l].w = "EVIH"
    <3>1. z = IF u = <<>> THEN <<>> ELSE Front(u)
      BY <2>4, <2>6, <2>9 DEF PathStep
    <3>2. Starts(q, z)
      <4>1. CASE u = <<>>
        BY <2>3, <2>6, <3>1, <4>1
      <4>2. CASE u # <<>>
        <5>1. z = Front(u) /\ Len(z) = Len(u) - 1
          BY <2>a, <3>1, <4>2, FrontLast
        <5> QED
          BY <1>3, <2>3, <2>6, <2>7, <2>a, <4>2, <5>1, StartsFront
      <4> QED
        BY <4>1, <4>2
    <3> QED
      BY <2>2, <2>6, <3>2
  <2>10. CASE m[l].w \notin {"HIVE", "EVIH"}
    <3>1. z = u
      BY <2>4, <2>6, <2>10 DEF PathStep
    <3> QED
      BY <2>2, <2>3, <2>6, <3>1
  <2> QED
    BY <2>8, <2>9, <2>10
<1>6. i - (x + 1) \in Nat /\ x + 1 + (i - (x + 1)) = i
  BY <1>0
<1>7. i - (x + 1) \in S
  <2> HIDE DEF S
  <2> QED
    BY <1>4, <1>5, <1>6, SetInduction
<1> QED
  BY <1>3, <1>6, <1>7

-----------------------------------------------------------------------------
(* What is in a hive. *)

(* What is known of a token inside System. *)
LEMMA PathAt ==
  ASSUME NEW m, NEW d, NEW p, Pathed(m, d, p), NEW i \in 2 .. Len(m) - 1
  PROVE  /\ p[i] \in Seq(PlainName) /\ Len(p[i]) = d[i] - 1 /\ d[i] \in Nat /\ d[i] > 0
         /\ Len(m) \in Nat /\ Nested(m, d) /\ i \in 1 .. Len(m) - 1 /\ i \in 1 .. Len(m)
         /\ m[i] \in Tokens
<1>1. /\ Nested(m, d) /\ Len(p[i]) = d[i] - 1 /\ p \in [1 .. Len(m) -> Seq(PlainName)]
  BY DEF Pathed
<1>2. Len(m) \in Nat /\ d[i] > 0 /\ d \in [1 .. Len(m) -> Nat]
  BY <1>1 DEF Nested
<1>3. i \in 1 .. Len(m) - 1 /\ i \in 1 .. Len(m)
  BY <1>2
<1>4. p[i] \in Seq(PlainName) /\ d[i] \in Nat
  BY <1>1, <1>2, <1>3
<1>5. m[i] \in Tokens
  BY <1>1, <1>3, NamePlain
<1> QED
  BY <1>1, <1>2, <1>3, <1>4, <1>5

(* A hive is System, or the entry of its path. *)
LEMMA HiveHere ==
  ASSUME NEW m, NEW d, NEW p, Pathed(m, d, p), NEW x, HiveAt(m, d, x)
  PROVE  /\ x \in 1 .. Len(m) - 2 /\ Len(m) \in Nat
         /\ p[x + 1] \in Seq(PlainName) /\ Len(p[x + 1]) = d[x] /\ d[x] \in Nat /\ d[x + 1] = d[x] + 1
         /\ d[x] = 0 <=> x = 1
         /\ x # 1 => /\ x \in Items(m) /\ m[x + 1].w \in PlainName
                     /\ p[x] \in Seq(PlainName) /\ p[x + 1] = Append(p[x], m[x + 1].w)
                     /\ Entry(m, p, x) = [sig |-> "HIVE", path |-> p[x + 1], v |-> NULL]
<1>1. /\ Nested(m, d) /\ x \in 1 .. Len(m) /\ m[x].w = "HIVE" /\ Len(m) \in Nat
      /\ d \in [1 .. Len(m) -> Nat] /\ m[Len(m)].w = "ESAB" /\ d[1] = 0 /\ d[Len(m)] = 0
  BY DEF HiveAt, Nested
<1>2. x \in 1 .. Len(m) - 1 /\ d[x] \in Nat
  <2>1. x # Len(m)
    BY <1>1
  <2> QED
    BY <1>1, <2>1
<1>3. d[x + 1] = d[x] + 1
  BY <1>1, <1>2 DEF Nested
<1>4. x \in 1 .. Len(m) - 2
  <2>1. x + 1 # Len(m)
    BY <1>1, <1>2, <1>3
  <2> QED
    BY <1>1, <1>2, <2>1
<1>5. x + 1 \in 2 .. Len(m) - 1
  BY <1>1, <1>4
<1>6. p[x + 1] \in Seq(PlainName) /\ Len(p[x + 1]) = d[x + 1] - 1
  BY <1>5, PathAt
<1>7. Len(p[x + 1]) = d[x]
  BY <1>2, <1>3, <1>6
<1>8. ASSUME x # 1
      PROVE  /\ x \in Items(m) /\ m[x + 1].w \in PlainName /\ d[x] > 0
             /\ p[x] \in Seq(PlainName) /\ p[x + 1] = Append(p[x], m[x + 1].w)
             /\ Entry(m, p, x) = [sig |-> "HIVE", path |-> p[x + 1], v |-> NULL]
  <2>1. x \in 2 .. Len(m) - 1
    BY <1>1, <1>4, <1>8
  <2>2. x \in Items(m)
    BY <1>1, <2>1 DEF Items, IsEntry
  <2>3. m[x + 1].w \in PlainName
    BY <1>1, <1>2, NamePlain
  <2>4. p[x] \in Seq(PlainName) /\ d[x] > 0
    BY <2>1, PathAt
  <2>5. p[x + 1] = Append(p[x], m[x + 1].w)
    BY <1>1, <2>1 DEF Pathed, PathStep
  <2>6. Entry(m, p, x) = [sig |-> "HIVE", path |-> p[x + 1], v |-> NULL]
    BY <1>1, <2>5 DEF Entry, EntryOf
  <2> QED
    BY <2>2, <2>3, <2>4, <2>5, <2>6
<1> QED
  BY <1>1, <1>2, <1>3, <1>4, <1>6, <1>7, <1>8

(* A path is that of one hive only. *)
LEMMA OneHive ==
  ASSUME NEW m, NEW d, NEW p, Pathed(m, d, p), Distinct(m, p),
         NEW x, HiveAt(m, d, x), NEW y, HiveAt(m, d, y), p[x + 1] = p[y + 1]
  PROVE  x = y
<1>1. d[x] = d[y] /\ (d[x] = 0 <=> x = 1) /\ (d[y] = 0 <=> y = 1)
  BY HiveHere
<1>2. ASSUME x # 1, y # 1 PROVE x = y
  <2>1. /\ x \in Items(m) /\ Entry(m, p, x) = [sig |-> "HIVE", path |-> p[x + 1], v |-> NULL]
    BY <1>2, HiveHere
  <2>2. /\ y \in Items(m) /\ Entry(m, p, y) = [sig |-> "HIVE", path |-> p[y + 1], v |-> NULL]
    BY <1>2, HiveHere
  <2>3. SameKey(Entry(m, p, x), Entry(m, p, y))
    BY <2>1, <2>2 DEF SameKey
  <2> QED
    BY <2>1, <2>2, <2>3 DEF Distinct
<1> QED
  BY <1>1, <1>2

(* Every token is in a hive, which has the path of the token. *)
LEMMA Parent ==
  ASSUME NEW m, NEW d, NEW p, Pathed(m, d, p), NEW i \in 2 .. Len(m) - 1,
         NEW q \in Seq(PlainName), Starts(q, p[i])
  PROVE  \E y \in 1 .. i - 1 : /\ HiveAt(m, d, y) /\ p[y + 1] = q
                               /\ \A l \in y + 1 .. i : d[l] > d[y]
<1>1. /\ p[i] \in Seq(PlainName) /\ Len(p[i]) = d[i] - 1 /\ d[i] \in Nat /\ d[i] > 0
      /\ Len(m) \in Nat /\ Nested(m, d)
  BY PathAt
<1>2. PICK k : k = Len(q)
  OBVIOUS
<1>3. k \in Nat /\ k <= Len(p[i])
  BY <1>2 DEF Starts
<1>4. k < d[i]
  BY <1>1, <1>3
<1>5. PICK y \in 1 .. i - 1 : m[y].w = "HIVE" /\ d[y] = k /\ \A l \in y + 1 .. i : d[l] > k
  BY <1>1, <1>3, <1>4, Encloses
<1>6. y \in 1 .. Len(m)
  BY <1>1
<1>7. HiveAt(m, d, y)
  BY <1>1, <1>5, <1>6 DEF HiveAt
<1>8. PICK z : z = p[y + 1]
  OBVIOUS
<1>9. i \in y + 1 .. Len(m) - 1
  BY <1>1
<1>10. Starts(z, p[i]) /\ Len(z) = d[y]
  BY <1>5, <1>7, <1>8, <1>9, InsideStarts
<1>11. z \in Seq(PlainName)
  BY <1>7, <1>8, HiveHere
<1>12. z = q
  <2>1. Len(z) = Len(q)
    BY <1>2, <1>5, <1>10
  <2>2. \A n \in 1 .. Len(z) : z[n] = q[n]
    BY <1>10, <2>1 DEF Starts
  <2> QED
    BY <1>11, <2>1, <2>2, SeqEqual
<1> QED
  BY <1>5, <1>7, <1>8, <1>12

(* The tokens in a hive are those that have a path that begins with its. *)
LEMMA InHive ==
  ASSUME NEW m, NEW d, NEW p, Pathed(m, d, p), Distinct(m, p),
         NEW x, HiveAt(m, d, x), NEW e, EndsHive(m, d, x, e), NEW i \in 2 .. Len(m) - 1
  PROVE  i \in x + 1 .. e <=> Starts(p[x + 1], p[i])
<1>1. /\ x \in 1 .. Len(m) - 2 /\ Len(m) \in Nat /\ p[x + 1] \in Seq(PlainName) /\ d[x] \in Nat
  BY HiveHere
<1>2. /\ e \in x + 2 .. Len(m) - 1 /\ m[e].w = "EVIH" /\ d[e] = d[x] + 1
      /\ \A l \in x + 1 .. e : d[l] > d[x]
  BY DEF EndsHive
<1>3. ASSUME i \in x + 1 .. e PROVE Starts(p[x + 1], p[i])
  <2>1. i \in x + 1 .. Len(m) - 1 /\ \A l \in x + 1 .. i : l \in x + 1 .. e
    BY <1>1, <1>2, <1>3
  <2>2. \A l \in x + 1 .. i : d[l] > d[x]
    BY <1>2, <2>1
  <2> QED
    BY <2>1, <2>2, InsideStarts
<1>4. ASSUME Starts(p[x + 1], p[i]) PROVE i \in x + 1 .. e
  <2>1. PICK y \in 1 .. i - 1 : /\ HiveAt(m, d, y) /\ p[y + 1] = p[x + 1]
                                /\ \A l \in y + 1 .. i : d[l] > d[y]
    BY <1>1, <1>4, Parent
  <2>2. y = x
    BY <2>1, OneHive
  <2>3. i >= x + 1
    BY <1>1, <2>2
  <2>4. d[e + 1] = d[x]
    <3>1. e \in 1 .. Len(m) - 1 /\ e + 1 \in 1 .. Len(m)
      BY <1>1, <1>2
    <3>2. Nested(m, d)
      BY DEF Pathed
    <3>3. d[e] = d[e + 1] + 1 /\ d[e + 1] \in Nat
      BY <1>2, <3>1, <3>2 DEF Nested
    <3> QED
      BY <1>1, <1>2, <3>3
  <2>5. ~ (i > e)
    <3> SUFFICES ASSUME i > e PROVE FALSE
      OBVIOUS
    <3>1. e + 1 \in y + 1 .. i
      BY <1>1, <1>2, <2>2
    <3>2. d[e + 1] > d[y]
      BY <2>1, <3>1
    <3> QED
      BY <1>1, <2>2, <2>4, <3>2
  <2> QED
    BY <1>1, <1>2, <2>3, <2>5
<1> QED
  BY <1>3, <1>4

(* What the entry of an item is. *)
LEMMA EntryHere ==
  ASSUME NEW m, NEW d, NEW p, Pathed(m, d, p), NEW i \in Items(m)
  PROVE  /\ i \in 2 .. Len(m) - 1 /\ m[i].w \in {"HIVE", "CELL"}
         /\ Entry(m, p, i).sig = m[i].w
         /\ \E name \in PlainName :
              /\ name = (IF m[i].w = "HIVE" THEN m[i + 1].w ELSE m[i].name)
              /\ Entry(m, p, i).path = Append(p[i], name)
         /\ Entry(m, p, i).path \in Seq(PlainName)
         /\ p[i] \in Seq(PlainName)
<1>1. i \in 2 .. Len(m) - 1 /\ m[i].w \in {"HIVE", "CELL"}
  BY DEF Items, IsEntry
<1>2. PICK name : name = IF m[i].w = "HIVE" THEN m[i + 1].w ELSE m[i].name
  OBVIOUS
<1>3. p[i] \in Seq(PlainName) /\ i \in 1 .. Len(m) - 1 /\ Nested(m, d)
  BY <1>1, PathAt
<1>4. name \in PlainName
  BY <1>1, <1>2, <1>3, NamePlain
<1>5. Entry(m, p, i).sig = m[i].w /\ Entry(m, p, i).path = Append(p[i], name)
  BY <1>2 DEF Entry, EntryOf
<1>6. Append(p[i], name) \in Seq(PlainName)
  BY <1>3, <1>4
<1> QED
  BY <1>1, <1>2, <1>3, <1>4, <1>5, <1>6

(* The key of an entry that is looked for. *)
HasKey(e, sig, path) == e.sig = sig /\ e.path = path

(* The walk to an item of a hive finds the entry with that name. *)
LEMMA FindItemEntry ==
  ASSUME NEW m, NEW d, NEW p, Pathed(m, d, p), Distinct(m, p),
         NEW x, HiveAt(m, d, x), NEW name \in PlainName, NEW sig \in {"HIVE", "CELL"},
         NEW j, j = FindItem(m, x, name, sig)
  PROVE  /\ j # NULL => /\ j \in Items(m) /\ j \in x + 2 .. Len(m) - 1 /\ m[j].w = sig
                        /\ HasKey(Entry(m, p, j), sig, Append(p[x + 1], name))
         /\ j = NULL => \A i \in Items(m) : ~ HasKey(Entry(m, p, i), sig, Append(p[x + 1], name))
<1>1. /\ x \in 1 .. Len(m) - 2 /\ Len(m) \in Nat /\ p[x + 1] \in Seq(PlainName) /\ d[x] \in Nat
      /\ Len(p[x + 1]) = d[x]
  BY HiveHere
<1>2. Nested(m, d) /\ x \in 1 .. Len(m) /\ m[x].w = "HIVE"
  BY DEF HiveAt
<1>3. PICK e : EndsHive(m, d, x, e)
  BY <1>2, EndTagFound
<1>4. e \in x + 2 .. Len(m) - 1 /\ m[e].w = "EVIH"
  BY <1>3 DEF EndsHive
<1>5. \/ ItemIn(m, d, x, e, name, sig, j)
      \/ j = NULL /\ \A i \in Nat : ~ ItemIn(m, d, x, e, name, sig, i)
  BY <1>2, <1>3, ItemFound
<1>6. PICK q : q = p[x + 1]
  OBVIOUS
<1>7. ASSUME j # NULL
      PROVE  /\ j \in Items(m) /\ j \in x + 2 .. Len(m) - 1 /\ m[j].w = sig
             /\ HasKey(Entry(m, p, j), sig, Append(q, name))
  <2>1. j \in x + 2 .. e - 1 /\ IsItem(m, name, sig, j) /\ d[j] = d[x] + 1
    BY <1>5, <1>7 DEF ItemIn
  <2>2. j \in x + 2 .. Len(m) - 1 /\ j \in 2 .. Len(m) - 1 /\ j \in x + 1 .. e
    BY <1>1, <1>4, <2>1
  <2>3. m[j].w = sig /\ (IF sig = "HIVE" THEN m[j + 1].w ELSE m[j].name) = name
    BY <2>1 DEF IsItem
  <2>4. Starts(q, p[j])
    BY <1>3, <1>6, <2>2, InHive
  <2>5. p[j] \in Seq(PlainName) /\ Len(p[j]) = d[j] - 1
    BY <2>2, PathAt
  <2>6. Len(p[j]) = Len(q)
    BY <1>1, <1>6, <2>1, <2>5
  <2>7. p[j] = q
    BY <1>1, <1>6, <2>4, <2>5, <2>6, StartsSame
  <2>8. j \in Items(m)
    BY <2>2, <2>3 DEF Items, IsEntry
  <2>9. HasKey(Entry(m, p, j), sig, Append(q, name))
    BY <2>3, <2>7 DEF Entry, EntryOf, HasKey
  <2> QED
    BY <2>2, <2>3, <2>8, <2>9
<1>8. ASSUME j = NULL, NEW i \in Items(m), HasKey(Entry(m, p, i), sig, Append(q, name))
      PROVE  FALSE
  <2>1. /\ i \in 2 .. Len(m) - 1 /\ m[i].w = sig
    BY <1>8, EntryHere DEF HasKey
  <2>2. PICK nm \in PlainName : /\ nm = (IF m[i].w = "HIVE" THEN m[i + 1].w ELSE m[i].name)
                                /\ Append(p[i], nm) = Append(q, name)
    BY <1>8, EntryHere DEF HasKey
  <2>3. p[i] \in Seq(PlainName) /\ Len(p[i]) = d[i] - 1 /\ d[i] \in Nat
    BY <2>1, PathAt
  <2>4. p[i] = q /\ nm = name
    <3>1. PICK u : u = p[i]
      OBVIOUS
    <3>2. u \in Seq(PlainName) /\ q \in Seq(PlainName) /\ Append(u, nm) = Append(q, name)
      BY <1>1, <1>6, <2>2, <2>3, <3>1
    <3>3. u = q /\ nm = name
      BY <3>2, AppendSame
    <3> QED
      BY <3>1, <3>3
  <2>5. Starts(q, p[i])
    BY <1>1, <1>6, <2>4, StartsSelf
  <2>6. i \in x + 1 .. e
    BY <1>3, <1>6, <2>1, <2>5, InHive
  <2>7. IsItem(m, name, sig, i)
    BY <2>1, <2>2, <2>4 DEF IsItem
  <2>8. i # e
    BY <1>4, <2>1
  <2>9. i # x + 1
    <3>1. x \in 1 .. Len(m) - 1
      BY <1>1
    <3>2. m[x + 1].w \notin SigWords
      BY <1>2, <3>1, NamePlain
    <3> QED
      BY <2>1, <3>2 DEF SigWords
  <2>10. i \in x + 2 .. e - 1 /\ i \in Nat
    BY <1>1, <1>4, <2>6, <2>8, <2>9
  <2>11. d[i] = d[x] + 1
    BY <1>1, <1>6, <2>3, <2>4
  <2>12. ItemIn(m, d, x, e, name, sig, i)
    BY <2>7, <2>10, <2>11 DEF ItemIn
  <2>13. ~ ItemIn(m, d, x, e, name, sig, j)
    <3>1. ~ (j \in x + 2 .. e - 1)
      BY <1>1, <1>4, <1>8 DEF NULL
    <3> QED
      BY <3>1 DEF ItemIn
  <2> QED
    BY <1>5, <2>10, <2>12, <2>13
<1> QED
  BY <1>6, <1>7, <1>8

-----------------------------------------------------------------------------
(* The walks find the item of a path. *)

(* The beginning of a path, and the next name. *)
LEMMA BeginningNext ==
  ASSUME NEW S, NEW path \in Seq(S), NEW k \in Nat, k + 1 <= Len(path)
  PROVE  /\ SubSeq(path, 1, k) \in Seq(S) /\ path[k + 1] \in S
         /\ SubSeq(path, 1, k + 1) = Append(SubSeq(path, 1, k), path[k + 1])
         /\ Len(SubSeq(path, 1, k)) = k
         /\ SubSeq(path, 1, k + 1) # <<>>
<1>1. Len(path) \in Nat /\ \A i \in 1 .. Len(path) : path[i] \in S
  OBVIOUS
<1>2. \A i \in 1 .. k + 1 : path[i] \in S
  BY <1>1
<1>3. PICK f, g, w : f = SubSeq(path, 1, k) /\ g = SubSeq(path, 1, k + 1) /\ w = path[k + 1]
  OBVIOUS
<1>4. f \in Seq(S) /\ Len(f) = k /\ \A i \in 1 .. k : f[i] = path[i]
  <2>1. \A i \in 1 .. k : path[i] \in S
    BY <1>2
  <2> QED
    BY <1>3, <2>1, SubSeqProperties
<1>5. g \in Seq(S) /\ Len(g) = k + 1 /\ \A i \in 1 .. k + 1 : g[i] = path[i]
  BY <1>2, <1>3, SubSeqProperties
<1>6. w \in S
  BY <1>2, <1>3
<1>7. PICK z : z = Append(f, w)
  OBVIOUS
<1>8. z \in Seq(S) /\ Len(z) = k + 1 /\ (\A i \in 1 .. k : z[i] = f[i]) /\ z[k + 1] = w
  BY <1>4, <1>6, <1>7, AppendProperties
<1>9. \A i \in 1 .. Len(z) : z[i] = g[i]
  BY <1>3, <1>4, <1>5, <1>8
<1>10. z = g
  BY <1>5, <1>8, <1>9, SeqEqual
<1>11. g # <<>>
  BY <1>5
<1> QED
  BY <1>3, <1>4, <1>6, <1>7, <1>10, <1>11

(* Before the first name of a path there is nothing. *)
LEMMA BeginningNone ==
  ASSUME NEW path
  PROVE  SubSeq(path, 1, 0) = <<>>
BY SubSeqEmpty

(* There is a hive for every path that an item is in. *)
LEMMA HiveOfItem ==
  ASSUME NEW m, NEW d, NEW p, Pathed(m, d, p), NEW i \in Items(m),
         NEW q \in Seq(PlainName), NEW w \in PlainName, Entry(m, p, i).path = Append(q, w), q # <<>>
  PROVE  \E y \in Items(m) : HasKey(Entry(m, p, y), "HIVE", q)
<1>1. i \in 2 .. Len(m) - 1 /\ p[i] \in Seq(PlainName)
  BY EntryHere
<1>2. PICK name \in PlainName : Entry(m, p, i).path = Append(p[i], name)
  BY EntryHere
<1>3. p[i] = q
  BY <1>1, <1>2, AppendSame
<1>4. Starts(q, p[i])
  BY <1>3, StartsSelf
<1>5. PICK y \in 1 .. i - 1 : HiveAt(m, d, y) /\ p[y + 1] = q
  BY <1>1, <1>4, Parent
<1>6. y # 1
  <2>1. p[1 + 1] = <<>>
    BY DEF Pathed
  <2> QED
    BY <1>5, <2>1
<1>7. y \in Items(m) /\ Entry(m, p, y) = [sig |-> "HIVE", path |-> p[y + 1], v |-> NULL]
  BY <1>5, <1>6, HiveHere
<1>8. HasKey(Entry(m, p, y), "HIVE", q)
  BY <1>5, <1>7 DEF HasKey
<1> QED
  BY <1>7, <1>8

(* The hive that is found for a path has that path, and if none is found there
   is none. *)
LEMMA FindHiveEntry ==
  ASSUME NEW m, NEW d, NEW p, Pathed(m, d, p), Distinct(m, p),
         NEW names \in Seq(PlainName), NEW x, x = FindHive(m, names)
  PROVE  /\ x # NULL => HiveAt(m, d, x) /\ p[x + 1] = names
         /\ x = NULL => /\ names # <<>>
                        /\ \A i \in Items(m) : ~ HasKey(Entry(m, p, i), "HIVE", names)
<1>0. Len(names) \in Nat
  OBVIOUS
<1>1. PICK f : Trail(m, names, f) /\ FindHive(m, names) = f[Len(names)]
  BY <1>0, FindHiveIs
<1> DEFINE Right(y, q) ==
             /\ y # NULL => HiveAt(m, d, y) /\ p[y + 1] = q
             /\ y = NULL => q # <<>> /\ \A i \in Items(m) : ~ HasKey(Entry(m, p, i), "HIVE", q)
           S == {k \in Nat : k <= Len(names) => Right(f[k], SubSeq(names, 1, k))}
<1>2. 0 \in S
  <2>1. f[0] = 1 /\ SubSeq(names, 1, 0) = <<>>
    BY <1>1, BeginningNone DEF Trail
  <2>2. Nested(m, d) /\ 1 \in 1 .. Len(m) /\ m[1].w = "HIVE" /\ p[1 + 1] = <<>>
    BY DEF Pathed, Nested
  <2>3. HiveAt(m, d, 1)
    BY <2>2 DEF HiveAt
  <2>4. Right(1, <<>>)
    BY <2>2, <2>3 DEF NULL
  <2> HIDE DEF Right
  <2> QED
    BY <2>1, <2>4
<1>3. ASSUME NEW k \in Nat, k \in S PROVE k + 1 \in S
  <2> HIDE DEF Right
  <2> SUFFICES ASSUME k + 1 <= Len(names) PROVE Right(f[k + 1], SubSeq(names, 1, k + 1))
    OBVIOUS
  <2>1. k + 1 \in 1 .. Len(names) /\ k + 1 - 1 = k /\ k <= Len(names)
    BY <1>0
  <2>2. PICK y, z, name, q : y = f[k] /\ z = f[k + 1] /\ name = names[k + 1] /\ q = SubSeq(names, 1, k)
    OBVIOUS
  <2>3. Right(y, q)
    BY <1>3, <2>1, <2>2
  <2>4. /\ q \in Seq(PlainName) /\ name \in PlainName /\ SubSeq(names, 1, k + 1) = Append(q, name)
        /\ Append(q, name) # <<>>
    BY <2>2, BeginningNext
  <2>5. z = IF y = NULL THEN NULL ELSE FindItem(m, y, name, "HIVE")
    BY <1>1, <2>1, <2>2 DEF Trail
  <2>6. Right(z, Append(q, name))
    <3>1. CASE y = NULL
      <4>1. z = NULL /\ q # <<>> /\ \A i \in Items(m) : ~ HasKey(Entry(m, p, i), "HIVE", q)
        BY <2>3, <2>5, <3>1 DEF Right
      <4>2. ASSUME NEW i \in Items(m), HasKey(Entry(m, p, i), "HIVE", Append(q, name)) PROVE FALSE
        <5>1. Entry(m, p, i).path = Append(q, name)
          BY <4>2 DEF HasKey
        <5> QED
          BY <2>4, <4>1, <5>1, HiveOfItem
      <4> QED
        BY <2>4, <4>1, <4>2 DEF Right
    <3>2. CASE y # NULL
      <4>1. HiveAt(m, d, y) /\ p[y + 1] = q /\ z = FindItem(m, y, name, "HIVE")
        BY <2>3, <2>5, <3>2 DEF Right
      <4>2. /\ z # NULL => /\ z \in Items(m) /\ m[z].w = "HIVE"
                           /\ HasKey(Entry(m, p, z), "HIVE", Append(p[y + 1], name))
            /\ z = NULL => \A i \in Items(m) : ~ HasKey(Entry(m, p, i), "HIVE", Append(p[y + 1], name))
        BY <2>4, <4>1, FindItemEntry
      <4>3. ASSUME z # NULL PROVE HiveAt(m, d, z) /\ p[z + 1] = Append(q, name)
        <5>1. z \in 2 .. Len(m) - 1 /\ m[z].w = "HIVE"
          BY <4>2, <4>3, EntryHere
        <5>2. Nested(m, d) /\ z \in 1 .. Len(m)
          BY <5>1, PathAt
        <5>3. HiveAt(m, d, z)
          BY <5>1, <5>2 DEF HiveAt
        <5>4. z # 1
          BY <5>1
        <5>5. Entry(m, p, z) = [sig |-> "HIVE", path |-> p[z + 1], v |-> NULL]
          BY <5>3, <5>4, HiveHere
        <5>6. Entry(m, p, z).path = p[z + 1]
          BY <5>5
        <5> QED
          BY <4>1, <4>2, <4>3, <5>3, <5>6 DEF HasKey
      <4> QED
        BY <2>4, <4>1, <4>2, <4>3 DEF Right
    <3> QED
      BY <3>1, <3>2
  <2> QED
    BY <2>2, <2>4, <2>6
<1>4. Len(names) \in S
  <2> HIDE DEF S
  <2> QED
    BY <1>0, <1>2, <1>3, SetInduction
<1>5. Right(f[Len(names)], names)
  <2> HIDE DEF Right
  <2>1. Right(f[Len(names)], SubSeq(names, 1, Len(names)))
    BY <1>0, <1>4
  <2>2. SubSeq(names, 1, Len(names)) = names
    BY SubSeqFull
  <2> QED
    BY <2>1, <2>2
<1> QED
  BY <1>1, <1>5

(* What is found for a path is the entry with that path, and if nothing is
   found there is none. *)
LEMMA FindInEntry ==
  ASSUME NEW m, NEW d, NEW p, Pathed(m, d, p), Distinct(m, p),
         NEW path \in Seq(PlainName), path # <<>>, NEW sig \in {"HIVE", "CELL"},
         NEW at, at = FindIn(m, path, sig)
  PROVE  /\ at # NULL => at \in Items(m) /\ m[at].w = sig /\ HasKey(Entry(m, p, at), sig, path)
         /\ at = NULL => \A i \in Items(m) : ~ HasKey(Entry(m, p, i), sig, path)
<1>1. PICK q, name : q = Front(path) /\ name = Last(path)
  OBVIOUS
<1>2. q \in Seq(PlainName) /\ name \in PlainName /\ path = Append(q, name)
  BY <1>1, FrontLast
<1>3. PICK x : x = FindHive(m, q)
  OBVIOUS
<1>4. at = IF x = NULL THEN NULL ELSE FindItem(m, x, name, sig)
  BY <1>1, <1>3 DEF FindIn
<1>5. CASE x = NULL
  <2>1. at = NULL /\ q # <<>> /\ \A i \in Items(m) : ~ HasKey(Entry(m, p, i), "HIVE", q)
    BY <1>2, <1>3, <1>4, <1>5, FindHiveEntry
  <2>2. ASSUME NEW i \in Items(m), HasKey(Entry(m, p, i), sig, path) PROVE FALSE
    <3>1. Entry(m, p, i).path = Append(q, name)
      BY <1>2, <2>2 DEF HasKey
    <3> QED
      BY <1>2, <2>1, <3>1, HiveOfItem
  <2> QED
    BY <2>1, <2>2
<1>6. CASE x # NULL
  <2>1. HiveAt(m, d, x) /\ p[x + 1] = q /\ at = FindItem(m, x, name, sig)
    BY <1>2, <1>3, <1>4, <1>6, FindHiveEntry
  <2>2. /\ at # NULL => /\ at \in Items(m) /\ m[at].w = sig
                        /\ HasKey(Entry(m, p, at), sig, Append(p[x + 1], name))
        /\ at = NULL => \A i \in Items(m) : ~ HasKey(Entry(m, p, i), sig, Append(p[x + 1], name))
    BY <1>2, <2>1, FindItemEntry
  <2> QED
    BY <1>2, <2>1, <2>2
<1> QED
  BY <1>5, <1>6

-----------------------------------------------------------------------------
(* Tokens put in or taken out, and the paths of the others. *)

(* The token at i of one stream is that at o of the other, in the same hive. *)
SamePlace(x, g, i, m, p, o) ==
  /\ x[i] = m[o] /\ g[i] = p[o] /\ g[i + 1] = p[o + 1]
  /\ m[o].w = "HIVE" => x[i + 1] = m[o + 1]

(* T can be put between a and b without a change to what is around it. *)
Joins(m, p, a, T, h, b) ==
  /\ m \in Seq(Tokens) /\ T \in Seq(Tokens) /\ Len(m) \in Nat /\ Len(T) \in Nat
  /\ a \in 1 .. Len(m) - 1 /\ b \in a + 1 .. Len(m)
  /\ m[a].w # "HIVE" /\ (Len(T) > 0 => T[Len(T)].w # "HIVE")
  /\ h[1] = p[a + 1] /\ h[Len(T) + 1] = p[b]

(* Where the tokens of a stream come from when tokens in it have been replaced. *)
LEMMA SplicePlaces ==
  ASSUME NEW m, NEW p, NEW a, NEW T, NEW h, NEW b, Joins(m, p, a, T, h, b),
         NEW x, x = Splice(m, a, T, b), NEW g, g = SpliceDepth(m, p, a, T, h, b),
         NEW N, N = Len(T), NEW L, L = Len(m)
  PROVE  /\ Len(x) = a + N + (L - b + 1) /\ x \in Seq(Tokens) /\ DOMAIN g = 1 .. Len(x)
         /\ g = [i \in DOMAIN g |-> g[i]]
         /\ \A i \in 1 .. Len(x) - 1 :
              \/ i \in 1 .. a /\ SamePlace(x, g, i, m, p, i)
              \/ i \in a + 1 .. a + N /\ i - a \in 1 .. N /\ SamePlace(x, g, i, T, h, i - a)
              \/ /\ i \in a + N + 1 .. Len(x) - 1 /\ i - a - N + b - 1 \in b .. L - 1
                 /\ SamePlace(x, g, i, m, p, i - a - N + b - 1)
         /\ g[Len(x)] = p[L]
<1> DEFINE R == a + N + (L - b + 1)
<1>1. /\ L \in Nat /\ N \in Nat /\ a \in Nat /\ b \in Nat /\ a >= 1 /\ a < b /\ b <= L
      /\ m \in Seq(Tokens) /\ T \in Seq(Tokens)
  BY DEF Joins
<1>2. /\ x \in Seq(Tokens) /\ Len(x) = R
      /\ \A i \in 1 .. R : x[i] = IF i <= a THEN m[i] ELSE IF i <= a + N THEN T[i - a]
                                  ELSE m[i - a - N + b - 1]
  <2>1. a \in 0 .. Len(m) /\ b \in a + 1 .. Len(m) + 1
    BY <1>1
  <2>2. /\ Splice(m, a, T, b) \in Seq(Tokens)
        /\ Len(Splice(m, a, T, b)) = a + Len(T) + (Len(m) - b + 1)
        /\ \A i \in 1 .. a + Len(T) + (Len(m) - b + 1) :
             Splice(m, a, T, b)[i] = IF i <= a THEN m[i] ELSE IF i <= a + Len(T) THEN T[i - a]
                                     ELSE m[i - a - Len(T) + b - 1]
    <3>1. m \in Seq(Tokens) /\ T \in Seq(Tokens)
      BY <1>1
    <3> QED
      BY <2>1, <3>1, SpliceIs, Zenon
  <2> QED
    BY <2>2
<1>3. /\ DOMAIN g = 1 .. R /\ g = [i \in DOMAIN g |-> g[i]]
      /\ \A i \in 1 .. R : g[i] = IF i <= a THEN p[i] ELSE IF i <= a + N THEN h[i - a]
                                  ELSE p[i - a - N + b - 1]
  <2>1. g = [i \in 1 .. a + Len(T) + (Len(m) - b + 1) |->
               IF i <= a THEN p[i] ELSE IF i <= a + Len(T) THEN h[i - a] ELSE p[i - a - Len(T) + b - 1]]
    BY DEF SpliceDepth
  <2>2. g = [i \in 1 .. R |-> IF i <= a THEN p[i] ELSE IF i <= a + N THEN h[i - a]
                               ELSE p[i - a - N + b - 1]]
    BY <2>1
  <2> HIDE DEF R
  <2> QED
    BY <2>2
<1>4. R \in Nat
  BY <1>1
<1>5. ASSUME NEW i \in 1 .. R - 1
      PROVE  \/ i \in 1 .. a /\ SamePlace(x, g, i, m, p, i)
             \/ i \in a + 1 .. a + N /\ i - a \in 1 .. N /\ SamePlace(x, g, i, T, h, i - a)
             \/ /\ i \in a + N + 1 .. R - 1 /\ i - a - N + b - 1 \in b .. L - 1
                /\ SamePlace(x, g, i, m, p, i - a - N + b - 1)
  <2>0. i \in 1 .. R /\ i + 1 \in 1 .. R /\ i \in Nat
    BY <1>4
  <2>1. CASE i < a
    <3>1. i <= a /\ i + 1 <= a /\ i \in 1 .. a
      BY <1>1, <2>0, <2>1
    <3>2. x[i] = m[i] /\ x[i + 1] = m[i + 1] /\ g[i] = p[i] /\ g[i + 1] = p[i + 1]
      BY <1>2, <1>3, <2>0, <3>1
    <3> QED
      BY <3>1, <3>2 DEF SamePlace
  <2>2. CASE i = a
    <3>1. i \in 1 .. a /\ i <= a /\ ~ (i + 1 <= a) /\ (i + 1) - a = 1
      BY <1>1, <2>2
    <3>2. x[i] = m[i] /\ g[i] = p[i]
      BY <1>2, <1>3, <2>0, <3>1
    <3>3. g[i + 1] = p[i + 1]
      <4>1. CASE N > 0
        <5>1. i + 1 <= a + N
          BY <1>1, <2>2, <4>1
        <5>2. g[i + 1] = h[(i + 1) - a]
          BY <1>3, <2>0, <3>1, <5>1
        <5> QED
          BY <2>2, <3>1, <5>2 DEF Joins
      <4>2. CASE ~ (N > 0)
        <5>1. N = 0 /\ ~ (i + 1 <= a + N) /\ (i + 1) - a - N + b - 1 = b /\ N + 1 = 1
          BY <1>1, <2>2, <4>2
        <5>2. g[i + 1] = p[(i + 1) - a - N + b - 1]
          BY <1>3, <2>0, <3>1, <5>1
        <5>3. h[1] = p[a + 1] /\ h[N + 1] = p[b]
          BY DEF Joins
        <5>4. g[i + 1] = p[b]
          BY <5>1, <5>2
        <5>5. h[N + 1] = h[1]
          BY <5>1
        <5> QED
          BY <2>2, <5>3, <5>4, <5>5
      <4> QED
        BY <4>1, <4>2
    <3>4. m[i].w # "HIVE"
      BY <2>2 DEF Joins
    <3> QED
      BY <3>1, <3>2, <3>3, <3>4 DEF SamePlace
  <2>3. CASE i > a /\ i < a + N
    <3>1. /\ i \in a + 1 .. a + N /\ ~ (i <= a) /\ i <= a + N /\ i - a \in 1 .. N
          /\ ~ (i + 1 <= a) /\ i + 1 <= a + N /\ (i + 1) - a = (i - a) + 1
      BY <1>1, <2>0, <2>3
    <3>2. x[i] = T[i - a] /\ g[i] = h[i - a]
      BY <1>2, <1>3, <2>0, <3>1
    <3>3. x[i + 1] = T[(i + 1) - a] /\ g[i + 1] = h[(i + 1) - a]
      BY <1>2, <1>3, <2>0, <3>1
    <3> QED
      BY <3>1, <3>2, <3>3 DEF SamePlace
  <2>4. CASE i > a /\ i = a + N
    <3>1. /\ i \in a + 1 .. a + N /\ ~ (i <= a) /\ i <= a + N /\ i - a \in 1 .. N /\ i - a = N
          /\ ~ (i + 1 <= a) /\ ~ (i + 1 <= a + N) /\ (i + 1) - a - N + b - 1 = b /\ N > 0
      BY <1>1, <2>0, <2>4
    <3>2. x[i] = T[i - a] /\ g[i] = h[i - a]
      BY <1>2, <1>3, <2>0, <3>1
    <3>3. g[i + 1] = p[(i + 1) - a - N + b - 1]
      BY <1>3, <2>0, <3>1
    <3>4. h[N + 1] = p[b] /\ T[N].w # "HIVE"
      BY <3>1 DEF Joins
    <3>5. g[i + 1] = h[N + 1]
      BY <3>1, <3>3, <3>4
    <3> QED
      BY <3>1, <3>2, <3>4, <3>5 DEF SamePlace
  <2>5. CASE i > a + N
    <3> DEFINE o == i - a - N + b - 1
    <3>1. /\ i \in a + N + 1 .. R - 1 /\ ~ (i <= a) /\ ~ (i <= a + N) /\ o \in b .. L - 1
          /\ ~ (i + 1 <= a) /\ ~ (i + 1 <= a + N) /\ (i + 1) - a - N + b - 1 = o + 1
      BY <1>1, <2>0, <2>5
    <3>2. x[i] = m[o] /\ g[i] = p[o]
      BY <1>2, <1>3, <2>0, <3>1
    <3>3. x[i + 1] = m[(i + 1) - a - N + b - 1] /\ g[i + 1] = p[(i + 1) - a - N + b - 1]
      BY <1>2, <1>3, <2>0, <3>1
    <3> HIDE DEF o
    <3>4. SamePlace(x, g, i, m, p, o)
      BY <3>1, <3>2, <3>3 DEF SamePlace
    <3> QED
      BY <3>1, <3>4 DEF o
  <2> QED
    BY <1>1, <2>0, <2>1, <2>2, <2>3, <2>4, <2>5
<1>6. g[R] = p[L]
  <2>1. R \in 1 .. R /\ ~ (R <= a) /\ ~ (R <= a + N) /\ R - a - N + b - 1 = L
    BY <1>1
  <2>2. g[R] = p[R - a - N + b - 1]
    BY <1>3, <2>1
  <2> QED
    BY <2>1, <2>2
<1> QED
  BY <1>2, <1>3, <1>5, <1>6

(* The paths of what may be put into a stream. *)
PathsOf(T, c, h) ==
  /\ h \in [1 .. Len(T) + 1 -> Seq(PlainName)]
  /\ \A i \in 1 .. Len(T) : Len(h[i]) = c[i] - 1 /\ PathStep(T[i], T[i + 1], h[i], h[i + 1])

(* T may replace what is between a and b, which begins and ends in one hive. *)
Replaces(m, d, p, a, T, c, h, b) ==
  /\ Pathed(m, d, p)
  /\ a \in 1 .. Len(m) - 1 /\ b \in a + 1 .. Len(m)
  /\ d[b] = d[a + 1] /\ d[b] > 0 /\ p[b] = p[a + 1] /\ ~ IsName(m[a + 1]) /\ ~ IsName(m[b])
  /\ Insertable(T, c, d[b]) /\ PathsOf(T, c, h) /\ h[1] = p[b] /\ h[Len(T) + 1] = p[b]

(* Tokens that replace others join those around them, by depth and by path. *)
LEMMA ReplaceJoins ==
  ASSUME NEW m, NEW d, NEW p, NEW a, NEW T, NEW c, NEW h, NEW b, Replaces(m, d, p, a, T, c, h, b)
  PROVE  Joins(m, p, a, T, h, b) /\ Joins(m, d, a, T, c, b)
<1>1. /\ Pathed(m, d, p) /\ a \in 1 .. Len(m) - 1 /\ b \in a + 1 .. Len(m)
      /\ d[b] = d[a + 1] /\ p[b] = p[a + 1] /\ ~ IsName(m[a + 1])
      /\ Insertable(T, c, d[b]) /\ h[1] = p[b] /\ h[Len(T) + 1] = p[b]
  BY DEF Replaces
<1>2. Nested(m, d) /\ m \in Seq(Tokens)
  BY <1>1 DEF Pathed, Nested
<1>3. m[a].w # "HIVE"
  BY <1>1, <1>2 DEF Nested
<1>4. /\ T \in Seq(Tokens) /\ (Len(T) > 0 => T[Len(T)].w # "HIVE")
      /\ c[1] = d[b] /\ c[Len(T) + 1] = d[b]
  BY <1>1 DEF Insertable
<1>5. Len(m) \in Nat /\ Len(T) \in Nat
  BY <1>2, <1>4
<1> QED
  BY <1>1, <1>2, <1>3, <1>4, <1>5 DEF Joins

(* A token that keeps its neighbour and its path keeps its entry, and leads on as before. *)
LEMMA StepPlace ==
  ASSUME NEW x, NEW g, NEW i, NEW m, NEW p, NEW o, SamePlace(x, g, i, m, p, o)
  PROVE  /\ PathStep(m[o], m[o + 1], p[o], p[o + 1]) => PathStep(x[i], x[i + 1], g[i], g[i + 1])
         /\ Entry(x, g, i) = Entry(m, p, o)
<1>1. PathStep(m[o], m[o + 1], p[o], p[o + 1]) => PathStep(x[i], x[i + 1], g[i], g[i + 1])
  BY DEF PathStep, SamePlace
<1>2. Entry(x, g, i) = Entry(m, p, o)
  <2>1. x[i] = m[o] /\ g[i] = p[o] /\ (m[o].w = "HIVE" => x[i + 1] = m[o + 1])
    BY DEF SamePlace
  <2>2. CASE m[o].w = "HIVE"
    BY <2>1, <2>2 DEF Entry
  <2>3. CASE m[o].w # "HIVE"
    BY <2>1, <2>3 DEF Entry, EntryOf
  <2> QED
    BY <2>2, <2>3
<1> QED
  BY <1>1, <1>2

(* A stream keeps its paths when tokens in it are replaced. *)
LEMMA SplicePathed ==
  ASSUME NEW m, NEW d, NEW p, NEW a, NEW T, NEW c, NEW h, NEW b, Replaces(m, d, p, a, T, c, h, b),
         NEW x, x = Splice(m, a, T, b), NEW f, f = SpliceDepth(m, d, a, T, c, b),
         NEW g, g = SpliceDepth(m, p, a, T, h, b)
  PROVE  Pathed(x, f, g)
<1>1. PICK N, L : N = Len(T) /\ L = Len(m)
  OBVIOUS
<1>2. Joins(m, p, a, T, h, b) /\ Joins(m, d, a, T, c, b)
  BY ReplaceJoins
<1>3. /\ Len(x) = a + N + (L - b + 1) /\ DOMAIN g = 1 .. Len(x) /\ g = [i \in DOMAIN g |-> g[i]]
      /\ \A i \in 1 .. Len(x) - 1 :
              \/ i \in 1 .. a /\ SamePlace(x, g, i, m, p, i)
              \/ i \in a + 1 .. a + N /\ i - a \in 1 .. N /\ SamePlace(x, g, i, T, h, i - a)
              \/ /\ i \in a + N + 1 .. Len(x) - 1 /\ i - a - N + b - 1 \in b .. L - 1
                 /\ SamePlace(x, g, i, m, p, i - a - N + b - 1)
      /\ g[Len(x)] = p[L]
  BY <1>1, <1>2, SplicePlaces
<1>4. /\ \A i \in 1 .. Len(x) - 1 :
              \/ i \in 1 .. a /\ SamePlace(x, f, i, m, d, i)
              \/ i \in a + 1 .. a + N /\ i - a \in 1 .. N /\ SamePlace(x, f, i, T, c, i - a)
              \/ /\ i \in a + N + 1 .. Len(x) - 1 /\ i - a - N + b - 1 \in b .. L - 1
                 /\ SamePlace(x, f, i, m, d, i - a - N + b - 1)
  BY <1>1, <1>2, SplicePlaces
<1>5. /\ Pathed(m, d, p) /\ a \in 1 .. Len(m) - 1 /\ b \in a + 1 .. Len(m)
      /\ d[b] = d[a + 1] /\ d[b] > 0 /\ ~ IsName(m[a + 1]) /\ ~ IsName(m[b])
      /\ Insertable(T, c, d[b]) /\ PathsOf(T, c, h)
  BY DEF Replaces
<1>6. Nested(m, d) /\ Nested(x, f)
  BY <1>5, SpliceNested DEF Pathed
<1>7. /\ L \in Nat /\ N \in Nat /\ a \in Nat /\ b \in Nat /\ a >= 1 /\ a < b /\ b <= L
      /\ Len(x) \in Nat /\ m[a].w # "HIVE" /\ m[1].w = "HIVE"
      /\ p \in [1 .. L -> Seq(PlainName)] /\ p[1] = <<>> /\ p[2] = <<>>
      /\ h \in [1 .. N + 1 -> Seq(PlainName)]
  <2>1. L \in Nat /\ N \in Nat /\ m[a].w # "HIVE"
    BY <1>1, <1>2 DEF Joins
  <2>2. m[1].w = "HIVE" /\ Len(x) \in Nat
    BY <1>6 DEF Nested
  <2>3. p \in [1 .. L -> Seq(PlainName)] /\ p[1] = <<>> /\ p[2] = <<>>
    BY <1>1, <1>5 DEF Pathed
  <2>4. h \in [1 .. N + 1 -> Seq(PlainName)]
    BY <1>1, <1>5 DEF PathsOf
  <2> QED
    BY <1>1, <1>5, <2>1, <2>2, <2>3, <2>4
<1>8. a >= 2
  <2>1. a # 1
    BY <1>7
  <2> QED
    BY <1>7, <2>1
<1>9. g[1] = <<>> /\ g[2] = <<>>
  <2>1. 1 \in 1 .. Len(x) - 1 /\ ~ (1 \in a + 1 .. a + N) /\ ~ (1 \in a + N + 1 .. Len(x) - 1)
    BY <1>3, <1>7, <1>8
  <2>2. SamePlace(x, g, 1, m, p, 1)
    BY <1>3, <2>1
  <2> QED
    BY <1>7, <2>2 DEF SamePlace
<1>10. ASSUME NEW i \in 1 .. Len(x) PROVE g[i] \in Seq(PlainName)
  <2>1. CASE i = Len(x)
    <3>1. p[L] \in Seq(PlainName)
      <4>1. L \in 1 .. L
        BY <1>7
      <4> QED
        BY <1>7, <4>1
    <3> QED
      BY <1>3, <2>1, <3>1
  <2>2. CASE i # Len(x)
    <3>1. i \in 1 .. Len(x) - 1
      BY <1>7, <2>2
    <3>2. CASE i \in 1 .. a /\ SamePlace(x, g, i, m, p, i)
      <4>1. i \in 1 .. L /\ g[i] = p[i]
        BY <1>7, <3>2 DEF SamePlace
      <4> QED
        BY <1>7, <4>1
    <3>3. CASE i - a \in 1 .. N /\ SamePlace(x, g, i, T, h, i - a)
      <4>1. PICK k : k = i - a
        OBVIOUS
      <4>2. k \in 1 .. N + 1 /\ g[i] = h[k]
        BY <1>7, <3>3, <4>1 DEF SamePlace
      <4>3. h[k] \in Seq(PlainName)
        BY <1>7, <4>2
      <4> QED
        BY <4>2, <4>3
    <3>4. CASE /\ i - a - N + b - 1 \in b .. L - 1
               /\ SamePlace(x, g, i, m, p, i - a - N + b - 1)
      <4>1. PICK k : k = i - a - N + b - 1
        OBVIOUS
      <4>2. k \in 1 .. L /\ g[i] = p[k]
        <5>1. k \in 1 .. L
          BY <1>7, <3>4, <4>1
        <5>2. SamePlace(x, g, i, m, p, k)
          BY <3>4, <4>1
        <5> QED
          BY <5>1, <5>2 DEF SamePlace
      <4>3. p[k] \in Seq(PlainName)
        BY <1>7, <4>2
      <4> QED
        BY <4>2, <4>3
    <3> QED
      BY <1>3, <3>1, <3>2, <3>3, <3>4
  <2> QED
    BY <2>1, <2>2
<1>11. g \in [1 .. Len(x) -> Seq(PlainName)]
  BY <1>3, <1>10
<1>12. ASSUME NEW i \in 2 .. Len(x) - 1
       PROVE  Len(g[i]) = f[i] - 1 /\ PathStep(x[i], x[i + 1], g[i], g[i + 1])
  <2>1. i \in 1 .. Len(x) - 1 /\ i \in Nat
    BY <1>7
  <2>2. CASE i \in 1 .. a
    <3>1. ~ (i \in a + 1 .. a + N) /\ ~ (i \in a + N + 1 .. Len(x) - 1)
      BY <1>7, <2>2
    <3>2. SamePlace(x, g, i, m, p, i) /\ SamePlace(x, f, i, m, d, i)
      BY <1>3, <1>4, <2>1, <3>1
    <3>3. i \in 2 .. Len(m) - 1
      BY <1>1, <1>5, <1>7, <2>2
    <3>4. Len(p[i]) = d[i] - 1 /\ PathStep(m[i], m[i + 1], p[i], p[i + 1])
      BY <1>5, <3>3 DEF Pathed
    <3>5. g[i] = p[i] /\ f[i] = d[i]
      BY <3>2 DEF SamePlace
    <3> QED
      BY <3>2, <3>4, <3>5, StepPlace
  <2>3. CASE i \in a + 1 .. a + N
    <3>1. ~ (i \in 1 .. a) /\ ~ (i \in a + N + 1 .. Len(x) - 1)
      BY <1>7, <2>3
    <3>2. PICK k : k = i - a
      OBVIOUS
    <3>3. k \in 1 .. N /\ SamePlace(x, g, i, T, h, k) /\ SamePlace(x, f, i, T, c, k)
      BY <1>3, <1>4, <2>1, <3>1, <3>2
    <3>4. Len(h[k]) = c[k] - 1 /\ PathStep(T[k], T[k + 1], h[k], h[k + 1])
      BY <1>1, <1>5, <3>3 DEF PathsOf
    <3>5. g[i] = h[k] /\ f[i] = c[k]
      BY <3>3 DEF SamePlace
    <3> QED
      BY <3>3, <3>4, <3>5, StepPlace
  <2>4. CASE i \in a + N + 1 .. Len(x) - 1
    <3>1. ~ (i \in 1 .. a) /\ ~ (i \in a + 1 .. a + N)
      BY <1>7, <2>4
    <3>2. PICK k : k = i - a - N + b - 1
      OBVIOUS
    <3>3. k \in b .. L - 1 /\ SamePlace(x, g, i, m, p, k) /\ SamePlace(x, f, i, m, d, k)
      BY <1>3, <1>4, <2>1, <3>1, <3>2
    <3>4. k \in 2 .. Len(m) - 1
      BY <1>1, <1>7, <3>3
    <3>5. Len(p[k]) = d[k] - 1 /\ PathStep(m[k], m[k + 1], p[k], p[k + 1])
      BY <1>5, <3>4 DEF Pathed
    <3>6. g[i] = p[k] /\ f[i] = d[k]
      BY <3>3 DEF SamePlace
    <3> QED
      BY <3>3, <3>5, <3>6, StepPlace
  <2> QED
    BY <1>7, <2>1, <2>2, <2>3, <2>4
<1> QED
  BY <1>6, <1>9, <1>11, <1>12 DEF Pathed

-----------------------------------------------------------------------------
(* Tokens put in or taken out, and the entries. *)

(* The items that stay when what is between a and b is replaced. *)
Kept(m, a, b) == {o \in Items(m) : o <= a \/ o >= b}

(* Nothing but the first of T is an entry, and that with a key that is new. *)
AddsOne(m, p, a, T, h, b) ==
  /\ \A k \in 1 .. Len(T) : IsEntry(T[k]) <=> k = 1
  /\ Len(T) > 0 => \A o \in Kept(m, a, b) : ~ SameKey(Entry(T, h, 1), Entry(m, p, o))

(* The items of a stream are those that stay and those of T. *)
LEMMA SpliceItems ==
  ASSUME NEW m, NEW p, NEW a, NEW T, NEW h, NEW b, Joins(m, p, a, T, h, b),
         NEW x, x = Splice(m, a, T, b), NEW g, g = SpliceDepth(m, p, a, T, h, b),
         AddsOne(m, p, a, T, h, b), m[1].w = "HIVE"
  PROVE  /\ \A i \in Items(x) :
              \/ i <= a /\ i \in Kept(m, a, b) /\ Entry(x, g, i) = Entry(m, p, i)
              \/ Len(T) > 0 /\ i = a + 1 /\ Entry(x, g, i) = Entry(T, h, 1)
              \/ /\ i > a + Len(T) /\ i - a - Len(T) + b - 1 \in Kept(m, a, b)
                 /\ Entry(x, g, i) = Entry(m, p, i - a - Len(T) + b - 1)
         /\ \A o \in Kept(m, a, b) : \E i \in Items(x) : Entry(x, g, i) = Entry(m, p, o)
         /\ Len(T) > 0 => \E i \in Items(x) : Entry(x, g, i) = Entry(T, h, 1)
<1>1. PICK N, L : N = Len(T) /\ L = Len(m)
  OBVIOUS
<1>2. /\ Len(x) = a + N + (L - b + 1)
      /\ \A i \in 1 .. Len(x) - 1 :
              \/ i \in 1 .. a /\ SamePlace(x, g, i, m, p, i)
              \/ i \in a + 1 .. a + N /\ i - a \in 1 .. N /\ SamePlace(x, g, i, T, h, i - a)
              \/ /\ i \in a + N + 1 .. Len(x) - 1 /\ i - a - N + b - 1 \in b .. L - 1
                 /\ SamePlace(x, g, i, m, p, i - a - N + b - 1)
  BY <1>1, SplicePlaces
<1>3. /\ L \in Nat /\ N \in Nat /\ a \in Nat /\ b \in Nat /\ a >= 1 /\ a < b /\ b <= L /\ m[a].w # "HIVE"
  BY <1>1 DEF Joins
<1>4. Len(x) \in Nat /\ Len(x) >= 2 /\ a >= 2
  <2>1. a # 1
    BY <1>3
  <2> QED
    BY <1>2, <1>3, <2>1
<1>5. ASSUME NEW i \in Items(x)
      PROVE  \/ i <= a /\ i \in Kept(m, a, b) /\ Entry(x, g, i) = Entry(m, p, i)
             \/ N > 0 /\ i = a + 1 /\ Entry(x, g, i) = Entry(T, h, 1)
             \/ /\ i > a + N /\ i - a - N + b - 1 \in Kept(m, a, b)
                /\ Entry(x, g, i) = Entry(m, p, i - a - N + b - 1)
  <2>1. i \in 2 .. Len(x) - 1 /\ IsEntry(x[i]) /\ i \in 1 .. Len(x) - 1 /\ i \in Nat
    BY <1>4 DEF Items
  <2>2. CASE i \in 1 .. a /\ SamePlace(x, g, i, m, p, i)
    <3>1. Entry(x, g, i) = Entry(m, p, i)
      BY <2>2, StepPlace
    <3>2. IsEntry(m[i])
      BY <2>1, <2>2 DEF SamePlace
    <3>3. i \in 2 .. L - 1 /\ i <= a
      BY <1>3, <2>1, <2>2
    <3> QED
      BY <1>1, <3>1, <3>2, <3>3 DEF Kept, Items
  <2>3. CASE i \in a + 1 .. a + N /\ i - a \in 1 .. N /\ SamePlace(x, g, i, T, h, i - a)
    <3>1. Entry(x, g, i) = Entry(T, h, i - a) /\ IsEntry(T[i - a])
      BY <2>1, <2>3, StepPlace DEF SamePlace
    <3>2. i - a = 1
      BY <1>1, <2>3, <3>1 DEF AddsOne
    <3>3. i = a + 1 /\ N > 0
      BY <1>3, <2>1, <2>3, <3>2
    <3> QED
      BY <3>1, <3>2, <3>3
  <2>4. CASE /\ i \in a + N + 1 .. Len(x) - 1 /\ i - a - N + b - 1 \in b .. L - 1
             /\ SamePlace(x, g, i, m, p, i - a - N + b - 1)
    <3>1. PICK o : o = i - a - N + b - 1
      OBVIOUS
    <3>2. Entry(x, g, i) = Entry(m, p, o) /\ IsEntry(m[o])
      BY <2>1, <2>4, <3>1, StepPlace DEF SamePlace
    <3>3. o \in 2 .. L - 1 /\ o >= b /\ i > a + N
      BY <1>3, <2>1, <2>4, <3>1
    <3>4. o \in Kept(m, a, b)
      BY <1>1, <3>2, <3>3 DEF Kept, Items
    <3> QED
      BY <3>1, <3>2, <3>3, <3>4
  <2> QED
    BY <1>2, <2>1, <2>2, <2>3, <2>4
<1>6. ASSUME NEW o \in Kept(m, a, b)
      PROVE  \E i \in Items(x) : Entry(x, g, i) = Entry(m, p, o)
  <2>1. o \in 2 .. L - 1 /\ IsEntry(m[o]) /\ (o <= a \/ o >= b)
    BY <1>1 DEF Kept, Items
  <2>2. CASE o <= a
    <3>1. /\ o \in 1 .. Len(x) - 1 /\ o \in 2 .. Len(x) - 1
          /\ ~ (o \in a + 1 .. a + N) /\ ~ (o \in a + N + 1 .. Len(x) - 1)
      BY <1>2, <1>3, <2>1, <2>2
    <3>2. SamePlace(x, g, o, m, p, o)
      BY <1>2, <3>1
    <3>3. o \in Items(x)
      BY <2>1, <3>1, <3>2 DEF SamePlace, Items
    <3> QED
      BY <3>2, <3>3, StepPlace
  <2>3. CASE o >= b
    <3>1. PICK i : i = o + a + N - b + 1
      OBVIOUS
    <3>2. /\ i \in 1 .. Len(x) - 1 /\ i \in 2 .. Len(x) - 1 /\ i - a - N + b - 1 = o
          /\ ~ (i \in a + 1 .. a + N) /\ ~ (i \in 1 .. a)
      BY <1>2, <1>3, <2>1, <2>3, <3>1
    <3>3. SamePlace(x, g, i, m, p, o)
      BY <1>2, <3>2
    <3>4. i \in Items(x)
      BY <2>1, <3>2, <3>3 DEF SamePlace, Items
    <3> QED
      BY <3>3, <3>4, StepPlace
  <2> QED
    BY <2>1, <2>2, <2>3
<1>7. ASSUME N > 0 PROVE \E i \in Items(x) : Entry(x, g, i) = Entry(T, h, 1)
  <2>1. PICK i : i = a + 1
    OBVIOUS
  <2>2. /\ i \in 1 .. Len(x) - 1 /\ i \in 2 .. Len(x) - 1 /\ i - a = 1 /\ 1 \in 1 .. N
        /\ ~ (i \in a + N + 1 .. Len(x) - 1) /\ ~ (i \in 1 .. a)
    BY <1>2, <1>3, <1>7, <2>1
  <2>3. SamePlace(x, g, i, T, h, 1)
    BY <1>2, <2>2
  <2>4. IsEntry(T[1])
    BY <1>1, <2>2 DEF AddsOne
  <2>5. i \in Items(x)
    BY <2>2, <2>3, <2>4 DEF SamePlace, Items
  <2> QED
    BY <2>3, <2>5, StepPlace
<1> QED
  BY <1>1, <1>5, <1>6, <1>7

(* The entries of a stream are those that stay and that of T, and no two of
   them have one key. *)
LEMMA SpliceEntries ==
  ASSUME NEW m, NEW p, NEW a, NEW T, NEW h, NEW b, Joins(m, p, a, T, h, b),
         NEW x, x = Splice(m, a, T, b), NEW g, g = SpliceDepth(m, p, a, T, h, b),
         AddsOne(m, p, a, T, h, b), m[1].w = "HIVE", Distinct(m, p)
  PROVE  /\ Distinct(x, g)
         /\ Entries(x, g) = {Entry(m, p, o) : o \in Kept(m, a, b)}
                              \cup (IF Len(T) > 0 THEN {Entry(T, h, 1)} ELSE {})
<1>1. PICK N : N = Len(T)
  OBVIOUS
<1>2. /\ \A i \in Items(x) :
              \/ i <= a /\ i \in Kept(m, a, b) /\ Entry(x, g, i) = Entry(m, p, i)
              \/ N > 0 /\ i = a + 1 /\ Entry(x, g, i) = Entry(T, h, 1)
              \/ /\ i > a + N /\ i - a - N + b - 1 \in Kept(m, a, b)
                 /\ Entry(x, g, i) = Entry(m, p, i - a - N + b - 1)
      /\ \A o \in Kept(m, a, b) : \E i \in Items(x) : Entry(x, g, i) = Entry(m, p, o)
      /\ N > 0 => \E i \in Items(x) : Entry(x, g, i) = Entry(T, h, 1)
  BY <1>1, SpliceItems
<1>3. N \in Nat /\ a \in Nat /\ b \in Nat /\ a < b
  BY <1>1 DEF Joins
<1>4. N > 0 => \A o \in Kept(m, a, b) : ~ SameKey(Entry(T, h, 1), Entry(m, p, o))
  BY <1>1 DEF AddsOne
<1>5. ASSUME NEW o \in Kept(m, a, b), NEW u \in Kept(m, a, b), SameKey(Entry(m, p, o), Entry(m, p, u))
      PROVE  o = u
  BY <1>5 DEF Distinct, Kept
<1>6. ASSUME NEW i \in Items(x), NEW j \in Items(x), SameKey(Entry(x, g, i), Entry(x, g, j))
      PROVE  i = j
  <2>0. i \in Int /\ j \in Int
    BY DEF Items
  <2>1. PICK e, f : e = Entry(x, g, i) /\ f = Entry(x, g, j)
    OBVIOUS
  <2>2. SameKey(e, f) /\ SameKey(f, e)
    BY <1>6, <2>1 DEF SameKey
  <2> DEFINE S(k) == IF k <= a THEN k ELSE k - a - N + b - 1
  <2>3. ASSUME NEW k \in Items(x), NEW y, y = Entry(x, g, k)
        PROVE  \/ (k <= a \/ k > a + N) /\ S(k) \in Kept(m, a, b) /\ y = Entry(m, p, S(k))
               \/ N > 0 /\ k = a + 1 /\ y = Entry(T, h, 1)
    <3>0. k \in Int
      BY DEF Items
    <3>1. CASE k <= a /\ k \in Kept(m, a, b) /\ Entry(x, g, k) = Entry(m, p, k)
      BY <2>3, <3>1
    <3>2. CASE N > 0 /\ k = a + 1 /\ Entry(x, g, k) = Entry(T, h, 1)
      BY <2>3, <3>2
    <3>3. CASE /\ k > a + N /\ k - a - N + b - 1 \in Kept(m, a, b)
               /\ Entry(x, g, k) = Entry(m, p, k - a - N + b - 1)
      <4>1. ~ (k <= a)
        BY <1>3, <3>0, <3>3
      <4> QED
        BY <2>3, <3>3, <4>1
    <3> QED
      BY <1>2, <3>1, <3>2, <3>3
  <2>4. CASE S(i) \in Kept(m, a, b) /\ e = Entry(m, p, S(i)) /\ S(j) \in Kept(m, a, b) /\ f = Entry(m, p, S(j))
             /\ (i <= a \/ i > a + N) /\ (j <= a \/ j > a + N)
    <3>1. S(i) = S(j)
      <4> HIDE DEF S
      <4> QED
        BY <1>5, <2>2, <2>4
    <3>2. /\ S(i) \in Items(m) /\ (S(i) <= a \/ S(i) >= b)
          /\ S(j) \in Items(m) /\ (S(j) <= a \/ S(j) >= b)
      <4> HIDE DEF S
      <4> QED
        BY <2>4 DEF Kept
    <3> QED
      BY <1>3, <2>0, <2>4, <3>1
  <2>5. CASE N > 0 /\ i = a + 1 /\ e = Entry(T, h, 1) /\ S(j) \in Kept(m, a, b) /\ f = Entry(m, p, S(j))
    <3> HIDE DEF S
    <3> QED
      BY <1>4, <2>2, <2>5
  <2>6. CASE N > 0 /\ j = a + 1 /\ f = Entry(T, h, 1) /\ S(i) \in Kept(m, a, b) /\ e = Entry(m, p, S(i))
    <3> HIDE DEF S
    <3> QED
      BY <1>4, <2>2, <2>6
  <2>7. CASE i = a + 1 /\ j = a + 1
    BY <2>7
  <2> HIDE DEF S
  <2> QED
    BY <2>1, <2>3, <2>4, <2>5, <2>6, <2>7
<1>7. Entries(x, g) = {Entry(m, p, o) : o \in Kept(m, a, b)}
                        \cup (IF N > 0 THEN {Entry(T, h, 1)} ELSE {})
  <2>1. ASSUME NEW e \in Entries(x, g)
        PROVE  e \in {Entry(m, p, o) : o \in Kept(m, a, b)} \cup (IF N > 0 THEN {Entry(T, h, 1)} ELSE {})
    <3>1. PICK i \in Items(x) : e = Entry(x, g, i)
      BY DEF Entries
    <3> QED
      BY <1>2, <3>1
  <2>2. ASSUME NEW e \in {Entry(m, p, o) : o \in Kept(m, a, b)} \cup (IF N > 0 THEN {Entry(T, h, 1)} ELSE {})
        PROVE  e \in Entries(x, g)
    <3>1. CASE e \in {Entry(m, p, o) : o \in Kept(m, a, b)}
      <4>1. PICK o \in Kept(m, a, b) : e = Entry(m, p, o)
        BY <3>1
      <4> QED
        BY <1>2, <4>1 DEF Entries
    <3>2. CASE N > 0 /\ e = Entry(T, h, 1)
      BY <1>2, <3>2 DEF Entries
    <3> QED
      BY <3>1, <3>2
  <2> QED
    BY <2>1, <2>2
<1> QED
  BY <1>1, <1>6, <1>7 DEF Distinct

-----------------------------------------------------------------------------
(* An item that is added is one more entry. *)

(* The stream m stands for the entries E. *)
Tree(m, d, p, E) == Pathed(m, d, p) /\ Distinct(m, p) /\ Entries(m, p) = E

HiveEntry(path) == [sig |-> "HIVE", path |-> path, v |-> NULL]
CellEntry(path, v) ==
  [sig |-> "CELL", path |-> path, v |-> [type |-> v.type, len |-> v.len, data |-> v.data]]

(* Tokens that go to the end of the hive at x: the first is an entry with a new
   key, and the only entry. *)
Enters(m, d, p, x, T, c, h) ==
  /\ Len(T) > 0 /\ Insertable(T, c, d[x] + 1) /\ PathsOf(T, c, h)
  /\ h[1] = p[x + 1] /\ h[Len(T) + 1] = p[x + 1]
  /\ \A k \in 1 .. Len(T) : IsEntry(T[k]) <=> k = 1
  /\ \A o \in Items(m) : ~ SameKey(Entry(T, h, 1), Entry(m, p, o))

(* The entry such tokens add, and the hive that is behind the first of them. *)
Brings(m, d, p, x, T, e, q) ==
  \E c, h : Enters(m, d, p, x, T, c, h) /\ Entry(T, h, 1) = e /\ h[2] = q

(* A stream for E with a token at i, behind which the hive with path q is open. *)
Holds(m, E, i, tok, q) ==
  \E d, p : Tree(m, d, p, E) /\ i \in 1 .. Len(m) /\ m[i] = tok /\ p[i + 1] = q

(* Tokens put in front of the end tag of a hive add one entry, and the hive
   stays where it is. *)
LEMMA InsertTree ==
  ASSUME NEW m, NEW d, NEW p, NEW E, Tree(m, d, p, E), NEW x, HiveAt(m, d, x),
         NEW T, NEW new, NEW q, Brings(m, d, p, x, T, new, q),
         NEW at, at = FindEndTag(m, x), NEW r, r = Splice(m, at - 1, T, at)
  PROVE  Holds(r, E \cup {new}, at, T[1], q) /\ Holds(r, E \cup {new}, x, m[x], p[x + 1])
<1>0. PICK c, h : Enters(m, d, p, x, T, c, h) /\ Entry(T, h, 1) = new /\ h[2] = q
  BY DEF Brings
<1>1. Pathed(m, d, p) /\ Distinct(m, p) /\ Entries(m, p) = E
  BY DEF Tree
<1>2. /\ Nested(m, d) /\ x \in 1 .. Len(m) /\ m[x].w = "HIVE" /\ m[1].w = "HIVE"
      /\ m \in Seq(Tokens) /\ Len(m) \in Nat
  BY DEF HiveAt, Nested
<1>3. /\ x \in 1 .. Len(m) - 2 /\ p[x + 1] \in Seq(PlainName) /\ Len(p[x + 1]) = d[x] /\ d[x] \in Nat
  BY <1>1, HiveHere
<1>4. EndsHive(m, d, x, at)
  BY <1>2, EndTagFound
<1>5. at \in x + 2 .. Len(m) - 1 /\ m[at].w = "EVIH" /\ d[at] = d[x] + 1
  BY <1>4 DEF EndsHive
<1>6. PICK a : a = at - 1
  OBVIOUS
<1>7. /\ a \in 1 .. Len(m) - 1 /\ at \in a + 1 .. Len(m) /\ a + 1 = at /\ at \in 2 .. Len(m) - 1
      /\ x \in 1 .. a /\ at \in Nat /\ a \in Nat
  <2>1. PICK L : L = Len(m)
    OBVIOUS
  <2>2. L \in Nat /\ x \in 1 .. L - 2 /\ at \in x + 2 .. L - 1
    BY <1>2, <1>3, <1>5, <2>1
  <2>3. x \in Nat /\ x >= 1 /\ at >= x + 2 /\ at <= L - 1 /\ at \in Nat
    BY <2>2
  <2>4. /\ a \in 1 .. L - 1 /\ at \in a + 1 .. L /\ a + 1 = at /\ at \in 2 .. L - 1
        /\ x \in 1 .. a /\ at \in Nat /\ a \in Nat
    BY <1>6, <2>2, <2>3
  <2> QED
    BY <2>1, <2>4
<1>8. p[at] = p[x + 1]
  <2>1. Starts(p[x + 1], p[at])
    <3>1. at \in x + 1 .. at
      BY <1>2, <1>3, <1>5
    <3> QED
      BY <1>1, <1>4, <1>7, <3>1, InHive
  <2>2. p[at] \in Seq(PlainName) /\ Len(p[at]) = d[at] - 1
    BY <1>1, <1>7, PathAt
  <2>3. Len(p[at]) = Len(p[x + 1])
    BY <1>3, <1>5, <2>2
  <2> QED
    BY <1>3, <2>1, <2>2, <2>3, StartsSame
<1>9. ~ IsName(m[at]) /\ d[at] > 0
  BY <1>3, <1>5 DEF IsName, SigWords
<1>10. Replaces(m, d, p, a, T, c, h, at)
  BY <1>0, <1>1, <1>5, <1>7, <1>8, <1>9 DEF Replaces, Enters
<1>11. Joins(m, p, a, T, h, at)
  BY <1>10, ReplaceJoins
<1>12. Kept(m, a, at) = Items(m)
  BY <1>7 DEF Kept, Items
<1>13. AddsOne(m, p, a, T, h, at)
  BY <1>0, <1>12 DEF AddsOne, Enters
<1>14. PICK f, g : f = SpliceDepth(m, d, a, T, c, at) /\ g = SpliceDepth(m, p, a, T, h, at)
  OBVIOUS
<1>15. r = Splice(m, a, T, at)
  BY <1>6
<1>16. Pathed(r, f, g)
  BY <1>10, <1>14, <1>15, SplicePathed
<1>17. /\ Distinct(r, g)
       /\ Entries(r, g) = {Entry(m, p, o) : o \in Kept(m, a, at)}
                            \cup (IF Len(T) > 0 THEN {Entry(T, h, 1)} ELSE {})
  BY <1>1, <1>2, <1>11, <1>13, <1>14, <1>15, SpliceEntries
<1>18. Entries(r, g) = E \cup {Entry(T, h, 1)}
  BY <1>0, <1>1, <1>12, <1>17 DEF Entries, Enters
<1>19. PICK N, L : N = Len(T) /\ L = Len(m)
  OBVIOUS
<1>20. N \in Nat /\ N > 0
  BY <1>0, <1>11, <1>19 DEF Joins, Enters
<1>21. /\ Len(r) = a + N + (L - at + 1)
       /\ \A i \in 1 .. Len(r) - 1 :
              \/ i \in 1 .. a /\ SamePlace(r, g, i, m, p, i)
              \/ i \in a + 1 .. a + N /\ i - a \in 1 .. N /\ SamePlace(r, g, i, T, h, i - a)
              \/ /\ i \in a + N + 1 .. Len(r) - 1 /\ i - a - N + at - 1 \in at .. L - 1
                 /\ SamePlace(r, g, i, m, p, i - a - N + at - 1)
  BY <1>11, <1>14, <1>15, <1>19, SplicePlaces
<1>22. /\ at \in 1 .. Len(r) - 1 /\ at - a = 1 /\ ~ (at \in 1 .. a) /\ ~ (at \in a + N + 1 .. Len(r) - 1)
       /\ x \in 1 .. Len(r) - 1 /\ ~ (x \in a + 1 .. a + N) /\ ~ (x \in a + N + 1 .. Len(r) - 1)
       /\ at \in 1 .. Len(r) /\ x \in 1 .. Len(r)
  <2>1. L \in Nat /\ at <= L - 1 /\ a = at - 1 /\ a >= 1 /\ x \in 1 .. a /\ a \in Nat /\ at \in Nat
    BY <1>2, <1>6, <1>7, <1>19
  <2>2. PICK R : R = Len(r)
    OBVIOUS
  <2>3. R = a + N + (L - at + 1)
    BY <1>21, <2>2
  <2>4. R = N + L /\ R \in Nat
    BY <1>20, <2>1, <2>3
  <2>5. /\ at \in 1 .. R - 1 /\ at - a = 1 /\ ~ (at \in 1 .. a) /\ ~ (at \in a + N + 1 .. R - 1)
        /\ x \in 1 .. R - 1 /\ ~ (x \in a + 1 .. a + N) /\ ~ (x \in a + N + 1 .. R - 1)
        /\ at \in 1 .. R /\ x \in 1 .. R
    BY <1>20, <2>1, <2>4
  <2> QED
    BY <2>2, <2>5
<1>23. SamePlace(r, g, at, T, h, 1) /\ SamePlace(r, g, x, m, p, x)
  BY <1>21, <1>22
<1>24. r[at] = T[1] /\ g[at + 1] = h[2] /\ r[x] = m[x] /\ g[x + 1] = p[x + 1]
  BY <1>23 DEF SamePlace
<1>25. Tree(r, f, g, E \cup {new})
  BY <1>0, <1>16, <1>17, <1>18 DEF Tree
<1>26. g[at + 1] = q
  BY <1>0, <1>24
<1>27. Holds(r, E \cup {new}, at, T[1], q)
  BY <1>22, <1>24, <1>25, <1>26, Zenon DEF Holds
<1>28. Holds(r, E \cup {new}, x, m[x], p[x + 1])
  BY <1>22, <1>24, <1>25, Zenon DEF Holds
<1> QED
  BY <1>27, <1>28

(* A cell with a new name may go into a hive. *)
LEMMA CellEnters ==
  ASSUME NEW m, NEW d, NEW p, NEW E, Tree(m, d, p, E), NEW x, HiveAt(m, d, x),
         NEW name \in PlainName, NEW tok \in Tokens, tok.w = "CELL", tok.name = name,
         NEW path, path = Append(p[x + 1], name),
         \A o \in Items(m) : ~ HasKey(Entry(m, p, o), "CELL", path)
  PROVE  Brings(m, d, p, x, <<tok>>, CellEntry(path, tok), p[x + 1])
<1>1. p[x + 1] \in Seq(PlainName) /\ Len(p[x + 1]) = d[x] /\ d[x] \in Nat
  BY HiveHere DEF Tree
<1>2. PICK q, D, T : q = p[x + 1] /\ D = d[x] + 1 /\ T = <<tok>>
  OBVIOUS
<1> DEFINE c == [i \in 1 .. 2 |-> D]
           h == [i \in 1 .. 2 |-> q]
<1>3. D \in Nat /\ D > 0 /\ q \in Seq(PlainName) /\ Len(q) = D - 1
  BY <1>1, <1>2
<1>4. T \in Seq(Tokens) /\ Len(T) = 1 /\ T[1] = tok
  BY <1>2
<1>5. Insertable(T, c, D)
  BY <1>3, <1>4 DEF Insertable, IsName, SigWords
<1>6. PathsOf(T, c, h)
  <2>1. h \in [1 .. Len(T) + 1 -> Seq(PlainName)]
    BY <1>3, <1>4
  <2>2. ASSUME NEW i \in 1 .. Len(T)
        PROVE  Len(h[i]) = c[i] - 1 /\ PathStep(T[i], T[i + 1], h[i], h[i + 1])
    <3>1. i = 1 /\ i + 1 = 2
      BY <1>4
    <3>2. h[1] = q /\ h[2] = q /\ c[1] = D
      OBVIOUS
    <3> HIDE DEF h, c
    <3>3. PathStep(T[1], T[2], h[1], h[2])
      BY <1>4, <3>2 DEF PathStep
    <3>4. Len(h[1]) = c[1] - 1
      BY <1>3, <3>2
    <3> QED
      BY <3>1, <3>3, <3>4
  <2> HIDE DEF h, c
  <2> QED
    BY <2>1, <2>2 DEF PathsOf
<1>7. Entry(T, h, 1) = CellEntry(path, tok)
  <2>1. h[1] = q
    OBVIOUS
  <2> HIDE DEF h
  <2>2. Entry(T, h, 1) = EntryOf(tok, T[1 + 1], q)
    BY <1>4, <2>1 DEF Entry
  <2>3. path = Append(q, tok.name)
    BY <1>2
  <2> QED
    BY <2>2, <2>3 DEF EntryOf, CellEntry
<1>8. \A o \in Items(m) : ~ SameKey(CellEntry(path, tok), Entry(m, p, o))
  <2>1. CellEntry(path, tok).sig = "CELL" /\ CellEntry(path, tok).path = path
    BY DEF CellEntry
  <2> QED
    BY <2>1 DEF SameKey, HasKey
<1>9. \A k \in 1 .. Len(T) : IsEntry(T[k]) <=> k = 1
  BY <1>4 DEF IsEntry
<1>10. h[1] = q /\ h[2] = q /\ h[Len(T) + 1] = q /\ Len(T) > 0
  BY <1>4
<1> HIDE DEF c, h
<1>11. Enters(m, d, p, x, T, c, h)
  BY <1>2, <1>5, <1>6, <1>7, <1>8, <1>9, <1>10 DEF Enters
<1> QED
  BY <1>2, <1>7, <1>10, <1>11, Zenon DEF Brings

(* A hive with a new name may go into a hive. *)
LEMMA HiveEnters ==
  ASSUME NEW m, NEW d, NEW p, NEW E, Tree(m, d, p, E), NEW x, HiveAt(m, d, x),
         NEW name \in PlainName, NEW depth, depth = d[x] + 1,
         NEW path, path = Append(p[x + 1], name),
         \A o \in Items(m) : ~ HasKey(Entry(m, p, o), "HIVE", path),
         NEW T, T = <<REG_HIVE_SIG_S, HiveName(name, depth), REG_HIVE_SIG_E>>
  PROVE  Brings(m, d, p, x, T, HiveEntry(path), path)
<1>1. p[x + 1] \in Seq(PlainName) /\ Len(p[x + 1]) = d[x] /\ d[x] \in Nat
  BY HiveHere DEF Tree
<1>2. PICK q, D : q = p[x + 1] /\ D = d[x] + 1
  OBVIOUS
<1>3. D \in Nat /\ D > 0 /\ q \in Seq(PlainName) /\ Len(q) = D - 1 /\ path = Append(q, name)
  BY <1>1, <1>2
<1>4. path \in Seq(PlainName) /\ Len(path) = D /\ path # <<>> /\ Front(path) = q
  BY <1>3, AppendProperties, FrontAppend
<1>5. PICK c : Insertable(T, c, D) /\ c[1] = D
  BY <1>2, <1>3, HiveInsertable
<1> DEFINE h == [i \in 1 .. 4 |-> IF i \in {1, 4} THEN q ELSE path]
<1>6. PICK S, N, F : S = REG_HIVE_SIG_S /\ N = HiveName(name, D) /\ F = REG_HIVE_SIG_E
  OBVIOUS
<1>7. S.w = "HIVE" /\ F.w = "EVIH" /\ N.w = name /\ name # "HIVE" /\ name # "EVIH" /\ name # "CELL"
  BY <1>6 DEF REG_HIVE_SIG_S, REG_HIVE_SIG_E, HiveName, PlainName, SigWords
<1>8. T = <<S, N, F>>
  BY <1>2, <1>6
<1>9. Len(T) = 3 /\ T[1] = S /\ T[2] = N /\ T[3] = F
  BY <1>8
<1>10. c[1] = D /\ c[2] = D + 1 /\ c[3] = D + 1 /\ c \in [1 .. 4 -> Nat]
  <2>1. /\ c \in [1 .. Len(T) + 1 -> Nat]
        /\ \A i \in 1 .. Len(T) : /\ T[i].w = "HIVE" => c[i + 1] = c[i] + 1
                                  /\ T[i].w \notin {"HIVE", "EVIH"} => c[i + 1] = c[i]
    BY <1>5 DEF Insertable
  <2>2. 1 \in 1 .. Len(T) /\ 2 \in 1 .. Len(T) /\ 1 + 1 = 2 /\ 2 + 1 = 3 /\ Len(T) + 1 = 4
    BY <1>9
  <2>3. c[2] = c[1] + 1
    BY <1>7, <1>9, <2>1, <2>2
  <2>4. c[3] = c[2]
    BY <1>7, <1>9, <2>1, <2>2
  <2> QED
    BY <1>5, <2>1, <2>2, <2>3, <2>4
<1>11. h[1] = q /\ h[2] = path /\ h[3] = path /\ h[4] = q /\ h \in [1 .. 4 -> Seq(PlainName)]
  BY <1>3, <1>4
<1> HIDE DEF h
<1>12. ASSUME NEW i \in 1 .. 3 PROVE Len(h[i]) = c[i] - 1 /\ PathStep(T[i], T[i + 1], h[i], h[i + 1])
  <2>1. CASE i = 1
    <3>1. Len(h[1]) = c[1] - 1 /\ h[2] = Append(h[1], N.w)
      BY <1>3, <1>7, <1>10, <1>11
    <3>2. PathStep(T[1], T[2], h[1], h[2])
      BY <1>7, <1>9, <3>1 DEF PathStep
    <3>3. i + 1 = 2
      BY <2>1
    <3> QED
      BY <2>1, <3>1, <3>2, <3>3
  <2>2. CASE i = 2
    <3>1. Len(h[2]) = c[2] - 1 /\ h[3] = h[2]
      BY <1>3, <1>4, <1>10, <1>11
    <3>2. PathStep(T[2], T[3], h[2], h[3])
      BY <1>7, <1>9, <3>1 DEF PathStep
    <3> QED
      BY <2>2, <3>1, <3>2
  <2>3. CASE i = 3
    <3>1. Len(h[3]) = c[3] - 1 /\ h[4] = Front(h[3]) /\ h[3] # <<>>
      BY <1>3, <1>4, <1>10, <1>11
    <3>2. PathStep(T[3], T[4], h[3], h[4])
      BY <1>7, <1>9, <3>1 DEF PathStep
    <3> QED
      BY <2>3, <3>1, <3>2
  <2> QED
    BY <2>1, <2>2, <2>3
<1>13. PathsOf(T, c, h)
  <2>1. Len(T) = 3 /\ Len(T) + 1 = 4
    BY <1>9
  <2> QED
    BY <1>11, <1>12, <2>1 DEF PathsOf
<1>14. Entry(T, h, 1) = HiveEntry(path)
  <2>1. T[1 + 1] = N
    BY <1>9
  <2>2. Entry(T, h, 1) = EntryOf(S, N, q)
    BY <1>9, <1>11, <2>1 DEF Entry
  <2> QED
    BY <1>3, <1>7, <2>2 DEF EntryOf, HiveEntry
<1>15. \A o \in Items(m) : ~ SameKey(HiveEntry(path), Entry(m, p, o))
  <2>1. HiveEntry(path).sig = "HIVE" /\ HiveEntry(path).path = path
    BY DEF HiveEntry
  <2> QED
    BY <2>1 DEF SameKey, HasKey
<1>16. \A k \in 1 .. Len(T) : IsEntry(T[k]) <=> k = 1
  <2>1. \A k \in 1 .. Len(T) : k = 1 \/ k = 2 \/ k = 3
    BY <1>9
  <2>2. IsEntry(T[1]) /\ ~ IsEntry(T[2]) /\ ~ IsEntry(T[3])
    BY <1>7, <1>9 DEF IsEntry
  <2> QED
    BY <2>1, <2>2
<1>17. h[1] = p[x + 1] /\ h[Len(T) + 1] = p[x + 1] /\ Len(T) > 0
  BY <1>2, <1>9, <1>11
<1>18. Enters(m, d, p, x, T, c, h)
  BY <1>2, <1>5, <1>13, <1>14, <1>15, <1>16, <1>17 DEF Enters
<1> QED
  BY <1>11, <1>14, <1>18, Zenon DEF Brings

-----------------------------------------------------------------------------
(* An item that is removed takes the entries in it along. *)

(* Where an item ends. *)
ItemEnd(m, pos) == IF m[pos].w = "CELL" THEN pos ELSE FindEndTag(m, pos)

(* What is behind an item is in the hive that the item is in. *)
LEMMA BehindItem ==
  ASSUME NEW m, NEW d, NEW p, Pathed(m, d, p), Distinct(m, p), NEW pos \in Items(m),
         NEW end, end = ItemEnd(m, pos)
  PROVE  /\ end \in pos .. Len(m) - 2 /\ end + 1 \in 2 .. Len(m) - 1
         /\ p[end + 1] = p[pos] /\ d[end + 1] = d[pos] /\ ~ IsName(m[end + 1])
<1>1. pos \in 2 .. Len(m) - 1 /\ m[pos].w \in {"HIVE", "CELL"} /\ p[pos] \in Seq(PlainName)
  BY EntryHere
<1>2. /\ Len(m) \in Nat /\ Nested(m, d) /\ d[pos] \in Nat /\ d[pos] > 0 /\ pos \in 1 .. Len(m) - 1
      /\ Len(p[pos]) = d[pos] - 1 /\ d[Len(m)] = 0
  <2>1. /\ Len(m) \in Nat /\ Nested(m, d) /\ d[pos] \in Nat /\ d[pos] > 0 /\ pos \in 1 .. Len(m) - 1
        /\ Len(p[pos]) = d[pos] - 1
    BY <1>1, PathAt
  <2>2. d[Len(m)] = 0
    BY <2>1 DEF Nested
  <2> QED
    BY <2>1, <2>2
<1>3. /\ end \in pos .. Len(m) - 1 /\ p[end + 1] = p[pos] /\ d[end + 1] = d[pos] /\ ~ IsName(m[end + 1])
  <2>1. CASE m[pos].w = "CELL"
    <3>1. end = pos
      BY <2>1 DEF ItemEnd
    <3>2. d[pos + 1] = d[pos] /\ ~ IsName(m[pos + 1])
      BY <1>2, <2>1 DEF Nested
    <3>3. p[pos + 1] = p[pos]
      BY <1>1, <2>1 DEF Pathed, PathStep
    <3> QED
      BY <1>2, <3>1, <3>2, <3>3
  <2>2. CASE m[pos].w = "HIVE"
    <3>1. end = FindEndTag(m, pos)
      BY <2>2 DEF ItemEnd
    <3>2. pos \in 1 .. Len(m) /\ pos # 1
      BY <1>1, <1>2
    <3>3. HiveAt(m, d, pos)
      BY <1>2, <2>2, <3>2 DEF HiveAt
    <3>4. EndsHive(m, d, pos, end)
      BY <1>2, <2>2, <3>1, <3>2, EndTagFound
    <3>5. end \in pos + 2 .. Len(m) - 1 /\ m[end].w = "EVIH" /\ d[end] = d[pos] + 1
      BY <3>4 DEF EndsHive
    <3>6. end \in 1 .. Len(m) - 1 /\ end + 1 \in 1 .. Len(m) /\ end \in 2 .. Len(m) - 1 /\ end \in pos .. Len(m) - 1
          /\ end \in pos + 1 .. end
      BY <1>1, <1>2, <3>5
    <3>7. d[end] = d[end + 1] + 1 /\ ~ IsName(m[end + 1]) /\ d[end + 1] \in Nat
      BY <1>2, <3>5, <3>6 DEF Nested
    <3>8. d[end + 1] = d[pos]
      BY <1>2, <3>5, <3>7
    <3>9. /\ p[pos + 1] \in Seq(PlainName) /\ Len(p[pos + 1]) = d[pos]
          /\ m[pos + 1].w \in PlainName /\ p[pos + 1] = Append(p[pos], m[pos + 1].w)
      BY <3>2, <3>3, HiveHere
    <3>10. p[end] = p[pos + 1]
      <4>1. Starts(p[pos + 1], p[end])
        BY <3>3, <3>4, <3>6, InHive
      <4>2. p[end] \in Seq(PlainName) /\ Len(p[end]) = d[end] - 1
        BY <3>6, PathAt
      <4>3. Len(p[end]) = Len(p[pos + 1])
        BY <1>2, <3>5, <3>9, <4>2
      <4> QED
        BY <3>9, <4>1, <4>2, <4>3, StartsSame
    <3>11. p[end + 1] = IF p[end] = <<>> THEN <<>> ELSE Front(p[end])
      BY <3>5, <3>6 DEF Pathed, PathStep
    <3>12. p[end + 1] = p[pos]
      <4>1. PICK u, w : u = p[pos] /\ w = m[pos + 1].w
        OBVIOUS
      <4>2. u \in Seq(PlainName) /\ w \in PlainName
        BY <1>1, <3>9, <4>1
      <4>3. p[end] = Append(u, w)
        BY <3>9, <3>10, <4>1
      <4>4. Append(u, w) # <<>> /\ Front(Append(u, w)) = u
        BY <4>2, AppendProperties, FrontAppend
      <4> QED
        BY <3>11, <4>1, <4>3, <4>4
    <3> QED
      BY <3>6, <3>7, <3>8, <3>12
  <2> QED
    BY <1>1, <2>1, <2>2
<1>4. end # Len(m) - 1
  <2>1. ASSUME end = Len(m) - 1 PROVE FALSE
    <3>1. end + 1 = Len(m)
      BY <1>2, <2>1
    <3> QED
      BY <1>2, <1>3, <3>1
  <2> QED
    BY <2>1
<1>5. end \in pos .. Len(m) - 2 /\ end + 1 \in 2 .. Len(m) - 1
  <2>1. PICK L : L = Len(m)
    OBVIOUS
  <2>2. L \in Nat /\ pos \in 2 .. L - 1 /\ end \in pos .. L - 1 /\ end # L - 1
    BY <1>1, <1>2, <1>3, <1>4, <2>1
  <2>3. end \in pos .. L - 2 /\ end + 1 \in 2 .. L - 1
    BY <2>2
  <2> QED
    BY <2>1, <2>3
<1> QED
  BY <1>3, <1>5

(* What is left of the entries when an item has been removed: all but the cell,
   or all that are not the hive or in it. *)
Without(E, sig, path) ==
  IF sig = "CELL" THEN {e \in E : ~ HasKey(e, "CELL", path)}
  ELSE {e \in E : ~ Starts(path, e.path)}

(* The entry of an item has a path, and that of no other item of its kind. *)
LEMMA RemoveKeeps ==
  ASSUME NEW m, NEW d, NEW p, NEW E, Tree(m, d, p, E), NEW pos \in Items(m),
         NEW end, end = ItemEnd(m, pos), NEW sig \in {"HIVE", "CELL"}, NEW path,
         HasKey(Entry(m, p, pos), sig, path),
         sig = "HIVE" => \A e \in E : ~ HasKey(e, "CELL", path)
  PROVE  {Entry(m, p, o) : o \in Kept(m, pos - 1, end + 1)} = Without(E, sig, path)
<1>1. Pathed(m, d, p) /\ Distinct(m, p) /\ E = {Entry(m, p, i) : i \in Items(m)}
  BY DEF Tree, Entries
<1>2. /\ pos \in 2 .. Len(m) - 1 /\ m[pos].w = sig /\ Len(m) \in Nat /\ Nested(m, d)
      /\ path \in Seq(PlainName)
  <2>1. pos \in 2 .. Len(m) - 1 /\ m[pos].w = sig /\ path \in Seq(PlainName)
    BY <1>1, EntryHere DEF HasKey
  <2> QED
    BY <1>1, <2>1, PathAt
<1>3. end \in pos .. Len(m) - 2
  BY <1>1, BehindItem
<1>4. \A o \in Items(m) : o \in Int
  BY DEF Items
<1>5. CASE sig = "CELL"
  <2>1. end = pos
    BY <1>2, <1>5 DEF ItemEnd
  <2>2. ASSUME NEW o \in Items(m) PROVE o \in Kept(m, pos - 1, end + 1) <=> ~ HasKey(Entry(m, p, o), "CELL", path)
    <3>1. o \in Kept(m, pos - 1, end + 1) <=> o # pos
      BY <1>2, <1>4, <2>1 DEF Kept
    <3>2. ASSUME HasKey(Entry(m, p, o), "CELL", path) PROVE o = pos
      <4>1. SameKey(Entry(m, p, o), Entry(m, p, pos))
        BY <1>5, <3>2 DEF SameKey, HasKey
      <4> QED
        BY <1>1, <4>1 DEF Distinct
    <3> QED
      BY <1>5, <3>1, <3>2
  <2>3. \A o \in Kept(m, pos - 1, end + 1) : o \in Items(m)
    BY DEF Kept
  <2> HIDE DEF Kept, Items
  <2> QED
    BY <1>1, <1>5, <2>2, <2>3 DEF Without
<1>6. CASE sig = "HIVE"
  <2>1. end = FindEndTag(m, pos)
    BY <1>2, <1>6 DEF ItemEnd
  <2>2. pos \in 1 .. Len(m) /\ pos # 1
    BY <1>2
  <2>3. HiveAt(m, d, pos)
    BY <1>2, <1>6, <2>2 DEF HiveAt
  <2>4. EndsHive(m, d, pos, end)
    BY <1>2, <1>6, <2>1, <2>2, EndTagFound
  <2>5. p[pos + 1] = path
    <3>1. Entry(m, p, pos) = [sig |-> "HIVE", path |-> p[pos + 1], v |-> NULL]
      BY <1>1, <2>2, <2>3, HiveHere
    <3>2. Entry(m, p, pos).path = p[pos + 1]
      BY <3>1
    <3> QED
      BY <3>2 DEF HasKey
  <2>6. ASSUME NEW o \in Items(m)
        PROVE  o \in Kept(m, pos - 1, end + 1) <=> ~ Starts(path, Entry(m, p, o).path)
    <3>1. o \in Kept(m, pos - 1, end + 1) <=> ~ (o \in pos .. end)
      BY <1>2, <1>3, <1>4 DEF Kept
    <3>2. /\ o \in 2 .. Len(m) - 1 /\ p[o] \in Seq(PlainName) /\ Entry(m, p, o).sig \in {"HIVE", "CELL"}
      BY <1>1, EntryHere
    <3>3. PICK name \in PlainName : Entry(m, p, o).path = Append(p[o], name)
      BY <1>1, EntryHere
    <3>4. o \in pos + 1 .. end <=> Starts(path, p[o])
      BY <1>1, <2>3, <2>4, <2>5, <3>2, InHive
    <3>5. PICK u : u = p[o]
      OBVIOUS
    <3>6. Starts(path, Append(u, name)) <=> Starts(path, u) \/ path = Append(u, name)
      BY <1>2, <3>2, <3>5, StartsAppend
    <3>7. path = Append(u, name) <=> o = pos
      <4>1. ASSUME path = Append(u, name) PROVE o = pos
        <5>1. Entry(m, p, o).path = path
          BY <3>3, <3>5, <4>1
        <5>2. Entry(m, p, o).sig = "HIVE"
          BY <1>1, <1>6, <3>2, <5>1 DEF HasKey
        <5>3. SameKey(Entry(m, p, o), Entry(m, p, pos))
          BY <1>6, <5>1, <5>2 DEF SameKey, HasKey
        <5> QED
          BY <1>1, <5>3 DEF Distinct
      <4>2. ASSUME o = pos PROVE path = Append(u, name)
        BY <3>3, <3>5, <4>2 DEF HasKey
      <4> QED
        BY <4>1, <4>2
    <3>8. o \in pos .. end <=> o \in pos + 1 .. end \/ o = pos
      BY <1>2, <1>3, <1>4
    <3> QED
      BY <3>1, <3>3, <3>4, <3>5, <3>6, <3>7, <3>8
  <2>7. \A o \in Kept(m, pos - 1, end + 1) : o \in Items(m)
    BY DEF Kept
  <2> HIDE DEF Kept, Items
  <2> QED
    BY <1>1, <1>6, <2>6, <2>7 DEF Without
<1> QED
  BY <1>5, <1>6

(* When an item is cut out of the stream the entries that are left are those
   without it, and the hives before it stay where they are. *)
LEMMA RemoveTree ==
  ASSUME NEW m, NEW d, NEW p, NEW E, Tree(m, d, p, E), NEW pos \in Items(m),
         NEW end, end = ItemEnd(m, pos), NEW sig \in {"HIVE", "CELL"}, NEW path,
         HasKey(Entry(m, p, pos), sig, path),
         sig = "HIVE" => \A e \in E : ~ HasKey(e, "CELL", path),
         NEW r, r = Splice(m, pos - 1, <<>>, end + 1)
  PROVE  \E f, g : /\ Tree(r, f, g, Without(E, sig, path))
                   /\ \A x \in 1 .. pos - 1 : r[x] = m[x] /\ g[x + 1] = p[x + 1]
<1>1. Pathed(m, d, p) /\ Distinct(m, p)
  BY DEF Tree
<1>2. pos \in 2 .. Len(m) - 1 /\ m[pos].w \in {"HIVE", "CELL"} /\ p[pos] \in Seq(PlainName)
  BY <1>1, EntryHere
<1>3. /\ Len(m) \in Nat /\ Nested(m, d) /\ d[pos] \in Nat /\ d[pos] > 0 /\ Len(p[pos]) = d[pos] - 1
      /\ m[1].w = "HIVE"
  BY <1>1, <1>2, PathAt DEF Nested
<1>4. /\ end \in pos .. Len(m) - 2 /\ end + 1 \in 2 .. Len(m) - 1
      /\ p[end + 1] = p[pos] /\ d[end + 1] = d[pos] /\ ~ IsName(m[end + 1])
  BY <1>1, BehindItem
<1>5. PICK a, b, T : a = pos - 1 /\ b = end + 1 /\ T = <<>>
  OBVIOUS
<1>6. /\ a \in 1 .. Len(m) - 1 /\ b \in a + 1 .. Len(m) /\ a + 1 = pos /\ a \in Nat /\ b \in Nat
  <2>1. PICK L : L = Len(m)
    OBVIOUS
  <2>2. L \in Nat /\ pos \in 2 .. L - 1 /\ end \in pos .. L - 2
    BY <1>2, <1>3, <1>4, <2>1
  <2>3. a \in 1 .. L - 1 /\ b \in a + 1 .. L /\ a + 1 = pos /\ a \in Nat /\ b \in Nat
    BY <1>5, <2>2
  <2> QED
    BY <2>1, <2>3
<1>7. ~ IsName(m[pos])
  BY <1>2 DEF IsName, SigWords
<1> DEFINE c == [i \in 1 .. 1 |-> d[pos]]
           h == [i \in 1 .. 1 |-> p[pos]]
<1>8. T \in Seq(Tokens) /\ Len(T) = 0 /\ c[1] = d[pos] /\ h[1] = p[pos] /\ Len(T) + 1 = 1
  BY <1>5
<1>9. c \in [1 .. Len(T) + 1 -> Nat] /\ h \in [1 .. Len(T) + 1 -> Seq(PlainName)]
  BY <1>2, <1>3, <1>8
<1> HIDE DEF c, h
<1>10. Insertable(T, c, d[pos])
  BY <1>8, <1>9 DEF Insertable
<1>11. PathsOf(T, c, h)
  BY <1>8, <1>9 DEF PathsOf
<1>12. Replaces(m, d, p, a, T, c, h, b)
  BY <1>1, <1>3, <1>4, <1>5, <1>6, <1>7, <1>8, <1>10, <1>11 DEF Replaces
<1>13. Joins(m, p, a, T, h, b)
  BY <1>12, ReplaceJoins
<1>14. AddsOne(m, p, a, T, h, b)
  BY <1>8 DEF AddsOne
<1>15. PICK f, g : f = SpliceDepth(m, d, a, T, c, b) /\ g = SpliceDepth(m, p, a, T, h, b)
  OBVIOUS
<1>16. r = Splice(m, a, T, b)
  BY <1>5
<1>17. Pathed(r, f, g)
  BY <1>12, <1>15, <1>16, SplicePathed
<1>18. /\ Distinct(r, g)
       /\ Entries(r, g) = {Entry(m, p, o) : o \in Kept(m, a, b)}
                            \cup (IF Len(T) > 0 THEN {Entry(T, h, 1)} ELSE {})
  BY <1>1, <1>3, <1>13, <1>14, <1>15, <1>16, SpliceEntries
<1>19. Entries(r, g) = Without(E, sig, path)
  <2>1. {Entry(m, p, o) : o \in Kept(m, pos - 1, end + 1)} = Without(E, sig, path)
    BY RemoveKeeps
  <2>2. ~ (Len(T) > 0)
    BY <1>8
  <2>3. Entries(r, g) = {Entry(m, p, o) : o \in Kept(m, a, b)}
    BY <1>18, <2>2
  <2>4. Kept(m, a, b) = Kept(m, pos - 1, end + 1)
    BY <1>5
  <2> QED
    BY <2>1, <2>3, <2>4
<1>20. PICK N, L : N = Len(T) /\ L = Len(m)
  OBVIOUS
<1>21. /\ Len(r) = a + N + (L - b + 1)
       /\ \A i \in 1 .. Len(r) - 1 :
              \/ i \in 1 .. a /\ SamePlace(r, g, i, m, p, i)
              \/ i \in a + 1 .. a + N /\ i - a \in 1 .. N /\ SamePlace(r, g, i, T, h, i - a)
              \/ /\ i \in a + N + 1 .. Len(r) - 1 /\ i - a - N + b - 1 \in b .. L - 1
                 /\ SamePlace(r, g, i, m, p, i - a - N + b - 1)
  BY <1>13, <1>15, <1>16, <1>20, SplicePlaces
<1>22. ASSUME NEW x \in 1 .. pos - 1 PROVE r[x] = m[x] /\ g[x + 1] = p[x + 1]
  <2>1. PICK R : R = Len(r)
    OBVIOUS
  <2>a. R = a + N + (L - b + 1) /\ N = 0
    <3>1. N = 0
      BY <1>8, <1>20
    <3>2. R = a + N + (L - b + 1)
      BY <1>21, <2>1
    <3> QED
      BY <3>1, <3>2
  <2>b. L \in Nat /\ a \in Nat /\ b \in Nat /\ b <= L
    BY <1>3, <1>6, <1>20
  <2>c. x \in 1 .. a
    BY <1>5
  <2>2. x \in 1 .. a /\ a \in Nat /\ R = a + (L - b + 1) /\ L - b + 1 \in Nat /\ L - b + 1 >= 1 /\ N = 0
    BY <2>a, <2>b, <2>c
  <2>3. x \in 1 .. R - 1 /\ ~ (x \in a + 1 .. a + N) /\ ~ (x \in a + N + 1 .. R - 1)
    BY <2>2
  <2>4. SamePlace(r, g, x, m, p, x)
    BY <1>21, <2>1, <2>3
  <2> QED
    BY <2>4 DEF SamePlace
<1> QED
  BY <1>17, <1>18, <1>19, <1>22 DEF Tree

-----------------------------------------------------------------------------
(* registry_write: the hives on the way, and the cell. *)

(* A write has come to the hive with path q of a stream that stands for E. *)
AtHive(s, q, E) ==
  \E d, p : Tree(s.base.m, d, p, E) /\ HiveAt(s.base.m, d, s.pos) /\ p[s.pos + 1] = q

(* The hive a stream holds open is where the write has got to. *)
LEMMA HeldHive ==
  ASSUME NEW s, NEW E, NEW tok, tok.w = "HIVE", NEW q, Holds(s.base.m, E, s.pos, tok, q)
  PROVE  AtHive(s, q, E)
<1>1. PICK m, x : m = s.base.m /\ x = s.pos
  OBVIOUS
<1>2. PICK d, p : Tree(m, d, p, E) /\ x \in 1 .. Len(m) /\ m[x] = tok /\ p[x + 1] = q
  BY <1>1 DEF Holds
<1>3. HiveAt(m, d, x)
  BY <1>2 DEF HiveAt, Tree, Pathed
<1> QED
  BY <1>1, <1>2, <1>3 DEF AtHive

(* The stream of a base after tokens have been put into it, or an item has been
   taken out of it. *)
LEMMA InsertedStream ==
  ASSUME NEW base, Sizes(base), NEW at, NEW T, NEW extra
  PROVE  Inserted(base, at, T, extra).m = Splice(base.m, at - 1, T, at)
<1>1. base = [m |-> base.m, size |-> base.size, length |-> base.length, crc |-> base.crc]
  BY DEF Sizes
<1>2. PICK x, y : x = SubSeq(base.m, 1, at - 1) \o T \o SubSeq(base.m, at, Len(base.m))
                  /\ y = base.length + ItemWords(extra)
  OBVIOUS
<1>3. PICK r : r = Inserted(base, at, T, extra)
  OBVIOUS
<1>4. r = [base EXCEPT !.m = x, !.length = y]
  BY <1>2, <1>3, Zenon DEF Inserted
<1>5. Inserted(base, at, T, extra).m = x
  <2>1. r = [m |-> x, size |-> base.size, length |-> y, crc |-> base.crc]
    BY <1>1, <1>4, BaseUpdated
  <2> QED
    BY <1>3, <2>1
<1>6. PICK m, to : m = base.m /\ to = at - 1
  OBVIOUS
<1>7. x = SubSeq(m, 1, to) \o T \o SubSeq(m, at, Len(m))
  BY <1>2, <1>6
<1>8. Splice(m, to, T, at) = SubSeq(m, 1, to) \o T \o SubSeq(m, at, Len(m))
  BY Zenon DEF Splice
<1> QED
  BY <1>5, <1>6, <1>7, <1>8, Zenon

(* What registry_remove_item leaves is the stream without the item. *)
LEMMA RemovedStream ==
  ASSUME NEW base, Sizes(base), NEW d, Nested(base.m, d), NEW pos \in 2 .. Len(base.m) - 1
  PROVE  registry_remove_item(base, pos).m = Splice(base.m, pos - 1, <<>>, ItemEnd(base.m, pos) + 1)
<1>1. base = [m |-> base.m, size |-> base.size, length |-> base.length, crc |-> base.crc]
  BY DEF Sizes
<1>2. PICK m, end : m = base.m /\ end = ItemEnd(m, pos)
  OBVIOUS
<1>3. m \in Seq(Tokens) /\ Len(m) \in Nat /\ pos - 1 \in Nat /\ \A i \in 1 .. pos - 1 : m[i] \in Tokens
  <2>1. m \in Seq(Tokens) /\ Len(m) \in Nat
    BY <1>2 DEF Nested
  <2>2. pos - 1 \in Nat /\ \A i \in 1 .. pos - 1 : i \in 1 .. Len(m)
    BY <1>2, <2>1
  <2> QED
    BY <2>1, <2>2
<1>4. PICK x, y, z : x = SubSeq(m, 1, pos - 1) /\ y = SubSeq(m, end + 1, Len(m))
                     /\ z = base.length - Words(SubSeq(m, pos, end))
  OBVIOUS
<1>5. x \in Seq(Tokens)
  BY <1>3, <1>4, SubSeqProperties
<1>6. x \o <<>> = x
  BY <1>5, ConcatEmptySeq
<1>7. PICK r : r = registry_remove_item(base, pos)
  OBVIOUS
<1>8. r = [base EXCEPT !.m = x \o y, !.length = z]
  BY <1>2, <1>4, <1>7, Zenon DEF registry_remove_item, ItemEnd
<1>9. registry_remove_item(base, pos).m = x \o y
  <2>1. r = [m |-> x \o y, size |-> base.size, length |-> z, crc |-> base.crc]
    BY <1>1, <1>8, BaseUpdated
  <2> QED
    BY <1>7, <2>1
<1>10. Splice(m, pos - 1, <<>>, end + 1) = (x \o <<>>) \o y
  BY <1>4 DEF Splice
<1>11. registry_remove_item(base, pos).m = Splice(m, pos - 1, <<>>, end + 1)
  BY <1>6, <1>9, <1>10, Zenon
<1> QED
  BY <1>2, <1>11, Zenon

(* No item has a key that no entry has. *)
LEMMA NoItem ==
  ASSUME NEW m, NEW d, NEW p, NEW E, Tree(m, d, p, E), NEW sig, NEW path
  PROVE  (\A i \in Items(m) : ~ HasKey(Entry(m, p, i), sig, path)) <=> (\A e \in E : ~ HasKey(e, sig, path))
BY DEF Tree, Entries

(* A hive that a write adds is entered. *)
LEMMA AddHiveTree ==
  ASSUME NEW q \in Seq(PlainName), NEW k, k = Len(q), NEW s, WriteState(s, k), ~ s.aborted,
         NEW E, AtHive(s, q, E), NEW name \in PlainName, NEW path, path = Append(q, name),
         \A e \in E : ~ HasKey(e, "HIVE", path),
         NEW r, r = registry_add_hive(s, name, k + 1), ~ r.aborted
  PROVE  AtHive(r, path, E \cup {HiveEntry(path)})
<1>1. PICK base, x, at, T, b : /\ base = s.base /\ x = s.pos /\ at = FindEndTag(base.m, x)
                               /\ T = <<REG_HIVE_SIG_S, HiveName(name, k + 1), REG_HIVE_SIG_E>>
                               /\ b = Inserted(base, at, T, 0)
  OBVIOUS
<1>2. s = [base |-> s.base, pos |-> s.pos, aborted |-> s.aborted] /\ Sizes(base)
  BY <1>1 DEF WriteState
<1>3. HasRoom(base, 0)
  <2>1. ASSUME ~ HasRoom(base, 0) PROVE FALSE
    <3>1. r = [s EXCEPT !.aborted = TRUE]
      BY <1>1, <2>1 DEF registry_add_hive
    <3>2. [s EXCEPT !.aborted = TRUE] = [base |-> s.base, pos |-> s.pos, aborted |-> TRUE]
      BY <1>2, AbortUpdated
    <3>3. r.aborted = TRUE
      BY <3>1, <3>2
    <3> QED
      BY <3>3
  <2> QED
    BY <2>1
<1>4. r.base = b /\ r.pos = at
  <2>1. r = [s EXCEPT !.base = b, !.pos = at]
    <3>1. HasRoom(s.base, 0)
      BY <1>1, <1>3
    <3>2. /\ FindEndTag(s.base.m, s.pos) = at
          /\ Inserted(s.base, at, <<REG_HIVE_SIG_S, HiveName(name, k + 1), REG_HIVE_SIG_E>>, 0) = b
      BY <1>1
    <3> QED
      BY <3>1, <3>2, Zenon DEF registry_add_hive
  <2>2. [s EXCEPT !.base = b, !.pos = at] = [base |-> b, pos |-> at, aborted |-> s.aborted]
    BY <1>2, StateUpdated
  <2> QED
    BY <2>1, <2>2
<1>5. PICK m : m = base.m
  OBVIOUS
<1>6. PICK d, p : Tree(m, d, p, E) /\ HiveAt(m, d, x) /\ p[x + 1] = q
  BY <1>1, <1>5 DEF AtHive
<1>7. Pathed(m, d, p)
  BY <1>6 DEF Tree
<1>8. Len(p[x + 1]) = d[x]
  BY <1>6, <1>7, HiveHere
<1>9. PICK depth : depth = k + 1
  OBVIOUS
<1>10. depth = d[x] + 1 /\ T = <<REG_HIVE_SIG_S, HiveName(name, depth), REG_HIVE_SIG_E>>
  BY <1>1, <1>6, <1>8, <1>9
<1>11. \A o \in Items(m) : ~ HasKey(Entry(m, p, o), "HIVE", path)
  BY <1>6, NoItem
<1>12. path = Append(p[x + 1], name)
  BY <1>6
<1>13. Brings(m, d, p, x, T, HiveEntry(path), path)
  BY <1>6, <1>10, <1>11, <1>12, HiveEnters
<1>14. PICK n : n = Splice(m, at - 1, T, at)
  OBVIOUS
<1>15. Holds(n, E \cup {HiveEntry(path)}, at, T[1], path)
  <2>1. PICK e, i : e = HiveEntry(path) /\ i = at
    OBVIOUS
  <2>2. Brings(m, d, p, x, T, e, path) /\ i = FindEndTag(m, x) /\ n = Splice(m, i - 1, T, i)
    BY <1>1, <1>5, <1>13, <1>14, <2>1
  <2>3. Holds(n, E \cup {e}, i, T[1], path)
    BY <1>6, <2>2, InsertTree
  <2> QED
    BY <2>1, <2>3
<1>16. b.m = n
  <2>1. Inserted(base, at, T, 0).m = Splice(base.m, at - 1, T, at)
    BY <1>2, InsertedStream, Zenon
  <2> QED
    BY <1>1, <1>5, <1>14, <2>1, Zenon
<1>17. T[1].w = "HIVE"
  BY <1>1 DEF REG_HIVE_SIG_S
<1>18. Holds(r.base.m, E \cup {HiveEntry(path)}, r.pos, T[1], path)
  BY <1>4, <1>15, <1>16, Zenon
<1> QED
  BY <1>17, <1>18, HeldHive, Zenon

(* A hive that a write goes into is there then, with no change to the others. *)
LEMMA IntoHiveTree ==
  ASSUME NEW q \in Seq(PlainName), NEW k, k = Len(q), NEW s, WriteState(s, k),
         NEW E, ~ s.aborted => AtHive(s, q, E), NEW name \in PlainName, NEW path, path = Append(q, name),
         NEW r, r = IntoHive(s, name, k + 1), ~ r.aborted
  PROVE  ~ s.aborted /\ AtHive(r, path, E \cup {HiveEntry(path)})
<1>1. ~ s.aborted
  BY DEF IntoHive
<1>2. PICK m, x : m = s.base.m /\ x = s.pos
  OBVIOUS
<1>3. PICK d, p : Tree(m, d, p, E) /\ HiveAt(m, d, x) /\ p[x + 1] = q
  BY <1>1, <1>2 DEF AtHive
<1>4. Pathed(m, d, p) /\ Distinct(m, p) /\ Entries(m, p) = E
  BY <1>3 DEF Tree
<1>5. PICK j : j = FindItem(m, x, name, "HIVE")
  OBVIOUS
<1>6. /\ j # NULL => /\ j \in Items(m) /\ m[j].w = "HIVE"
                     /\ HasKey(Entry(m, p, j), "HIVE", Append(p[x + 1], name))
      /\ j = NULL => \A i \in Items(m) : ~ HasKey(Entry(m, p, i), "HIVE", Append(p[x + 1], name))
  BY <1>3, <1>4, <1>5, FindItemEntry
<1>7. CASE j = NULL
  <2>1. \A e \in E : ~ HasKey(e, "HIVE", path)
    <3>1. \A i \in Items(m) : ~ HasKey(Entry(m, p, i), "HIVE", path)
      BY <1>3, <1>6, <1>7
    <3> QED
      BY <1>3, <3>1, NoItem
  <2>2. r = registry_add_hive(s, name, k + 1)
    BY <1>1, <1>2, <1>5, <1>7 DEF IntoHive
  <2>3. AtHive(s, q, E)
    BY <1>1
  <2> QED
    BY <1>1, <2>1, <2>2, <2>3, AddHiveTree
<1>8. CASE j # NULL
  <2>1. r = [s EXCEPT !.pos = j]
    BY <1>1, <1>2, <1>5, <1>8 DEF IntoHive
  <2>2. s = [base |-> s.base, pos |-> s.pos, aborted |-> s.aborted]
    BY DEF WriteState
  <2>3. [s EXCEPT !.pos = j] = [base |-> s.base, pos |-> j, aborted |-> s.aborted]
    BY <2>2, PosUpdated
  <2>4. r.base = s.base /\ r.pos = j
    BY <2>1, <2>3
  <2>5. j \in Items(m) /\ m[j].w = "HIVE" /\ HasKey(Entry(m, p, j), "HIVE", path)
    BY <1>3, <1>6, <1>8
  <2>6. j \in 2 .. Len(m) - 1
    BY <1>4, <2>5, EntryHere
  <2>7. Nested(m, d) /\ j \in 1 .. Len(m)
    BY <1>4, <2>6, PathAt
  <2>8. HiveAt(m, d, j)
    BY <2>5, <2>7 DEF HiveAt
  <2>9. j # 1
    BY <2>6
  <2>10. Entry(m, p, j) = [sig |-> "HIVE", path |-> p[j + 1], v |-> NULL]
    BY <1>4, <2>8, <2>9, HiveHere
  <2>11. p[j + 1] = path
    <3>1. Entry(m, p, j).path = p[j + 1]
      BY <2>10
    <3> QED
      BY <2>5, <3>1 DEF HasKey
  <2>12. HiveEntry(path) \in E
    BY <1>4, <2>5, <2>10, <2>11 DEF HiveEntry, Entries
  <2>13. E \cup {HiveEntry(path)} = E
    BY <2>12
  <2> QED
    BY <1>1, <1>2, <1>3, <2>4, <2>8, <2>11, <2>13 DEF AtHive
<1> QED
  BY <1>7, <1>8

(* The hives on the way to the last name of a path. *)
HivesOn(path) == {HiveEntry(SubSeq(path, 1, i)) : i \in 1 .. Len(path) - 1}

(* A write that has gone down a path has made the hives that were not there. *)
LEMMA AddHivesTree ==
  ASSUME NEW base, Sizes(base), NEW d, NEW p, NEW E, Tree(base.m, d, p, E),
         NEW path \in Seq(PlainName), path # <<>>, NEW s, s = AddHives(base, path), ~ s.aborted
  PROVE  AtHive(s, Front(path), E \cup HivesOn(path))
<1>1. Len(path) \in Nat /\ Len(path) > 0 /\ \A i \in 1 .. Len(path) : path[i] \in PlainName
  OBVIOUS
<1>2. PICK f : Way(base, path, f) /\ AddHives(base, path) = f[Len(path) - 1]
  BY <1>1, AddHivesIs
<1>3. Nested(base.m, d) /\ 1 \in 1 .. Len(base.m) /\ base.m[1].w = "HIVE" /\ d[1] = 0 /\ p[1 + 1] = <<>>
  BY DEF Tree, Pathed, Nested
<1>4. HiveAt(base.m, d, 1)
  BY <1>3 DEF HiveAt
<1> DEFINE To(k) == {HiveEntry(SubSeq(path, 1, i)) : i \in 1 .. k}
           Right(k) == /\ WriteState(f[k], k)
                       /\ ~ f[k].aborted => AtHive(f[k], SubSeq(path, 1, k), E \cup To(k))
           S == {k \in Nat : k < Len(path) => Right(k)}
<1>5. 0 \in S
  <2>1. f[0] = [base |-> base, pos |-> 1, aborted |-> FALSE]
    BY <1>2 DEF Way
  <2>2. WriteState(f[0], 0)
    BY <1>3, <1>4, <2>1, WriteStateIs
  <2>3. SubSeq(path, 1, 0) = <<>> /\ E \cup To(0) = E
    BY BeginningNone
  <2>4. f[0].base = base /\ f[0].pos = 1
    BY <2>1
  <2>5. AtHive(f[0], <<>>, E)
    BY <1>3, <1>4, <2>4 DEF AtHive
  <2> HIDE DEF To
  <2> QED
    BY <2>2, <2>3, <2>5
<1>6. ASSUME NEW k \in Nat, k \in S PROVE k + 1 \in S
  <2> HIDE DEF Right
  <2> SUFFICES ASSUME k + 1 < Len(path) PROVE Right(k + 1)
    OBVIOUS
  <2>1. k + 1 \in 1 .. Len(path) - 1 /\ k + 1 \in 1 .. Len(path) /\ k + 1 - 1 = k /\ k < Len(path)
        /\ k + 1 <= Len(path)
    BY <1>1
  <2>2. PICK t, r, name, q, next : /\ t = f[k] /\ r = f[k + 1] /\ name = path[k + 1]
                                   /\ q = SubSeq(path, 1, k) /\ next = SubSeq(path, 1, k + 1)
    OBVIOUS
  <2>3. WriteState(t, k) /\ (~ t.aborted => AtHive(t, q, E \cup To(k)))
    <3>1. Right(k)
      BY <1>6, <2>1
    <3> HIDE DEF To
    <3> QED
      BY <2>2, <3>1 DEF Right
  <2>4. r = IntoHive(t, name, k + 1)
    BY <1>2, <2>1, <2>2 DEF Way
  <2>5. q \in Seq(PlainName) /\ name \in PlainName /\ next = Append(q, name) /\ Len(q) = k
    BY <2>1, <2>2, BeginningNext
  <2>6. WriteState(r, k + 1)
    BY <2>3, <2>4, <2>5, IntoHiveSound
  <2>7. E \cup To(k) \cup {HiveEntry(next)} = E \cup To(k + 1)
    <3>1. 1 .. k + 1 = (1 .. k) \cup {k + 1}
      OBVIOUS
    <3> QED
      BY <2>2, <3>1
  <2>8. ASSUME ~ r.aborted PROVE AtHive(r, next, E \cup To(k + 1))
    <3> HIDE DEF To
    <3>1. PICK F : F = E \cup To(k)
      OBVIOUS
    <3>2. ~ t.aborted => AtHive(t, q, F)
      BY <2>3, <3>1
    <3>3. AtHive(r, next, F \cup {HiveEntry(next)})
      BY <2>3, <2>4, <2>5, <2>8, <3>2, IntoHiveTree
    <3> QED
      BY <2>7, <3>1, <3>3
  <2> HIDE DEF To
  <2> QED
    BY <2>2, <2>6, <2>8 DEF Right
<1>7. Len(path) - 1 \in S
  <2>1. Len(path) - 1 \in Nat
    BY <1>1
  <2> HIDE DEF S
  <2> QED
    BY <1>5, <1>6, <2>1, SetInduction
<1>8. AtHive(s, SubSeq(path, 1, Len(path) - 1), E \cup To(Len(path) - 1))
  <2>1. Right(Len(path) - 1)
    <3> HIDE DEF Right
    <3> QED
      BY <1>1, <1>7
  <2> HIDE DEF To
  <2> QED
    BY <1>2, <2>1
<1> QED
  BY <1>8 DEF HivesOn, Front

(* What the value of an entry is. *)
LEMMA CellTokenIs ==
  ASSUME NEW name \in PlainName, NEW v \in {Stored(v) : v \in Values},
         NEW tok, tok = Cell(name, v.type, v.len, v.data), NEW path
  PROVE  tok \in Tokens /\ tok.w = "CELL" /\ tok.name = name /\ CellEntry(path, tok) = CellEntry(path, v)
<1>1. tok \in Tokens
  BY DEF Tokens
<1>2. tok.w = "CELL" /\ tok.name = name /\ tok.type = v.type /\ tok.len = v.len /\ tok.data = v.data
  BY DEF Cell
<1> QED
  BY <1>1, <1>2 DEF CellEntry

(* A cell with a new name is added. *)
LEMMA AddCellTree ==
  ASSUME NEW q \in Seq(PlainName), NEW s, WriteState(s, Len(q)), ~ s.aborted,
         NEW E, AtHive(s, q, E), NEW name \in PlainName, NEW path, path = Append(q, name),
         \A e \in E : ~ HasKey(e, "CELL", path), NEW v \in {Stored(v) : v \in Values},
         NEW r, r = registry_add_cell(s, name, v), ~ r.aborted
  PROVE  AtHive(r, q, E \cup {CellEntry(path, v)})
<1>1. PICK base, x, at, tok, T, n, b :
        /\ base = s.base /\ x = s.pos /\ at = FindEndTag(base.m, x) /\ n = v.len
        /\ tok = Cell(name, v.type, v.len, v.data) /\ T = <<tok>> /\ b = Inserted(base, at, T, n)
  OBVIOUS
<1>2. s = [base |-> s.base, pos |-> s.pos, aborted |-> s.aborted] /\ Sizes(base)
  BY <1>1 DEF WriteState
<1>3. HasRoom(base, n)
  <2>1. ASSUME ~ HasRoom(base, n) PROVE FALSE
    <3>1. r = [s EXCEPT !.aborted = TRUE]
      BY <1>1, <2>1 DEF registry_add_cell
    <3>2. [s EXCEPT !.aborted = TRUE] = [base |-> s.base, pos |-> s.pos, aborted |-> TRUE]
      BY <1>2, AbortUpdated
    <3>3. r.aborted = TRUE
      BY <3>1, <3>2
    <3> QED
      BY <3>3
  <2> QED
    BY <2>1
<1>4. r.base = b /\ r.pos = x
  <2>1. r = [s EXCEPT !.base = b]
    <3>1. HasRoom(s.base, v.len)
      BY <1>1, <1>3
    <3>2. /\ FindEndTag(s.base.m, s.pos) = at
          /\ Inserted(s.base, at, <<Cell(name, v.type, v.len, v.data)>>, v.len) = b
      BY <1>1
    <3> QED
      BY <3>1, <3>2, Zenon DEF registry_add_cell
  <2>2. [s EXCEPT !.base = b] = [base |-> b, pos |-> s.pos, aborted |-> s.aborted]
    BY <1>2, StreamUpdated
  <2> QED
    BY <1>1, <2>1, <2>2
<1>5. PICK m : m = base.m
  OBVIOUS
<1>6. PICK d, p : Tree(m, d, p, E) /\ HiveAt(m, d, x) /\ p[x + 1] = q
  BY <1>1, <1>5 DEF AtHive
<1>7. tok \in Tokens /\ tok.w = "CELL" /\ tok.name = name /\ CellEntry(path, tok) = CellEntry(path, v)
  BY <1>1, CellTokenIs
<1>8. \A o \in Items(m) : ~ HasKey(Entry(m, p, o), "CELL", path)
  BY <1>6, NoItem
<1>9. path = Append(p[x + 1], name)
  BY <1>6
<1>10. Brings(m, d, p, x, T, CellEntry(path, tok), p[x + 1])
  BY <1>1, <1>6, <1>7, <1>8, <1>9, CellEnters
<1>11. PICK z : z = Splice(m, at - 1, T, at)
  OBVIOUS
<1>12. Holds(z, E \cup {CellEntry(path, tok)}, x, m[x], p[x + 1])
  BY <1>1, <1>5, <1>6, <1>10, <1>11, InsertTree
<1>13. b.m = z
  <2>1. Inserted(base, at, T, n).m = Splice(base.m, at - 1, T, at)
    BY <1>2, InsertedStream, Zenon
  <2> QED
    BY <1>1, <1>5, <1>11, <2>1, Zenon
<1>14. m[x].w = "HIVE"
  BY <1>6 DEF HiveAt
<1>15. AtHive(r, p[x + 1], E \cup {CellEntry(path, tok)})
  BY <1>4, <1>12, <1>13, <1>14, HeldHive
<1> QED
  BY <1>6, <1>7, <1>15

(* A hive in front of an item stays a hive when the item is removed. *)
LEMMA RemoveStays ==
  ASSUME NEW base, Sizes(base), NEW d, Nested(base.m, d), NEW pos \in 2 .. Len(base.m) - 1,
         base.m[pos].w \in {"HIVE", "CELL"}, NEW b, b = registry_remove_item(base, pos),
         NEW x \in 1 .. pos - 1, base.m[x].w = "HIVE", NEW k, k = d[x]
  PROVE  WriteState([base |-> b, pos |-> x, aborted |-> FALSE], k) /\ x \in 1 .. Len(b.m)
<1>1. Sizes(b) /\ \E e : HiveAt(b.m, e, x) /\ e[x] = k
  BY RemoveSound
<1>2. PICK e : HiveAt(b.m, e, x) /\ e[x] = k
  BY <1>1
<1>3. x \in 1 .. Len(b.m)
  BY <1>2 DEF HiveAt
<1> QED
  BY <1>1, <1>2, <1>3, WriteStateIs

(* A cell is replaced: what was at its path is gone. *)
LEMMA ReplaceCellTree ==
  ASSUME NEW q \in Seq(PlainName), NEW s, WriteState(s, Len(q)), ~ s.aborted,
         NEW E, AtHive(s, q, E), NEW name \in PlainName, NEW path, path = Append(q, name),
         NEW v \in {Stored(v) : v \in Values}, NEW r, r = ReplaceCell(s, name, v), ~ r.aborted
  PROVE  AtHive(r, q, Without(E, "CELL", path) \cup {CellEntry(path, v)})
<1>1. PICK m, x : m = s.base.m /\ x = s.pos
  OBVIOUS
<1>2. PICK d, p : Tree(m, d, p, E) /\ HiveAt(m, d, x) /\ p[x + 1] = q
  BY <1>1 DEF AtHive
<1>3. Pathed(m, d, p) /\ Distinct(m, p) /\ Entries(m, p) = E
  BY <1>2 DEF Tree
<1>4. PICK j : j = FindItem(m, x, name, "CELL")
  OBVIOUS
<1>5. /\ j # NULL => /\ j \in Items(m) /\ j \in x + 2 .. Len(m) - 1 /\ m[j].w = "CELL"
                     /\ HasKey(Entry(m, p, j), "CELL", Append(p[x + 1], name))
      /\ j = NULL => \A i \in Items(m) : ~ HasKey(Entry(m, p, i), "CELL", Append(p[x + 1], name))
  BY <1>2, <1>3, <1>4, FindItemEntry
<1>6. CASE j = NULL
  <2>1. \A e \in E : ~ HasKey(e, "CELL", path)
    <3>1. \A i \in Items(m) : ~ HasKey(Entry(m, p, i), "CELL", path)
      BY <1>2, <1>5, <1>6
    <3> QED
      BY <1>2, <3>1, NoItem
  <2>2. Without(E, "CELL", path) = E
    BY <2>1 DEF Without
  <2>3. r = registry_add_cell(s, name, v)
    BY <1>1, <1>4, <1>6 DEF ReplaceCell
  <2>4. AtHive(r, q, E \cup {CellEntry(path, v)})
    BY <2>1, <2>3, AddCellTree
  <2> QED
    BY <2>2, <2>4
<1>7. CASE j # NULL
  <2>1. PICK b, t, F : /\ b = registry_remove_item(s.base, j) /\ t = [s EXCEPT !.base = b]
                       /\ F = Without(E, "CELL", path)
    OBVIOUS
  <2>2. r = registry_add_cell(t, name, v)
    <3>1. [s EXCEPT !.base = registry_remove_item(@, j)] = t
      BY <2>1
    <3> QED
      BY <1>1, <1>4, <1>7, <3>1 DEF ReplaceCell
  <2>3. /\ s = [base |-> s.base, pos |-> s.pos, aborted |-> s.aborted]
        /\ s.aborted = FALSE /\ Sizes(s.base)
    BY DEF WriteState
  <2>4. t = [base |-> b, pos |-> x, aborted |-> FALSE]
    BY <1>1, <2>1, <2>3, StreamUpdated
  <2>5. t.base = b /\ t.pos = x /\ ~ t.aborted
    BY <2>4
  <2>6. j \in Items(m) /\ j \in x + 2 .. Len(m) - 1 /\ m[j].w = "CELL" /\ HasKey(Entry(m, p, j), "CELL", path)
    BY <1>2, <1>5, <1>7
  <2>7. x \in 1 .. Len(m) /\ Len(m) \in Nat /\ Nested(m, d) /\ m[x].w = "HIVE"
    BY <1>2 DEF HiveAt, Nested
  <2>8. x \in 1 .. j - 1 /\ j \in 2 .. Len(m) - 1
    BY <2>6, <2>7
  <2>9. PICK end : end = ItemEnd(m, j)
    OBVIOUS
  <2>10. b.m = Splice(m, j - 1, <<>>, end + 1)
    BY <1>1, <2>1, <2>3, <2>7, <2>8, <2>9, RemovedStream
  <2>11. PICK z : z = Splice(m, j - 1, <<>>, end + 1)
    OBVIOUS
  <2>12. PICK sig : sig = "CELL"
    OBVIOUS
  <2>13. \E f, g : /\ Tree(z, f, g, Without(E, sig, path))
                   /\ \A y \in 1 .. j - 1 : z[y] = m[y] /\ g[y + 1] = p[y + 1]
    BY <1>2, <2>6, <2>9, <2>11, <2>12, RemoveTree
  <2>14. PICK f, g : Tree(z, f, g, F) /\ z[x] = m[x] /\ g[x + 1] = q
    BY <1>2, <2>1, <2>8, <2>12, <2>13
  <2>15. WriteState(t, Len(q)) /\ x \in 1 .. Len(z)
    <3>1. PICK base : base = s.base
      OBVIOUS
    <3>2. PICK k : k = d[x]
      OBVIOUS
    <3>3. WriteState([base |-> b, pos |-> x, aborted |-> FALSE], k) /\ x \in 1 .. Len(b.m)
      <4>1. Sizes(base) /\ Nested(base.m, d) /\ j \in 2 .. Len(base.m) - 1
        BY <1>1, <2>3, <2>7, <2>8, <3>1
      <4>2. /\ base.m[j].w \in {"HIVE", "CELL"} /\ b = registry_remove_item(base, j)
            /\ base.m[x].w = "HIVE" /\ x \in 1 .. j - 1
        BY <1>1, <2>1, <2>6, <2>7, <2>8, <3>1
      <4> QED
        BY <3>2, <4>1, <4>2, RemoveStays
    <3>4. k = Len(q)
      BY <1>2, <1>3, <3>2, HiveHere
    <3> QED
      BY <2>4, <2>10, <2>11, <3>3, <3>4
  <2>16. HiveAt(z, f, x)
    BY <2>7, <2>14, <2>15 DEF HiveAt, Tree, Pathed
  <2>17. AtHive(t, q, F)
    BY <2>5, <2>10, <2>11, <2>14, <2>16 DEF AtHive
  <2>18. \A e \in F : ~ HasKey(e, "CELL", path)
    BY <2>1 DEF Without
  <2>19. AtHive(r, q, F \cup {CellEntry(path, v)})
    BY <2>2, <2>5, <2>15, <2>17, <2>18, AddCellTree
  <2> QED
    BY <2>1, <2>19
<1> QED
  BY <1>6, <1>7

-----------------------------------------------------------------------------
(* What a write and a remove make of the entries. *)

(* The stream m stands for the entries E. *)
Stands(m, E) == \E d, p : Tree(m, d, p, E)

Has(E, sig, path) == \E e \in E : HasKey(e, sig, path)

(* What the registry stands for after a write, and after a remove. *)
Written(E, path, v) ==
  IF Has(E, "HIVE", path) THEN E \cup HivesOn(path)
  ELSE Without(E \cup HivesOn(path), "CELL", path) \cup {CellEntry(path, v)}

SigFound(E, path) == IF Has(E, "CELL", path) THEN "CELL" ELSE "HIVE"

Removed(E, path) ==
  IF Has(E, "CELL", path) \/ Has(E, "HIVE", path) THEN Without(E, SigFound(E, path), path) ELSE E

(* A path leads to an item just if it has an entry, and to the item of that entry. *)
LEMMA FindInStands ==
  ASSUME NEW m, NEW E, Stands(m, E), NEW path \in Seq(PlainName), path # <<>>,
         NEW sig \in {"HIVE", "CELL"}, NEW at, at = FindIn(m, path, sig)
  PROVE  /\ at # NULL <=> Has(E, sig, path)
         /\ at # NULL => m[at].w = sig
         /\ at # NULL /\ sig = "CELL" => CellEntry(path, m[at]) \in E
<1>1. PICK d, p : Tree(m, d, p, E)
  BY DEF Stands
<1>2. Pathed(m, d, p) /\ Distinct(m, p) /\ E = {Entry(m, p, i) : i \in Items(m)}
  BY <1>1 DEF Tree, Entries
<1>3. /\ at # NULL => at \in Items(m) /\ m[at].w = sig /\ HasKey(Entry(m, p, at), sig, path)
      /\ at = NULL => \A i \in Items(m) : ~ HasKey(Entry(m, p, i), sig, path)
  BY <1>2, FindInEntry
<1>4. CASE at = NULL
  <2>1. \A e \in E : ~ HasKey(e, sig, path)
    BY <1>2, <1>3, <1>4
  <2> QED
    BY <1>4, <2>1 DEF Has
<1>5. CASE at # NULL
  <2>1. at \in Items(m) /\ m[at].w = sig /\ HasKey(Entry(m, p, at), sig, path)
    BY <1>3, <1>5
  <2>2. Entry(m, p, at) \in E
    BY <1>2, <2>1
  <2>3. Has(E, sig, path)
    BY <2>1, <2>2 DEF Has
  <2>4. ASSUME sig = "CELL" PROVE CellEntry(path, m[at]) = Entry(m, p, at)
    <3>1. PICK tok, e : tok = m[at] /\ e = Entry(m, p, at)
      OBVIOUS
    <3>2. e = EntryOf(tok, m[at + 1], p[at]) /\ e.path = path
      BY <2>1, <3>1 DEF Entry, HasKey
    <3>3. e = [sig |-> "CELL", path |-> path, v |-> [type |-> tok.type, len |-> tok.len, data |-> tok.data]]
      <4>1. PICK pth, val, next : /\ next = m[at + 1] /\ val = [type |-> tok.type, len |-> tok.len, data |-> tok.data]
                                  /\ pth = Append(p[at], IF tok.w = "HIVE" THEN next.w ELSE tok.name)
        OBVIOUS
      <4>2. tok.w = "CELL"
        BY <2>1, <2>4, <3>1
      <4>3. e = [sig |-> "CELL", path |-> pth, v |-> val]
        BY <3>2, <4>1, <4>2 DEF EntryOf
      <4>4. pth = path
        BY <3>2, <4>3
      <4> QED
        BY <4>1, <4>3, <4>4
    <3> QED
      BY <3>1, <3>3 DEF CellEntry
  <2> QED
    BY <1>5, <2>1, <2>2, <2>3, <2>4
<1> QED
  BY <1>4, <1>5

(* Removing an item that is found removes its entry, and those within a hive. *)
LEMMA RemoveStands ==
  ASSUME NEW base, Sizes(base), NEW E, Stands(base.m, E), NEW path \in Seq(PlainName), path # <<>>,
         NEW at, at = Found(base.m, path)
  PROVE  /\ at # NULL <=> Has(E, "CELL", path) \/ Has(E, "HIVE", path)
         /\ at # NULL => Stands(registry_remove_item(base, at).m, Removed(E, path))
<1>1. PICK m, sig : m = base.m /\ sig = SigFound(E, path)
  OBVIOUS
<1>2. /\ FindIn(m, path, "CELL") # NULL <=> Has(E, "CELL", path)
      /\ FindIn(m, path, "HIVE") # NULL <=> Has(E, "HIVE", path)
  BY <1>1, FindInStands
<1>3. sig \in {"HIVE", "CELL"} /\ at = FindIn(m, path, sig)
  BY <1>1, <1>2 DEF Found, SigFound
<1>4. at # NULL <=> Has(E, "CELL", path) \/ Has(E, "HIVE", path)
  BY <1>1, <1>2, <1>3 DEF SigFound
<1>5. ASSUME at # NULL PROVE Stands(registry_remove_item(base, at).m, Removed(E, path))
  <2>1. PICK d, p : Tree(m, d, p, E)
    BY <1>1 DEF Stands
  <2>2. Pathed(m, d, p) /\ Distinct(m, p)
    BY <2>1 DEF Tree
  <2>3. at \in Items(m) /\ HasKey(Entry(m, p, at), sig, path)
    BY <1>3, <1>5, <2>2, FindInEntry
  <2>4. at \in 2 .. Len(m) - 1
    BY <2>2, <2>3, EntryHere
  <2>5. Nested(m, d)
    BY <2>2 DEF Pathed
  <2>6. PICK end, r : end = ItemEnd(m, at) /\ r = Splice(m, at - 1, <<>>, end + 1)
    OBVIOUS
  <2>7. registry_remove_item(base, at).m = r
    <3>1. registry_remove_item(base, at).m = Splice(base.m, at - 1, <<>>, ItemEnd(base.m, at) + 1)
      BY <1>1, <2>4, <2>5, RemovedStream
    <3> QED
      BY <1>1, <2>6, <3>1, Zenon
  <2>8. sig = "HIVE" => \A e \in E : ~ HasKey(e, "CELL", path)
    BY <1>1 DEF SigFound, Has
  <2>9. \E f, g : Tree(r, f, g, Without(E, sig, path))
    BY <1>3, <2>1, <2>3, <2>6, <2>8, RemoveTree
  <2>10. Removed(E, path) = Without(E, sig, path)
    BY <1>1, <1>4, <1>5 DEF Removed
  <2> QED
    BY <2>7, <2>9, <2>10 DEF Stands
<1> QED
  BY <1>4, <1>5

(* The hives on the way to a path are shorter than it. *)
LEMMA OnTheWay ==
  ASSUME NEW path \in Seq(PlainName), path # <<>>, NEW e \in HivesOn(path)
  PROVE  e.sig = "HIVE" /\ e.path # path
<1>1. PICK i \in 1 .. Len(path) - 1 : e = HiveEntry(SubSeq(path, 1, i))
  BY DEF HivesOn
<1>2. Len(path) \in Nat /\ i \in Nat /\ i < Len(path) /\ \A k \in 1 .. i : path[k] \in PlainName
  OBVIOUS
<1>3. Len(SubSeq(path, 1, i)) = i
  BY <1>2, SubSeqProperties
<1>4. SubSeq(path, 1, i) # path
  BY <1>2, <1>3
<1> QED
  BY <1>1, <1>4 DEF HiveEntry

(* A write that has room makes what it is to make, and does not put a cell in
   the place of a hive. *)
LEMMA WriteStands ==
  ASSUME NEW base, Sizes(base), NEW E, Stands(base.m, E), NEW path \in Seq(PlainName), path # <<>>,
         NEW v \in {Stored(v) : v \in Values}, NEW s, s = AddHives(base, path), ~ s.aborted,
         NEW clash, clash = (FindItem(s.base.m, s.pos, Last(path), "HIVE") # NULL),
         NEW s2, s2 = IF s.aborted \/ clash THEN s ELSE ReplaceCell(s, Last(path), v), ~ s2.aborted
  PROVE  (clash <=> Has(E, "HIVE", path)) /\ Stands(s2.base.m, Written(E, path, v))
<1>1. PICK q, name, F : q = Front(path) /\ name = Last(path) /\ F = E \cup HivesOn(path)
  OBVIOUS
<1>2. q \in Seq(PlainName) /\ name \in PlainName /\ path = Append(q, name) /\ Len(q) = Len(path) - 1
  BY <1>1, FrontLast
<1>3. PICK d, p : Tree(base.m, d, p, E)
  BY DEF Stands
<1>4. HiveAt(base.m, d, 1)
  BY <1>3 DEF Tree, Pathed, HiveAt, Nested
<1>5. AtHive(s, q, F)
  BY <1>1, <1>3, AddHivesTree
<1>6. WriteState(s, Len(q))
  <2>1. WriteState(AddHives(base, path), Len(path) - 1)
    BY <1>4, AddHivesSound
  <2> QED
    BY <1>2, <2>1
<1>7. PICK m, x : m = s.base.m /\ x = s.pos
  OBVIOUS
<1>8. PICK f, g : Tree(m, f, g, F) /\ HiveAt(m, f, x) /\ g[x + 1] = q
  BY <1>5, <1>7 DEF AtHive
<1>9. clash <=> Has(F, "HIVE", path)
  <2>1. PICK j : j = FindItem(m, x, name, "HIVE")
    OBVIOUS
  <2>2. Pathed(m, f, g) /\ Distinct(m, g) /\ F = {Entry(m, g, i) : i \in Items(m)}
    BY <1>8 DEF Tree, Entries
  <2>3. /\ j # NULL => j \in Items(m) /\ HasKey(Entry(m, g, j), "HIVE", Append(g[x + 1], name))
        /\ j = NULL => \A i \in Items(m) : ~ HasKey(Entry(m, g, i), "HIVE", Append(g[x + 1], name))
    BY <1>2, <1>8, <2>1, <2>2, FindItemEntry
  <2>4. Append(g[x + 1], name) = path
    BY <1>2, <1>8
  <2>5. clash <=> j # NULL
    BY <1>1, <1>7, <2>1
  <2> QED
    BY <2>2, <2>3, <2>4, <2>5 DEF Has
<1>10. Has(F, "HIVE", path) <=> Has(E, "HIVE", path)
  <2>1. \A e \in HivesOn(path) : ~ HasKey(e, "HIVE", path)
    BY OnTheWay DEF HasKey
  <2> QED
    BY <1>1, <2>1 DEF Has
<1>11. CASE clash
  <2>1. s2 = s
    BY <1>11
  <2>2. Written(E, path, v) = F
    BY <1>1, <1>9, <1>10, <1>11 DEF Written
  <2>3. Stands(m, F)
    BY <1>8 DEF Stands
  <2>4. Has(E, "HIVE", path)
    BY <1>9, <1>10, <1>11
  <2> QED
    BY <1>7, <1>11, <2>1, <2>2, <2>3, <2>4
<1>12. CASE ~ clash
  <2>1. s2 = ReplaceCell(s, name, v)
    BY <1>1, <1>12
  <2>2. ~ Has(E, "HIVE", path)
    BY <1>9, <1>10, <1>12
  <2>3. AtHive(s2, q, Without(F, "CELL", path) \cup {CellEntry(path, v)})
    BY <1>2, <1>5, <1>6, <2>1, ReplaceCellTree
  <2>4. Written(E, path, v) = Without(F, "CELL", path) \cup {CellEntry(path, v)}
    BY <1>1, <2>2 DEF Written
  <2>5. AtHive(s2, q, Written(E, path, v))
    BY <2>3, <2>4
  <2>6. Stands(s2.base.m, Written(E, path, v))
    BY <2>5 DEF AtHive, Stands
  <2> QED
    BY <1>12, <2>2, <2>6
<1> QED
  BY <1>11, <1>12

-----------------------------------------------------------------------------
(* The calls, and the tree as an invariant. *)

(* What a write leaves in memory is what it has made of the stream. *)
LEMMA GrownStream ==
  ASSUME NEW base, Sizes(base), Grow(Checked(base))
  PROVE  reg'.m = base.m
<1>1. PICK r : r = Checked(base)
  OBVIOUS
<1>2. r = [m |-> base.m, size |-> base.size, length |-> base.length, crc |-> crc32(base)]
  BY <1>1, CheckedIs
<1>3. r.m = base.m
  BY <1>2
<1>4. CASE reg' = r
  BY <1>3, <1>4
<1>5. CASE reg' = Enlarged(r)
  <2>1. PICK c, x : c = crc32(base) /\ x = base.size + REG_GROW
    OBVIOUS
  <2>2. r = [m |-> base.m, size |-> base.size, length |-> base.length, crc |-> c]
    BY <1>2, <2>1
  <2>3. r.size = base.size
    BY <2>2
  <2>4. reg' = [r EXCEPT !.size = r.size + REG_GROW]
    BY <1>5 DEF Enlarged
  <2>5. reg' = [r EXCEPT !.size = x]
    BY <2>1, <2>3, <2>4
  <2>6. reg'.m = r.m
    BY <2>2, <2>5
  <2> QED
    BY <1>3, <2>6
<1> QED
  BY <1>1, <1>4, <1>5 DEF Grow

(* The path of a call that waits for the lock. *)
LEMMA CallPath ==
  ASSUME PlainPaths, RegistryInv, NEW t \in Threads, pc[t] = "lock", Valid(t)
  PROVE  Path(t) \in Seq(PlainName) /\ Path(t) # <<>> /\ call[t].path \in Paths
<1>1. call[t].path \in Paths
  BY DEF RegistryInv, CallSound
<1>2. call[t].path \in Seq(PlainName)
  BY <1>1 DEF PlainPaths
<1> QED
  BY <1>1, <1>2, ParsePathPlain DEF Valid, Path

(* A write makes of the registry what its path and its value say, unless there
   is no room for it. *)
LEMMA WriteTakesEffect ==
  ASSUME PlainPaths, RegistryInv, NEW E, Stands(reg.m, E), NEW t \in Threads, registry_write(t)
  PROVE  \/ reg' = reg /\ Halt(t)
         \/ reg' = reg /\ ~ Valid(t) /\ Return(t, Answer(t, Stored(call[t].v).len))
         \/ /\ Valid(t) /\ Stands(reg'.m, Written(E, Path(t), Stored(call[t].v)))
            /\ Return(t, Answer(t, IF Has(E, "HIVE", Path(t)) THEN 0 ELSE Stored(call[t].v).len))
<1>1. PICK path, v, s, clash, s2 :
        /\ path = Path(t) /\ v = Stored(call[t].v) /\ s = AddHives(reg, path)
        /\ clash = (FindItem(s.base.m, s.pos, Last(path), "HIVE") # NULL)
        /\ s2 = IF s.aborted \/ clash THEN s ELSE ReplaceCell(s, Last(path), v)
        /\ Enter(t, "write")
        /\ IF ~Valid(t) THEN Return(t, Answer(t, v.len)) /\ UNCHANGED <<reg, block, freed>>
           ELSE IF s2.aborted
                THEN Halt(t) /\ UNCHANGED <<reg, block, freed>>
                ELSE Return(t, Answer(t, IF clash THEN 0 ELSE v.len)) /\ Grow(Checked(s2.base))
  BY DEF registry_write
<1>2. pc[t] = "lock" /\ call[t].op = "write"
  BY <1>1 DEF Enter
<1>3. CASE ~ Valid(t)
  BY <1>1, <1>3
<1>4. CASE Valid(t) /\ s2.aborted
  BY <1>1, <1>4
<1>5. CASE Valid(t) /\ ~ s2.aborted
  <2>1. Grow(Checked(s2.base)) /\ Return(t, Answer(t, IF clash THEN 0 ELSE v.len))
    BY <1>1, <1>5
  <2>2. path \in Seq(PlainName) /\ path # <<>> /\ Last(path) \in PlainName /\ v \in {Stored(x) : x \in Values}
    BY <1>1, <1>2, <1>5, WriteRequest
  <2>3. PICK d : Sizes(reg) /\ HiveAt(reg.m, d, 1)
    <3>1. BaseSound(reg)
      BY DEF RegistryInv
    <3>2. PICK e : Sizes(reg) /\ Nested(reg.m, e)
      BY <3>1 DEF BaseSound, SoundBase
    <3> QED
      BY <3>2, FirstIsHive
  <2>4. PICK k \in Nat : k = Len(path) - 1
    BY <2>2
  <2>5. WriteState(s, k) /\ ~ s.aborted
    <3>1. WriteState(s, k)
      BY <1>1, <2>2, <2>3, <2>4, AddHivesSound
    <3>2. ~ s.aborted
      BY <1>1, <1>5
    <3> QED
      BY <3>1, <3>2
  <2>6. WriteState(s2, k)
    <3>1. CASE s.aborted \/ clash
      BY <1>1, <2>5, <3>1
    <3>2. CASE ~ (s.aborted \/ clash)
      <4>1. s2 = ReplaceCell(s, Last(path), v) /\ ~ s.aborted
        BY <1>1, <3>2
      <4> QED
        BY <2>2, <2>5, <4>1, ReplaceCellSound
    <3> QED
      BY <3>1, <3>2
  <2>7. reg'.m = s2.base.m
    BY <2>1, <2>6, GrownStream DEF WriteState
  <2>8. (clash <=> Has(E, "HIVE", path)) /\ Stands(s2.base.m, Written(E, path, v))
    BY <1>1, <1>5, <2>2, <2>3, <2>5, WriteStands
  <2>9. Answer(t, IF clash THEN 0 ELSE v.len) = Answer(t, IF Has(E, "HIVE", path) THEN 0 ELSE v.len)
    BY <2>8
  <2>10. Return(t, Answer(t, IF Has(E, "HIVE", path) THEN 0 ELSE v.len))
    BY <2>1, <2>9
  <2>11. Stands(reg'.m, Written(E, path, v))
    BY <2>7, <2>8
  <2>12. Valid(t) /\ path = Path(t) /\ v = Stored(call[t].v)
    BY <1>1, <1>5
  <2> QED
    BY <2>10, <2>11, <2>12
<1> QED
  BY <1>3, <1>4, <1>5

(* A remove takes out what its path says. *)
LEMMA RemoveTakesEffect ==
  ASSUME PlainPaths, RegistryInv, NEW E, Stands(reg.m, E), NEW t \in Threads, registry_remove(t)
  PROVE  \/ reg' = reg /\ ~ Valid(t) /\ Return(t, Answer(t, 0))
         \/ /\ Valid(t) /\ Stands(reg'.m, Removed(E, Path(t)))
            /\ Return(t, Answer(t, IF Has(E, "CELL", Path(t)) \/ Has(E, "HIVE", Path(t)) THEN 1 ELSE 0))
<1>1. PICK at, path :
        /\ path = Path(t) /\ at = IF Valid(t) THEN Found(reg.m, path) ELSE NULL
        /\ Enter(t, "remove")
        /\ Return(t, Answer(t, IF at = NULL THEN 0 ELSE 1))
        /\ reg' = IF ~Valid(t) THEN reg
                  ELSE Checked(IF at = NULL THEN reg ELSE registry_remove_item(reg, at))
  BY DEF registry_remove
<1>2. pc[t] = "lock"
  BY <1>1 DEF Enter
<1>3. CASE ~ Valid(t)
  BY <1>1, <1>3
<1>4. CASE Valid(t)
  <2>1. path \in Seq(PlainName) /\ path # <<>>
    BY <1>1, <1>2, <1>4, CallPath
  <2>2. PICK d : Sizes(reg) /\ Nested(reg.m, d)
    BY DEF RegistryInv, BaseSound, SoundBase
  <2>3. at = Found(reg.m, path)
    BY <1>1, <1>4
  <2>4. /\ at # NULL <=> Has(E, "CELL", path) \/ Has(E, "HIVE", path)
        /\ at # NULL => Stands(registry_remove_item(reg, at).m, Removed(E, path))
    BY <2>1, <2>2, <2>3, RemoveStands
  <2>5. Return(t, Answer(t, IF Has(E, "CELL", path) \/ Has(E, "HIVE", path) THEN 1 ELSE 0))
    BY <1>1, <2>4
  <2>6. Stands(reg'.m, Removed(E, path))
    <3>1. CASE at = NULL
      <4>1. reg' = Checked(reg) /\ Removed(E, path) = E
        BY <1>1, <1>4, <2>4, <3>1 DEF Removed
      <4>2. reg'.m = reg.m
        BY <2>2, <4>1, CheckedIs
      <4> QED
        BY <4>1, <4>2
    <3>2. CASE at # NULL
      <4>1. PICK b : b = registry_remove_item(reg, at)
        OBVIOUS
      <4>2. reg' = Checked(b) /\ Stands(b.m, Removed(E, path))
        BY <1>1, <1>4, <2>4, <3>2, <4>1
      <4>3. PICK sig \in {"HIVE", "CELL"} : at = FindIn(reg.m, path, sig)
        BY <2>3 DEF Found
      <4>4. HiveAt(reg.m, d, 1)
        BY <2>2 DEF HiveAt, Nested
      <4>5. at \in 2 .. Len(reg.m) - 1 /\ reg.m[at].w = sig
        BY <2>1, <3>2, <4>3, <4>4, FindInSound
      <4>6. reg.m[at].w \in {"HIVE", "CELL"}
        BY <4>5
      <4>7. Sizes(b)
        BY <2>2, <4>1, <4>5, <4>6, RemoveSound
      <4>8. reg'.m = b.m
        BY <4>2, <4>7, CheckedIs
      <4> QED
        BY <4>2, <4>8
    <3> QED
      BY <3>1, <3>2
  <2> QED
    BY <1>1, <1>4, <2>5, <2>6
<1> QED
  BY <1>3, <1>4

(* The registry that is set up first has no entries. *)
LEMMA EmptyStands == Stands(EmptyRegistry(InitialSize).m, {})
<1>1. PICK r, S, N, F, B, m : /\ r = EmptyRegistry(InitialSize)
                              /\ S = REG_HIVE_SIG_S /\ N = HiveName("System", 0)
                              /\ F = REG_HIVE_SIG_E /\ B = REG_BASE_SIG_E /\ m = <<S, N, F, B>>
  OBVIOUS
<1>2. S.w = "HIVE" /\ N.w = "System" /\ F.w = "EVIH" /\ B.w = "ESAB"
  BY <1>1 DEF REG_HIVE_SIG_S, REG_HIVE_SIG_E, REG_BASE_SIG_E, HiveName
<1>3. Len(m) = 4 /\ m[1] = S /\ m[2] = N /\ m[3] = F /\ m[4] = B
  BY <1>1
<1>4. r.m = m
  <2>1. PICK b, c : b = [m |-> m, size |-> InitialSize, length |-> SIZEOF_BASE + 13, crc |-> {}] /\ c = crc32(b)
    OBVIOUS
  <2>2. r = [b EXCEPT !.crc = c]
    BY <1>1, <2>1 DEF EmptyRegistry, Checked
  <2> QED
    BY <2>1, <2>2
<1>5. PICK d : Nested(r.m, d)
  <2>1. BaseSound(r)
    BY <1>1, EmptySound
  <2> QED
    BY <2>1 DEF BaseSound, SoundBase
<1>6. Nested(m, d)
  BY <1>4, <1>5
<1>7. d[2] = 1 /\ d[3] = 1
  <2>1. d[1] = 0 /\ d \in [1 .. 4 -> Nat]
    BY <1>3, <1>6 DEF Nested
  <2>2. 1 \in 1 .. Len(m) - 1 /\ 2 \in 1 .. Len(m) - 1
    BY <1>3
  <2>3. \A i \in 1 .. Len(m) - 1 : m[i].w = "HIVE" => d[i + 1] = d[i] + 1
    BY <1>6 DEF Nested
  <2>4. \A i \in 1 .. Len(m) - 1 : m[i].w \notin {"HIVE", "EVIH"} => d[i + 1] = d[i]
    BY <1>6 DEF Nested
  <2>5. m[1].w = "HIVE" /\ m[2].w \notin {"HIVE", "EVIH"}
    BY <1>2, <1>3
  <2>6. d[1 + 1] = d[1] + 1
    BY <2>2, <2>3, <2>5
  <2>7. d[2 + 1] = d[2]
    BY <2>2, <2>4, <2>5
  <2> QED
    BY <2>1, <2>6, <2>7
<1> DEFINE p == [i \in 1 .. 4 |-> <<>>]
<1>8. p \in [1 .. Len(m) -> Seq(PlainName)] /\ p[1] = <<>> /\ p[2] = <<>> /\ p[3] = <<>> /\ p[4] = <<>>
  BY <1>3
<1> HIDE DEF p
<1>9. ASSUME NEW i \in 2 .. Len(m) - 1
      PROVE  /\ Len(p[i]) = d[i] - 1 /\ PathStep(m[i], m[i + 1], p[i], p[i + 1])
             /\ ~ IsEntry(m[i])
  <2>1. CASE i = 2
    <3>1. i + 1 = 3 /\ Len(p[2]) = 0
      BY <1>8, <2>1
    <3> QED
      BY <1>2, <1>3, <1>7, <1>8, <2>1, <3>1 DEF PathStep, IsEntry
  <2>2. CASE i = 3
    <3>1. i + 1 = 4 /\ Len(p[3]) = 0
      BY <1>8, <2>2
    <3> QED
      BY <1>2, <1>3, <1>7, <1>8, <2>2, <3>1 DEF PathStep, IsEntry
  <2>3. i = 2 \/ i = 3
    BY <1>3
  <2> QED
    BY <2>1, <2>2, <2>3
<1>10. Pathed(m, d, p)
  BY <1>6, <1>8, <1>9 DEF Pathed
<1>11. Items(m) = {}
  BY <1>9 DEF Items
<1>12. Tree(m, d, p, {})
  BY <1>10, <1>11 DEF Tree, Distinct, Entries
<1> QED
  BY <1>1, <1>4, <1>12 DEF Stands

-----------------------------------------------------------------------------
(* The invariant: the registry is sound, and stands for some entries. *)
TreeInv == RegistryInv /\ \E E : Stands(reg.m, E)

(* The registry that is set up stands for entries: none. *)
LEMMA TreeInit ==
  ASSUME Init PROVE TreeInv
BY RegistryInit, EmptyStands DEF TreeInv, Init

(* A step of a thread in which the registry stays as it is. *)
LEMMA NotChanged ==
  ASSUME NEW t,
         \/ CallWrite(t) \/ CallRead(t) \/ CallExist(t) \/ CallRemove(t)
         \/ registry_read(t) \/ registry_exist(t) \/ RemoveStale(t) \/ Unlock(t)
  PROVE  reg' = reg
<1>1. CASE CallWrite(t) \/ CallRead(t) \/ CallExist(t) \/ CallRemove(t)
  BY <1>1 DEF CallWrite, CallRead, CallExist, CallRemove, Begin
<1>2. CASE registry_read(t)
  BY <1>2 DEF registry_read
<1>3. CASE registry_exist(t)
  BY <1>3 DEF registry_exist
<1>4. CASE RemoveStale(t)
  BY <1>4 DEF RemoveStale
<1>5. CASE Unlock(t)
  BY <1>5 DEF Unlock
<1> QED
  BY <1>1, <1>2, <1>3, <1>4, <1>5

(* Every step leaves a registry that stands for entries. *)
LEMMA TreeStep ==
  ASSUME PlainPaths, TreeInv, [Next]_vars
  PROVE  TreeInv'
<1>1. RegistryInv'
  BY RegistryStep DEF TreeInv
<1>2. PICK E : RegistryInv /\ Stands(reg.m, E)
  BY DEF TreeInv
<1>3. CASE reg' = reg
  BY <1>1, <1>2, <1>3 DEF TreeInv
<1>4. ASSUME NEW t \in Threads, registry_write(t) PROVE TreeInv'
  <2>1. reg' = reg \/ Stands(reg'.m, Written(E, Path(t), Stored(call[t].v)))
    BY <1>2, <1>4, WriteTakesEffect
  <2> QED
    BY <1>1, <1>3, <2>1 DEF TreeInv
<1>5. ASSUME NEW t \in Threads, registry_remove(t) PROVE TreeInv'
  <2>1. reg' = reg \/ Stands(reg'.m, Removed(E, Path(t)))
    BY <1>2, <1>5, RemoveTakesEffect
  <2> QED
    BY <1>1, <1>3, <2>1 DEF TreeInv
<1>6. CASE UNCHANGED vars
  BY <1>3, <1>6 DEF vars
<1> QED
  BY <1>3, <1>4, <1>5, <1>6, NotChanged DEF Next

-----------------------------------------------------------------------------
(* Reading the tree off the stream. *)

(* What the properties read off the stream, token by token. *)
NoTree == [path |-> <<>>, hives |-> {}, cells |-> {}]

CellHere(path, tok) ==
  [path |-> Append(path, tok.name), v |-> [type |-> tok.type, len |-> tok.len, data |-> tok.data]]

TreeNext(m, i, s) ==
  IF i > 1 /\ m[i] = REG_HIVE_SIG_S
  THEN [s EXCEPT !.path = Append(s.path, m[i + 1].w), !.hives = @ \cup {Append(s.path, m[i + 1].w)}]
  ELSE IF i > 1 /\ m[i] = REG_HIVE_SIG_E /\ s.path # <<>> THEN [s EXCEPT !.path = Front(@)]
  ELSE IF i > 1 /\ m[i].w = "CELL" THEN [s EXCEPT !.cells = @ \cup {CellHere(s.path, m[i])}]
  ELSE s

(* What has been read before the token behind i. *)
HivesTo(m, p, i) == {Entry(m, p, k).path : k \in {k \in Items(m) : k <= i /\ m[k].w = "HIVE"}}
CellsTo(m, p, i) ==
  {[path |-> Entry(m, p, k).path, v |-> Entry(m, p, k).v] : k \in {k \in Items(m) : k <= i /\ m[k].w = "CELL"}}
PathTo(m, p, i) == IF i = 0 THEN <<>> ELSE IF i = Len(m) THEN p[i] ELSE p[i + 1]
TreeTo(m, p, i) == [path |-> PathTo(m, p, i), hives |-> HivesTo(m, p, i), cells |-> CellsTo(m, p, i)]

(* The record of what has been read with other parts. *)
LEMMA WentIn ==
  ASSUME NEW s, s = [path |-> s.path, hives |-> s.hives, cells |-> s.cells], NEW x
  PROVE  [s EXCEPT !.path = x, !.hives = @ \cup {x}]
           = [path |-> x, hives |-> s.hives \cup {x}, cells |-> s.cells]
<1>1. PICK P, H, C, X : P = s.path /\ H = s.hives /\ C = s.cells /\ X = H \cup {x}
  OBVIOUS
<1>2. s = [path |-> P, hives |-> H, cells |-> C]
  BY <1>1
<1>3. [s EXCEPT !.path = x, !.hives = X] = [[s EXCEPT !.path = x] EXCEPT !.hives = X]
  OBVIOUS
<1>4. [s EXCEPT !.path = x] = [path |-> x, hives |-> H, cells |-> C]
  BY <1>2
<1>5. ASSUME NEW f, f = [path |-> x, hives |-> H, cells |-> C]
      PROVE  [f EXCEPT !.hives = X] = [path |-> x, hives |-> X, cells |-> C]
  BY <1>5
<1>6. [s EXCEPT !.path = x, !.hives = X] = [path |-> x, hives |-> X, cells |-> C]
  BY <1>3, <1>4, <1>5
<1> QED
  BY <1>1, <1>6

(* Reading an end tag changes the path alone. *)
LEMMA WentOut ==
  ASSUME NEW s, s = [path |-> s.path, hives |-> s.hives, cells |-> s.cells]
  PROVE  [s EXCEPT !.path = Front(@)] = [path |-> Front(s.path), hives |-> s.hives, cells |-> s.cells]
<1>1. PICK P, H, C, X : P = s.path /\ H = s.hives /\ C = s.cells /\ X = Front(P)
  OBVIOUS
<1>2. s = [path |-> P, hives |-> H, cells |-> C]
  BY <1>1
<1>3. [s EXCEPT !.path = X] = [path |-> X, hives |-> H, cells |-> C]
  BY <1>2
<1> QED
  BY <1>1, <1>3

(* Reading a cell changes the cells alone. *)
LEMMA WentPast ==
  ASSUME NEW s, s = [path |-> s.path, hives |-> s.hives, cells |-> s.cells], NEW x
  PROVE  [s EXCEPT !.cells = @ \cup {x}] = [path |-> s.path, hives |-> s.hives, cells |-> s.cells \cup {x}]
<1>1. PICK P, H, C, X : P = s.path /\ H = s.hives /\ C = s.cells /\ X = C \cup {x}
  OBVIOUS
<1>2. s = [path |-> P, hives |-> H, cells |-> C]
  BY <1>1
<1>3. [s EXCEPT !.cells = X] = [path |-> P, hives |-> H, cells |-> X]
  BY <1>2
<1> QED
  BY <1>1, <1>3

(* The path and the value of an entry that is a cell. *)
CellIn(e) == [path |-> e.path, v |-> e.v]

(* One more token. *)
LEMMA ReadMore ==
  ASSUME NEW m, NEW p, Len(m) \in Nat, NEW i \in 1 .. Len(m), NEW h, h = i - 1
  PROVE  /\ i \notin Items(m) => HivesTo(m, p, i) = HivesTo(m, p, h) /\ CellsTo(m, p, i) = CellsTo(m, p, h)
         /\ i \in Items(m) /\ m[i].w = "HIVE" =>
              /\ HivesTo(m, p, i) = HivesTo(m, p, h) \cup {Entry(m, p, i).path}
              /\ CellsTo(m, p, i) = CellsTo(m, p, h)
         /\ i \in Items(m) /\ m[i].w = "CELL" =>
              /\ HivesTo(m, p, i) = HivesTo(m, p, h)
              /\ CellsTo(m, p, i) = CellsTo(m, p, h) \cup {CellIn(Entry(m, p, i))}
<1>1. \A k \in Items(m) : k <= i <=> k <= h \/ k = i
  BY DEF Items
<1>2. ~ (i <= h)
  OBVIOUS
<1> DEFINE A(w, n) == {k \in Items(m) : k <= n /\ m[k].w = w}
<1>3. \A w : A(w, i) = A(w, h) \cup (IF i \in Items(m) /\ m[i].w = w THEN {i} ELSE {})
  BY <1>1
<1> HIDE DEF A
<1> DEFINE X(k) == Entry(m, p, k).path
           Y(k) == [path |-> Entry(m, p, k).path, v |-> Entry(m, p, k).v]
<1>4. \A n : HivesTo(m, p, n) = {X(k) : k \in A("HIVE", n)} /\ CellsTo(m, p, n) = {Y(k) : k \in A("CELL", n)}
  BY DEF HivesTo, CellsTo, A
<1> HIDE DEF X, Y
<1>5. CASE i \notin Items(m)
  <2>1. A("HIVE", i) = A("HIVE", h) /\ A("CELL", i) = A("CELL", h)
    BY <1>3, <1>5
  <2> QED
    BY <1>4, <1>5, <2>1
<1>6. CASE i \in Items(m) /\ m[i].w = "HIVE"
  <2>1. A("HIVE", i) = A("HIVE", h) \cup {i} /\ A("CELL", i) = A("CELL", h)
    BY <1>3, <1>6
  <2>2. {X(k) : k \in A("HIVE", i)} = {X(k) : k \in A("HIVE", h)} \cup {X(i)}
    BY <2>1
  <2>3. HivesTo(m, p, i) = HivesTo(m, p, h) \cup {X(i)} /\ CellsTo(m, p, i) = CellsTo(m, p, h)
    BY <1>4, <2>1, <2>2
  <2> QED
    BY <1>6, <2>3 DEF X
<1>7. CASE i \in Items(m) /\ m[i].w = "CELL"
  <2>1. A("CELL", i) = A("CELL", h) \cup {i} /\ A("HIVE", i) = A("HIVE", h)
    BY <1>3, <1>7
  <2>2. {Y(k) : k \in A("CELL", i)} = {Y(k) : k \in A("CELL", h)} \cup {Y(i)}
    BY <2>1
  <2>3. CellsTo(m, p, i) = CellsTo(m, p, h) \cup {Y(i)} /\ HivesTo(m, p, i) = HivesTo(m, p, h)
    BY <1>4, <2>1, <2>2
  <2> QED
    BY <1>7, <2>3 DEF Y, CellIn
<1> QED
  BY <1>5, <1>6, <1>7

(* Reading a token adds the entry of it, and goes into a hive or out of one. *)
LEMMA ReadNext ==
  ASSUME NEW m, NEW d, NEW p, Pathed(m, d, p), NEW i \in 1 .. Len(m), NEW s, s = TreeTo(m, p, i - 1)
  PROVE  TreeNext(m, i, s) = TreeTo(m, p, i)
<1>1. /\ Len(m) \in Nat /\ Len(m) >= 2 /\ m[1].w = "HIVE" /\ m[Len(m)].w = "ESAB"
      /\ m[i] \in Tokens /\ p[1] = <<>> /\ p[2] = <<>> /\ m \in Seq(Tokens)
  BY DEF Pathed, Nested
<1>2. PICK h, P, H, C : h = i - 1 /\ P = PathTo(m, p, h) /\ H = HivesTo(m, p, h) /\ C = CellsTo(m, p, h)
  OBVIOUS
<1>3. s = [path |-> P, hives |-> H, cells |-> C]
  BY <1>2 DEF TreeTo
<1>7. /\ s.path = P /\ s.hives = H /\ s.cells = C
      /\ s = [path |-> s.path, hives |-> s.hives, cells |-> s.cells]
  BY <1>3
<1>4. CASE i = 1 \/ i = Len(m)
  <2>1. i \notin Items(m)
    BY <1>1, <1>4 DEF Items
  <2>2. TreeNext(m, i, s) = s
    <3>1. i = 1 \/ m[i].w = "ESAB"
      BY <1>1, <1>4
    <3>2. ~ (i > 1 /\ m[i] = REG_HIVE_SIG_S) /\ ~ (i > 1 /\ m[i] = REG_HIVE_SIG_E) /\ ~ (i > 1 /\ m[i].w = "CELL")
      BY <3>1 DEF REG_HIVE_SIG_S, REG_HIVE_SIG_E
    <3> QED
      BY <3>2 DEF TreeNext
  <2>3. HivesTo(m, p, i) = H /\ CellsTo(m, p, i) = C
    BY <1>1, <1>2, <2>1, ReadMore
  <2>4. PathTo(m, p, i) = P
    <3>1. CASE i = 1
      <4>1. h = 0 /\ i # 0 /\ i # Len(m) /\ i + 1 = 2
        BY <1>1, <1>2, <3>1
      <4> QED
        BY <1>1, <1>2, <4>1 DEF PathTo
    <3>2. CASE i = Len(m)
      <4>1. h # 0 /\ h # Len(m) /\ h + 1 = i /\ i # 0
        BY <1>1, <1>2, <3>2
      <4> QED
        BY <1>2, <3>2, <4>1 DEF PathTo
    <3> QED
      BY <1>4, <3>1, <3>2
  <2> QED
    BY <1>3, <1>7, <2>2, <2>3, <2>4 DEF TreeTo
<1>5. CASE i \in 2 .. Len(m) - 1
  <2>1. h # 0 /\ h # Len(m) /\ h + 1 = i /\ i # 0 /\ i # Len(m) /\ i > 1
    BY <1>1, <1>2, <1>5
  <2>2. P = p[i] /\ PathTo(m, p, i) = p[i + 1]
    BY <1>2, <2>1 DEF PathTo
  <2>3. PathStep(m[i], m[i + 1], P, p[i + 1])
    BY <1>5, <2>2 DEF Pathed
  <2>4. PICK tok, next, Q : tok = m[i] /\ next = m[i + 1] /\ Q = p[i + 1]
    OBVIOUS
  <2>5. tok.w = "HIVE" <=> tok = REG_HIVE_SIG_S
    BY <1>1, <2>4, TokenKinds
  <2>6. tok.w = "EVIH" <=> tok = REG_HIVE_SIG_E
    BY <1>1, <2>4, TokenKinds
  <2>7. Entry(m, p, i) = EntryOf(tok, next, P)
    BY <2>2, <2>4 DEF Entry
  <2>8. CASE tok.w = "HIVE"
    <3>1. Q = Append(P, next.w)
      BY <2>3, <2>4, <2>8 DEF PathStep
    <3>2. TreeNext(m, i, s) = [s EXCEPT !.path = Append(s.path, next.w), !.hives = @ \cup {Append(s.path, next.w)}]
      BY <2>1, <2>4, <2>5, <2>8 DEF TreeNext
    <3>3. TreeNext(m, i, s) = [s EXCEPT !.path = Q, !.hives = @ \cup {Q}]
      BY <1>3, <1>7, <3>1, <3>2
    <3>4. TreeNext(m, i, s) = [path |-> Q, hives |-> H \cup {Q}, cells |-> C]
      <4>1. PICK r : r = TreeNext(m, i, s)
        OBVIOUS
      <4>2. r = [s EXCEPT !.path = Q, !.hives = @ \cup {Q}]
        BY <3>3, <4>1
      <4>3. r = [path |-> Q, hives |-> s.hives \cup {Q}, cells |-> s.cells]
        BY <1>7, <4>2, WentIn
      <4> QED
        BY <1>7, <4>1, <4>3
    <3>5. i \in Items(m) /\ m[i].w = "HIVE"
      BY <1>5, <2>4, <2>8 DEF Items, IsEntry
    <3>6. Entry(m, p, i).path = Q
      BY <2>7, <2>8, <3>1 DEF EntryOf
    <3>7. HivesTo(m, p, i) = H \cup {Q} /\ CellsTo(m, p, i) = C
      BY <1>1, <1>2, <3>5, <3>6, ReadMore
    <3> QED
      BY <2>2, <2>4, <3>4, <3>7 DEF TreeTo
  <2>9. CASE tok.w = "CELL"
    <3>1. Q = P
      BY <2>3, <2>4, <2>9 DEF PathStep
    <3>2. tok # REG_HIVE_SIG_S /\ tok # REG_HIVE_SIG_E
      BY <2>5, <2>6, <2>9
    <3>3. PICK c : c = CellHere(P, tok)
      OBVIOUS
    <3>4. TreeNext(m, i, s) = [s EXCEPT !.cells = @ \cup {c}]
      BY <1>3, <1>7, <2>1, <2>4, <2>9, <3>2, <3>3 DEF TreeNext
    <3>5. TreeNext(m, i, s) = [path |-> P, hives |-> H, cells |-> C \cup {c}]
      <4>1. PICK r : r = TreeNext(m, i, s)
        OBVIOUS
      <4>2. r = [s EXCEPT !.cells = @ \cup {c}]
        BY <3>4, <4>1
      <4>3. r = [path |-> s.path, hives |-> s.hives, cells |-> s.cells \cup {c}]
        BY <1>7, <4>2, WentPast
      <4> QED
        BY <1>7, <4>1, <4>3
    <3>6. i \in Items(m) /\ m[i].w = "CELL"
      BY <1>5, <2>4, <2>9 DEF Items, IsEntry
    <3>7. CellIn(Entry(m, p, i)) = c
      <4>1. PICK pth, val : /\ pth = Append(P, IF tok.w = "HIVE" THEN next.w ELSE tok.name)
                            /\ val = [type |-> tok.type, len |-> tok.len, data |-> tok.data]
        OBVIOUS
      <4>2. Entry(m, p, i) = [sig |-> tok.w, path |-> pth, v |-> val]
        BY <2>7, <2>9, <4>1 DEF EntryOf
      <4>3. Entry(m, p, i).path = pth /\ Entry(m, p, i).v = val
        BY <4>2
      <4>4. pth = Append(P, tok.name)
        BY <2>9, <4>1
      <4> QED
        BY <3>3, <4>1, <4>3, <4>4 DEF CellHere, CellIn
    <3>8. HivesTo(m, p, i) = H /\ CellsTo(m, p, i) = C \cup {c}
      <4>1. i \in 1 .. Len(m) /\ h = i - 1 /\ Len(m) \in Nat
        BY <1>1, <1>2
      <4>2. /\ HivesTo(m, p, i) = HivesTo(m, p, h)
            /\ CellsTo(m, p, i) = CellsTo(m, p, h) \cup {CellIn(Entry(m, p, i))}
        BY <3>6, <4>1, ReadMore
      <4> QED
        BY <1>2, <3>7, <4>2
    <3> QED
      BY <2>2, <2>4, <3>1, <3>5, <3>8 DEF TreeTo
  <2>10. CASE tok.w \notin {"HIVE", "CELL"}
    <3>1. i \notin Items(m)
      BY <2>4, <2>10 DEF Items, IsEntry
    <3>2. HivesTo(m, p, i) = H /\ CellsTo(m, p, i) = C
      BY <1>1, <1>2, <3>1, ReadMore
    <3>3. TreeNext(m, i, s) = [path |-> Q, hives |-> H, cells |-> C]
      <4>1. tok # REG_HIVE_SIG_S /\ tok.w # "CELL"
        BY <2>5, <2>10
      <4>2. CASE tok.w = "EVIH" /\ P # <<>>
        <5>1. Q = Front(P)
          BY <2>3, <2>4, <4>2 DEF PathStep
        <5>2. PICK r : r = TreeNext(m, i, s)
          OBVIOUS
        <5>3. r = [s EXCEPT !.path = Front(@)]
          BY <1>3, <1>7, <2>1, <2>4, <2>6, <4>1, <4>2, <5>2 DEF TreeNext
        <5>4. r = [path |-> Front(s.path), hives |-> s.hives, cells |-> s.cells]
          BY <1>7, <5>3, WentOut
        <5> QED
          BY <1>7, <5>1, <5>2, <5>4
      <4>3. CASE ~ (tok.w = "EVIH" /\ P # <<>>)
        <5>1. Q = P
          BY <2>3, <2>4, <2>10, <4>3 DEF PathStep
        <5>2. TreeNext(m, i, s) = s
          BY <1>3, <1>7, <2>4, <2>6, <4>1, <4>3 DEF TreeNext
        <5> QED
          BY <1>3, <1>7, <5>1, <5>2
      <4> QED
        BY <4>2, <4>3
    <3> QED
      BY <2>2, <2>4, <3>2, <3>3 DEF TreeTo
  <2> QED
    BY <2>8, <2>9, <2>10
<1>6. i \in 2 .. Len(m) - 1 \/ i = 1 \/ i = Len(m)
  BY <1>1
<1> QED
  BY <1>4, <1>5, <1>6

-----------------------------------------------------------------------------
(* The tree that is read off is that of the entries. *)

(* What is read off a stream at its end. *)
LEMMA TreeOfIs ==
  ASSUME NEW m, NEW d, NEW p, Pathed(m, d, p)
  PROVE  TreeOf(m) = TreeTo(m, p, Len(m))
<1> DEFINE Body(i, s) ==
             CASE i = 0 -> [path |-> <<>>, hives |-> {}, cells |-> {}]
               [] i > 1 /\ m[i] = REG_HIVE_SIG_S ->
                    [s EXCEPT !.path = Append(s.path, m[i + 1].w), !.hives = @ \cup {Append(s.path, m[i + 1].w)}]
               [] i > 1 /\ m[i] = REG_HIVE_SIG_E /\ s.path # <<>> -> [s EXCEPT !.path = Front(@)]
               [] i > 1 /\ m[i].w = "CELL" ->
                    [s EXCEPT !.cells = @ \cup {[path |-> Append(s.path, m[i].name), v |->
                       [type |-> m[i].type, len |-> m[i].len, data |-> m[i].data]]}]
               [] OTHER -> s
           Fix(g) == g = [i \in 0 .. Len(m) |-> Body(i, g[i - 1])]
<1>1. TreeOf(m) = (CHOOSE g : Fix(g))[Len(m)]
  BY DEF TreeOf
<1>2. Len(m) \in Nat
  BY DEF Pathed, Nested
<1>3. ASSUME NEW s PROVE Body(0, s) = NoTree
  BY DEF NoTree
<1>4. ASSUME NEW i \in 1 .. Len(m), NEW s PROVE Body(i, s) = TreeNext(m, i, s)
  <2>1. i # 0
    OBVIOUS
  <2>2. CASE i > 1 /\ m[i] = REG_HIVE_SIG_S
    <3>1. m[i].w = "HIVE" /\ m[i] # REG_HIVE_SIG_E
      BY <2>2 DEF REG_HIVE_SIG_S, REG_HIVE_SIG_E
    <3> QED
      BY <2>1, <2>2, <3>1 DEF TreeNext
  <2>3. CASE i > 1 /\ m[i] = REG_HIVE_SIG_E /\ s.path # <<>>
    <3>1. m[i].w = "EVIH" /\ m[i] # REG_HIVE_SIG_S
      BY <2>3 DEF REG_HIVE_SIG_S, REG_HIVE_SIG_E
    <3> QED
      BY <2>1, <2>3, <3>1 DEF TreeNext
  <2>4. CASE i > 1 /\ m[i].w = "CELL"
    <3>1. m[i] # REG_HIVE_SIG_S /\ m[i] # REG_HIVE_SIG_E
      BY <2>4 DEF REG_HIVE_SIG_S, REG_HIVE_SIG_E
    <3> QED
      BY <2>1, <2>4, <3>1 DEF TreeNext, CellHere
  <2>5. CASE /\ ~ (i > 1 /\ m[i] = REG_HIVE_SIG_S)
             /\ ~ (i > 1 /\ m[i] = REG_HIVE_SIG_E /\ s.path # <<>>)
             /\ ~ (i > 1 /\ m[i].w = "CELL")
    BY <2>1, <2>5 DEF TreeNext
  <2> QED
    BY <2>2, <2>3, <2>4, <2>5
<1> DEFINE w == [i \in 0 .. Len(m) |-> TreeTo(m, p, i)]
<1>5. TreeTo(m, p, 0) = NoTree
  <2>1. PathTo(m, p, 0) = <<>>
    BY DEF PathTo
  <2>2. HivesTo(m, p, 0) = {} /\ CellsTo(m, p, 0) = {}
    <3>1. \A k \in Items(m) : ~ (k <= 0)
      BY DEF Items
    <3> QED
      BY <3>1 DEF HivesTo, CellsTo
  <2> QED
    BY <2>1, <2>2 DEF TreeTo, NoTree
<1>6. ASSUME NEW i \in 1 .. Len(m), NEW s, s = TreeTo(m, p, i - 1) PROVE Body(i, s) = TreeTo(m, p, i)
  <2> HIDE DEF Body
  <2>1. TreeNext(m, i, s) = TreeTo(m, p, i)
    BY <1>6, ReadNext
  <2> QED
    BY <1>4, <2>1
<1> HIDE DEF Body
<1>7. Fix(w)
  <2>1. ASSUME NEW i \in 0 .. Len(m) PROVE w[i] = Body(i, w[i - 1])
    <3>1. CASE i = 0
      BY <1>3, <1>5, <3>1
    <3>2. CASE i # 0
      <4>1. i \in 1 .. Len(m) /\ i - 1 \in 0 .. Len(m)
        BY <3>2
      <4>2. w[i - 1] = TreeTo(m, p, i - 1) /\ w[i] = TreeTo(m, p, i)
        BY <4>1
      <4> HIDE DEF w
      <4> QED
        BY <1>6, <4>1, <4>2
    <3> QED
      BY <3>1, <3>2
  <2>2. w = [i \in 0 .. Len(m) |-> w[i]]
    OBVIOUS
  <2> HIDE DEF w
  <2> QED
    BY <2>1, <2>2
<1>8. PICK g : g = (CHOOSE f : Fix(f)) /\ Fix(g)
  <2> HIDE DEF Fix
  <2> QED
    BY <1>7
<1>9. \A i \in 0 .. Len(m) : g[i] = Body(i, g[i - 1])
  BY <1>8
<1> DEFINE S == {k \in Nat : k <= Len(m) => g[k] = TreeTo(m, p, k)}
<1>10. 0 \in S
  <2>1. g[0] = Body(0, g[0 - 1])
    BY <1>2, <1>9
  <2> QED
    BY <1>3, <1>5, <2>1
<1>11. ASSUME NEW k \in Nat, k \in S PROVE k + 1 \in S
  <2> SUFFICES ASSUME k + 1 <= Len(m) PROVE g[k + 1] = TreeTo(m, p, k + 1)
    OBVIOUS
  <2>1. PICK i : i = k + 1
    OBVIOUS
  <2>2. i \in 1 .. Len(m) /\ i \in 0 .. Len(m) /\ i - 1 = k /\ k <= Len(m)
    BY <1>2, <2>1
  <2>3. g[i] = Body(i, g[i - 1]) /\ g[k] = TreeTo(m, p, k)
    BY <1>9, <1>11, <2>2
  <2>4. g[i] = Body(i, g[k])
    BY <2>2, <2>3
  <2>5. g[k] = TreeTo(m, p, i - 1)
    BY <2>2, <2>3
  <2>6. Body(i, g[k]) = TreeTo(m, p, i)
    BY <1>6, <2>2, <2>5
  <2> QED
    BY <2>1, <2>4, <2>6
<1>12. Len(m) \in S
  <2> HIDE DEF S
  <2> QED
    BY <1>2, <1>10, <1>11, SetInduction
<1> QED
  BY <1>1, <1>2, <1>8, <1>12

(* The hives and the cells of entries. *)
HivesOf(E) == {e.path : e \in {e \in E : e.sig = "HIVE"}}
CellsOf(E) == {[path |-> e.path, v |-> e.v] : e \in {e \in E : e.sig = "CELL"}}

(* The tree of a stream is that of its entries. *)
LEMMA TreeOfStands ==
  ASSUME NEW m, NEW d, NEW p, NEW E, Tree(m, d, p, E)
  PROVE  TreeOf(m).hives = HivesOf(E) /\ TreeOf(m).cells = CellsOf(E)
<1>1. Pathed(m, d, p) /\ E = {Entry(m, p, i) : i \in Items(m)} /\ Len(m) \in Nat
  BY DEF Tree, Entries, Pathed, Nested
<1>2. PICK n, H, C : n = Len(m) /\ H = HivesTo(m, p, n) /\ C = CellsTo(m, p, n)
  OBVIOUS
<1>3. TreeOf(m) = [path |-> PathTo(m, p, n), hives |-> H, cells |-> C]
  BY <1>1, <1>2, TreeOfIs DEF TreeTo
<1>4. TreeOf(m).hives = H /\ TreeOf(m).cells = C
  BY <1>3
<1>5. \A k \in Items(m) : k <= n /\ Entry(m, p, k).sig = m[k].w
  <2> TAKE k \in Items(m)
  <2>1. Entry(m, p, k).sig = m[k].w /\ k \in 2 .. n - 1
    BY <1>1, <1>2, EntryHere
  <2> QED
    BY <1>1, <1>2, <2>1
<1>6. H = HivesOf(E)
  <2>1. {e \in E : e.sig = "HIVE"} = {Entry(m, p, k) : k \in {k \in Items(m) : k <= n /\ m[k].w = "HIVE"}}
    BY <1>1, <1>5
  <2> QED
    BY <1>2, <2>1 DEF HivesOf, HivesTo
<1>7. C = CellsOf(E)
  <2>1. {e \in E : e.sig = "CELL"} = {Entry(m, p, k) : k \in {k \in Items(m) : k <= n /\ m[k].w = "CELL"}}
    BY <1>1, <1>5
  <2> QED
    BY <1>2, <2>1 DEF CellsOf, CellsTo
<1> QED
  BY <1>4, <1>6, <1>7

-----------------------------------------------------------------------------
(* No two items of a kind are one. *)

(* As many values as places when no two places have one value. *)
LEMMA SameCount ==
  ASSUME NEW I, IsFiniteSet(I), NEW f, f = [k \in I |-> f[k]],
         \A j, k \in I : f[j] = f[k] => j = k
  PROVE  Cardinality({f[k] : k \in I}) = Cardinality(I)
<1>1. PICK T : T = {f[k] : k \in I}
  OBVIOUS
<1>2. f \in [I -> T]
  BY <1>1
<1>3. f \in Surjection(I, T) /\ f \in Injection(I, T)
  BY <1>1, <1>2 DEF Surjection, Injection, IsInjective
<1> QED
  BY <1>1, <1>3, FS_Surjection

(* In a tree of entries no two items of a kind are counted as one. *)
LEMMA TreeCounts ==
  ASSUME NEW m, NEW d, NEW p, NEW E, Tree(m, d, p, E)
  PROVE  /\ Cardinality(HivesOf(E)) = Cardinality(HiveStarts(m)) - 1
         /\ Cardinality({c.path : c \in CellsOf(E)}) = Cardinality(CellsAt(m))
<1>1. Pathed(m, d, p) /\ Distinct(m, p) /\ E = {Entry(m, p, i) : i \in Items(m)} /\ Nested(m, d)
  BY DEF Tree, Entries, Pathed
<1>2. /\ Len(m) \in Nat /\ Len(m) >= 2 /\ DOMAIN m = 1 .. Len(m)
      /\ m[1].w = "HIVE" /\ m[Len(m)].w = "ESAB" /\ \A i \in 1 .. Len(m) : m[i] \in Tokens
  BY <1>1 DEF Nested
<1>3. IsFiniteSet(1 .. Len(m))
  BY <1>2, FS_Interval
<1>4. \A i \in 1 .. Len(m) : m[i].w = "HIVE" <=> m[i] = REG_HIVE_SIG_S
  BY <1>2, TokenKinds
<1> DEFINE I(sig) == {i \in Items(m) : m[i].w = sig}
<1>5. ASSUME NEW sig \in {"HIVE", "CELL"}, NEW J, J = I(sig)
      PROVE  IsFiniteSet(J) /\ Cardinality({e.path : e \in {e \in E : e.sig = sig}}) = Cardinality(J)
  <2>1. J \subseteq 1 .. Len(m)
    BY <1>2, <1>5 DEF Items
  <2>2. IsFiniteSet(J)
    BY <1>3, <2>1, FS_Subset
  <2>3. PICK g : g = [k \in J |-> Entry(m, p, k).path]
    OBVIOUS
  <2>4. \A k \in J : g[k] = Entry(m, p, k).path /\ Entry(m, p, k).sig = sig
    BY <1>1, <1>5, <2>3, EntryHere
  <2>5. ASSUME NEW j \in J, NEW k \in J, g[j] = g[k] PROVE j = k
    <3>1. j \in Items(m) /\ k \in Items(m)
      BY <1>5
    <3> QED
      BY <1>1, <2>4, <2>5, <3>1 DEF Distinct, SameKey
  <2>6. g = [k \in J |-> g[k]]
    BY <2>3
  <2>7. Cardinality({g[k] : k \in J}) = Cardinality(J)
    BY <2>2, <2>5, <2>6, SameCount
  <2>8. {e.path : e \in {e \in E : e.sig = sig}} = {g[k] : k \in J}
    <3>1. \A k \in Items(m) : Entry(m, p, k).sig = m[k].w
      BY <1>1, EntryHere
    <3>2. {e \in E : e.sig = sig} = {Entry(m, p, k) : k \in J}
      BY <1>1, <1>5, <3>1
    <3> QED
      BY <2>4, <3>2
  <2> QED
    BY <2>2, <2>7, <2>8
<1>6. IsFiniteSet(I("HIVE")) /\ Cardinality(HivesOf(E)) = Cardinality(I("HIVE"))
  BY <1>5 DEF HivesOf
<1>7. Cardinality({c.path : c \in CellsOf(E)}) = Cardinality(I("CELL"))
  <2>1. {c.path : c \in CellsOf(E)} = {e.path : e \in {e \in E : e.sig = "CELL"}}
    <3>1. PICK S : S = {e \in E : e.sig = "CELL"}
      OBVIOUS
    <3>2. \A e : [path |-> e.path, v |-> e.v].path = e.path
      OBVIOUS
    <3>3. \A c \in CellsOf(E) : \E e \in S : c.path = e.path
      BY <3>1, <3>2 DEF CellsOf
    <3>4. \A e \in S : \E c \in CellsOf(E) : c.path = e.path
      BY <3>1, <3>2 DEF CellsOf
    <3> QED
      BY <3>1, <3>3, <3>4
  <2> QED
    BY <1>5, <2>1
<1>8. HiveStarts(m) = I("HIVE") \cup {1} /\ 1 \notin I("HIVE")
  <2>1. \A i \in 1 .. Len(m) : i \in HiveStarts(m) <=> m[i].w = "HIVE"
    BY <1>2, <1>4 DEF HiveStarts
  <2>2. \A i \in 1 .. Len(m) : m[i].w = "HIVE" => i = 1 \/ i \in 2 .. Len(m) - 1
    BY <1>2
  <2>3. \A i \in 1 .. Len(m) : m[i].w = "HIVE" <=> i = 1 \/ i \in I("HIVE")
    BY <1>2, <2>2 DEF Items, IsEntry
  <2>4. HiveStarts(m) \subseteq 1 .. Len(m) /\ I("HIVE") \subseteq 1 .. Len(m) /\ 1 \in 1 .. Len(m)
    BY <1>2 DEF HiveStarts, Items
  <2>5. 1 \notin I("HIVE")
    BY DEF Items
  <2> QED
    BY <2>1, <2>3, <2>4, <2>5
<1>9. CellsAt(m) = I("CELL")
  <2>1. \A i \in 1 .. Len(m) : m[i].w = "CELL" => i \in 2 .. Len(m) - 1
    BY <1>2
  <2>2. CellsAt(m) \subseteq 1 .. Len(m) /\ I("CELL") \subseteq 1 .. Len(m)
    BY <1>2 DEF CellsAt, Items
  <2> QED
    BY <1>2, <2>1, <2>2 DEF CellsAt, Items, IsEntry
<1>10. Cardinality(HiveStarts(m)) = Cardinality(I("HIVE")) + 1 /\ Cardinality(I("HIVE")) \in Nat
  <2>1. IsFiniteSet(I("HIVE"))
    BY <1>6
  <2> HIDE DEF I
  <2> QED
    BY <1>8, <2>1, FS_AddElement, FS_CardinalityType
<1> HIDE DEF I
<1> QED
  BY <1>6, <1>7, <1>9, <1>10

-----------------------------------------------------------------------------
(* registry.c, registry_write and registry_remove: after any calls the stream
   is still a tree, with nested hives and no two items of a kind with a name in
   one hive, as long as no name looks like a tag. *)
THEOREM RegistryIsTree ==
  ASSUME PlainPaths PROVE Spec => []StreamIsTree
<1>1. TreeInv => NamesUnique
  <2> SUFFICES ASSUME TreeInv PROVE NamesUnique
    OBVIOUS
  <2>1. PICK E, d, p : Tree(reg.m, d, p, E)
    BY DEF TreeInv, Stands
  <2>2. PICK m, r : m = reg.m /\ r = TreeOf(m)
    OBVIOUS
  <2>3. r.hives = HivesOf(E) /\ r.cells = CellsOf(E)
    BY <2>1, <2>2, TreeOfStands
  <2>4. /\ Cardinality(HivesOf(E)) = Cardinality(HiveStarts(m)) - 1
        /\ Cardinality({c.path : c \in CellsOf(E)}) = Cardinality(CellsAt(m))
    BY <2>1, <2>2, TreeCounts
  <2> QED
    BY <2>2, <2>3, <2>4 DEF NamesUnique
<1>2. Init => TreeInv
  BY TreeInit
<1>3. TreeInv /\ [Next]_vars => TreeInv'
  BY TreeStep
<1>4. Spec => []StreamNested
  BY RegistryNested
<1> QED
  BY <1>1, <1>2, <1>3, <1>4, PTL DEF Spec, StreamIsTree

-----------------------------------------------------------------------------
(* The tree a caller sees, and a write. *)

(* Hives H and cells C are what the entries E say. *)
Shows(E, H, C) ==
  /\ \A q : q \in H <=> Has(E, "HIVE", q)
  /\ \A q : q \in DOMAIN C <=> Has(E, "CELL", q)
  /\ C = [q \in DOMAIN C |-> C[q]]
  /\ \A e \in E : e.sig = "CELL" => C[e.path] = e.v
  /\ \A e \in E : e.sig \in {"HIVE", "CELL"} /\ e.path \in Seq(PlainName)

(* The cells of a set of paths and values, by path. *)
ByPath(S) == [q \in {c.path : c \in S} |-> (CHOOSE c \in S : c.path = q).v]

(* A stream shows the entries it stands for. *)
LEMMA StandsShows ==
  ASSUME NEW m, NEW E, Stands(m, E)
  PROVE  Shows(E, TreeOf(m).hives, ByPath(TreeOf(m).cells))
<1>1. PICK d, p : Tree(m, d, p, E)
  BY DEF Stands
<1>2. PICK H, S, C : H = TreeOf(m).hives /\ S = TreeOf(m).cells /\ C = ByPath(S)
  OBVIOUS
<1>3. H = HivesOf(E) /\ S = CellsOf(E)
  BY <1>1, <1>2, TreeOfStands
<1>4. Pathed(m, d, p) /\ Distinct(m, p) /\ E = {Entry(m, p, i) : i \in Items(m)}
  BY <1>1 DEF Tree, Entries
<1>5. \A e \in E : e.sig \in {"HIVE", "CELL"} /\ e.path \in Seq(PlainName)
  BY <1>4, EntryHere
<1>6. \A e, f \in E : SameKey(e, f) => e = f
  <2> SUFFICES ASSUME NEW e \in E, NEW f \in E, SameKey(e, f) PROVE e = f
    OBVIOUS
  <2>1. PICK i \in Items(m) : e = Entry(m, p, i)
    BY <1>4
  <2>2. PICK j \in Items(m) : f = Entry(m, p, j)
    BY <1>4
  <2>3. i = j
    BY <1>4, <2>1, <2>2 DEF Distinct
  <2> QED
    BY <2>1, <2>2, <2>3
<1>7. \A q : q \in H <=> Has(E, "HIVE", q)
  BY <1>3 DEF HivesOf, Has, HasKey
<1>8. \A c \in S : \E e \in E : e.sig = "CELL" /\ c.path = e.path /\ c.v = e.v
  BY <1>3 DEF CellsOf
<1>9. \A e \in E : e.sig = "CELL" => \E c \in S : c.path = e.path
  <2> SUFFICES ASSUME NEW e \in E, e.sig = "CELL" PROVE \E c \in S : c.path = e.path
    OBVIOUS
  <2>1. PICK c : c = [path |-> e.path, v |-> e.v]
    OBVIOUS
  <2>2. c \in S
    BY <1>3, <2>1 DEF CellsOf
  <2> QED
    BY <2>1, <2>2
<1>10. C = [q \in {c.path : c \in S} |-> (CHOOSE c \in S : c.path = q).v]
  BY <1>2 DEF ByPath
<1>11. DOMAIN C = {c.path : c \in S} /\ C = [q \in DOMAIN C |-> C[q]]
  BY <1>10
<1>12. \A q : q \in DOMAIN C <=> Has(E, "CELL", q)
  BY <1>8, <1>9, <1>11 DEF Has, HasKey
<1>13. ASSUME NEW e \in E, e.sig = "CELL" PROVE C[e.path] = e.v
  <2>1. PICK q, c : q = e.path /\ c = (CHOOSE x \in S : x.path = q)
    OBVIOUS
  <2>2. \E x \in S : x.path = q
    BY <1>9, <1>13, <2>1
  <2>3. c \in S /\ c.path = q
    BY <2>1, <2>2
  <2>4. PICK f \in E : f.sig = "CELL" /\ c.path = f.path /\ c.v = f.v
    BY <1>8, <2>3
  <2>5. f = e
    BY <1>6, <1>13, <2>1, <2>3, <2>4 DEF SameKey
  <2>6. q \in {x.path : x \in S}
    BY <2>3
  <2>7. C[q] = c.v
    BY <1>10, <2>1, <2>6
  <2> QED
    BY <2>1, <2>4, <2>5, <2>7
<1> QED
  BY <1>2, <1>5, <1>7, <1>11, <1>12, <1>13 DEF Shows

(* Hives and cells after a write of w, by those before it. *)
AfterWrite(E, H, C, path, w, G, D) ==
  /\ path \in H <=> Has(E, "HIVE", path)
  /\ G = H \cup {SubSeq(path, 1, i) : i \in 1 .. Len(path) - 1}
  /\ path \in H => D = C
  /\ path \notin H => D = [q \in DOMAIN C \cup {path} |-> IF q = path THEN w ELSE C[q]]

(* What a write does to the tree: the hives on the way are made, and a cell is
   put where there is no hive. *)
LEMMA WriteShows ==
  ASSUME NEW E, NEW H, NEW C, Shows(E, H, C), NEW path \in Seq(PlainName), path # <<>>,
         NEW v, NEW w, w = [type |-> v.type, len |-> v.len, data |-> v.data],
         NEW G, NEW D, Shows(Written(E, path, v), G, D)
  PROVE  AfterWrite(E, H, C, path, w, G, D)
<1>1. PICK N, n : N = Written(E, path, v) /\ n = CellEntry(path, v)
  OBVIOUS
<1>2. path \in H <=> Has(E, "HIVE", path)
  BY DEF Shows
<1>3. n.sig = "CELL" /\ n.path = path /\ n.v = w
  BY <1>1 DEF CellEntry
<1>4. \A e \in HivesOn(path) : e.sig = "HIVE" /\ e.path # path
  BY OnTheWay
<1>5. \A q : Has(N, "HIVE", q) <=> Has(E, "HIVE", q) \/ Has(HivesOn(path), "HIVE", q)
  <2>1. CASE Has(E, "HIVE", path)
    BY <1>1, <2>1 DEF Written, Has, HasKey
  <2>2. CASE ~ Has(E, "HIVE", path)
    <3>1. N = {e \in E \cup HivesOn(path) : ~ HasKey(e, "CELL", path)} \cup {n}
      BY <1>1, <2>2 DEF Written, Without
    <3>2. \A e : e.sig = "HIVE" => (e \in N <=> e \in E \/ e \in HivesOn(path))
      BY <1>3, <3>1 DEF HasKey
    <3> QED
      BY <3>2 DEF Has, HasKey
  <2> QED
    BY <2>1, <2>2
<1>6. \A q : Has(HivesOn(path), "HIVE", q) <=> q \in {SubSeq(path, 1, i) : i \in 1 .. Len(path) - 1}
  <2>1. PICK I, W, J : /\ I = 1 .. Len(path) - 1 /\ W = {SubSeq(path, 1, i) : i \in I}
                       /\ J = {HiveEntry(x) : x \in W}
    OBVIOUS
  <2>2. HivesOn(path) = J
    BY <2>1 DEF HivesOn
  <2>3. \A x : HiveEntry(x).sig = "HIVE" /\ HiveEntry(x).path = x
    BY DEF HiveEntry
  <2>4. \A q : (\E e \in J : e.sig = "HIVE" /\ e.path = q) <=> q \in W
    BY <2>1, <2>3
  <2> QED
    BY <2>1, <2>2, <2>4 DEF Has, HasKey
<1>7. G = H \cup {SubSeq(path, 1, i) : i \in 1 .. Len(path) - 1}
  <2>1. \A q : q \in H <=> Has(E, "HIVE", q)
    BY DEF Shows
  <2>2. \A q : q \in G <=> Has(N, "HIVE", q)
    BY <1>1 DEF Shows
  <2>3. PICK W : W = {SubSeq(path, 1, i) : i \in 1 .. Len(path) - 1}
    OBVIOUS
  <2> QED
    BY <1>5, <1>6, <2>1, <2>2, <2>3
<1>8. /\ C = [q \in DOMAIN C |-> C[q]] /\ D = [q \in DOMAIN D |-> D[q]]
      /\ \A q : q \in DOMAIN C <=> \E e \in E : e.sig = "CELL" /\ e.path = q
      /\ \A q : q \in DOMAIN D <=> \E e \in N : e.sig = "CELL" /\ e.path = q
      /\ \A e \in E : e.sig = "CELL" => C[e.path] = e.v
      /\ \A e \in N : e.sig = "CELL" => D[e.path] = e.v
  BY <1>1 DEF Shows, Has, HasKey
<1>9. ASSUME path \in H PROVE D = C
  <2>1. N = E \cup HivesOn(path)
    BY <1>1, <1>2, <1>9 DEF Written
  <2>2. \A e : e.sig = "CELL" => (e \in N <=> e \in E)
    BY <1>4, <2>1
  <2>3. \A q : q \in DOMAIN D <=> q \in DOMAIN C
    BY <1>8, <2>2
  <2>4. \A q \in DOMAIN C : D[q] = C[q]
    BY <1>8, <2>2
  <2> QED
    BY <1>8, <2>3, <2>4
<1>10. ASSUME path \notin H
       PROVE  D = [q \in DOMAIN C \cup {path} |-> IF q = path THEN w ELSE C[q]]
  <2>1. N = {e \in E \cup HivesOn(path) : ~ HasKey(e, "CELL", path)} \cup {n}
    BY <1>1, <1>2, <1>10 DEF Written, Without
  <2>2. \A e : e.sig = "CELL" => (e \in N <=> (e \in E /\ e.path # path) \/ e = n)
    BY <1>3, <1>4, <2>1 DEF HasKey
  <2>3. \A q : q \in DOMAIN D <=> q \in DOMAIN C \/ q = path
    BY <1>3, <1>8, <2>2
  <2>4. D[path] = w
    BY <1>3, <1>8, <2>2
  <2>5. \A q \in DOMAIN C : q # path => D[q] = C[q]
    BY <1>8, <2>2
  <2>6. DOMAIN D = DOMAIN C \cup {path}
    BY <2>3
  <2>7. \A q \in DOMAIN C \cup {path} : D[q] = IF q = path THEN w ELSE C[q]
    BY <2>4, <2>5
  <2> QED
    BY <1>8, <2>6, <2>7
<1> QED
  BY <1>2, <1>7, <1>9, <1>10 DEF AfterWrite

-----------------------------------------------------------------------------
(* A remove, and what is stored. *)

(* Hives and cells after a remove, by those before it and what is gone. *)
Gone(H, C, path) ==
  IF path \in DOMAIN C THEN {path} ELSE {q \in H \cup DOMAIN C : path \in H /\ IsPrefix(path, q)}

AfterRemove(E, H, C, path, gone, G, D) ==
  /\ gone = {} <=> ~ (Has(E, "CELL", path) \/ Has(E, "HIVE", path))
  /\ G = IF path \in DOMAIN C THEN H ELSE H \ gone
  /\ D = [q \in DOMAIN C \ gone |-> C[q]]

(* What a remove does to the tree: a cell goes, or a hive and what is in it. *)
LEMMA RemoveShows ==
  ASSUME NEW E, NEW H, NEW C, Shows(E, H, C), NEW path \in Seq(PlainName),
         NEW G, NEW D, Shows(Removed(E, path), G, D),
         NEW gone, gone = Gone(H, C, path)
  PROVE  AfterRemove(E, H, C, path, gone, G, D)
<1>0. gone = IF path \in DOMAIN C THEN {path} ELSE {q \in H \cup DOMAIN C : path \in H /\ IsPrefix(path, q)}
  BY DEF Gone
<1>1. PICK N : N = Removed(E, path)
  OBVIOUS
<1>2. /\ \A q : q \in H <=> \E e \in E : e.sig = "HIVE" /\ e.path = q
      /\ \A q : q \in DOMAIN C <=> \E e \in E : e.sig = "CELL" /\ e.path = q
      /\ C = [q \in DOMAIN C |-> C[q]]
      /\ \A e \in E : e.sig = "CELL" => C[e.path] = e.v
      /\ \A e \in E : e.path \in Seq(PlainName)
  BY DEF Shows, Has, HasKey
<1>3. /\ \A q : q \in G <=> \E e \in N : e.sig = "HIVE" /\ e.path = q
      /\ \A q : q \in DOMAIN D <=> \E e \in N : e.sig = "CELL" /\ e.path = q
      /\ D = [q \in DOMAIN D |-> D[q]]
      /\ \A e \in N : e.sig = "CELL" => D[e.path] = e.v
  BY <1>1 DEF Shows, Has, HasKey
<1>4. (path \in DOMAIN C <=> Has(E, "CELL", path)) /\ (path \in H <=> Has(E, "HIVE", path))
  BY DEF Shows
<1>5. ASSUME N \subseteq E, DOMAIN D = DOMAIN C \ gone PROVE D = [q \in DOMAIN C \ gone |-> C[q]]
  <2>1. \A q \in DOMAIN D : D[q] = C[q]
    BY <1>2, <1>3, <1>5
  <2> QED
    BY <1>3, <1>5, <2>1
<1>6. CASE path \in DOMAIN C
  <2>1. N = {e \in E : ~ HasKey(e, "CELL", path)}
    BY <1>1, <1>4, <1>6 DEF Removed, SigFound, Without
  <2>2. gone = {path}
    BY <1>0, <1>6
  <2>3. \A e : e \in N <=> e \in E /\ ~ (e.sig = "CELL" /\ e.path = path)
    BY <2>1 DEF HasKey
  <2>4. \A q : q \in G <=> q \in H
    BY <1>2, <1>3, <2>3
  <2>5. \A q : q \in DOMAIN D <=> q \in DOMAIN C /\ q # path
    BY <1>2, <1>3, <2>3
  <2>6. G = H /\ DOMAIN D = DOMAIN C \ gone
    BY <2>2, <2>4, <2>5
  <2>7. N \subseteq E
    BY <2>1
  <2> QED
    BY <1>4, <1>5, <1>6, <2>2, <2>6, <2>7 DEF AfterRemove
<1>7. CASE path \notin DOMAIN C /\ path \in H
  <2>1. N = {e \in E : ~ Starts(path, e.path)}
    BY <1>1, <1>4, <1>7 DEF Removed, SigFound, Without
  <2>2. gone = {q \in H \cup DOMAIN C : IsPrefix(path, q)}
    BY <1>0, <1>7
  <2>3. \A e \in E : Starts(path, e.path) <=> IsPrefix(path, e.path)
    BY <1>2, StartsIsPrefix
  <2>4. \A e : e \in N <=> e \in E /\ ~ IsPrefix(path, e.path)
    BY <2>1, <2>3
  <2>5. \A q : q \in G <=> q \in H /\ ~ IsPrefix(path, q)
    BY <1>2, <1>3, <2>4
  <2>6. \A q : q \in DOMAIN D <=> q \in DOMAIN C /\ ~ IsPrefix(path, q)
    BY <1>2, <1>3, <2>4
  <2>7. G = H \ gone /\ DOMAIN D = DOMAIN C \ gone
    BY <2>2, <2>5, <2>6
  <2>8. path \in gone
    <3>1. IsPrefix(path, path)
      BY StartsIsPrefix, StartsSelf
    <3> QED
      BY <1>7, <2>2, <3>1
  <2>9. N \subseteq E
    BY <2>1
  <2> QED
    BY <1>4, <1>5, <1>7, <2>7, <2>8, <2>9 DEF AfterRemove
<1>8. CASE path \notin DOMAIN C /\ path \notin H
  <2>1. N = E
    BY <1>1, <1>4, <1>8 DEF Removed
  <2>2. gone = {}
    BY <1>0, <1>8
  <2>3. \A q : (q \in G <=> q \in H) /\ (q \in DOMAIN D <=> q \in DOMAIN C)
    BY <1>2, <1>3, <2>1
  <2>4. G = H /\ DOMAIN D = DOMAIN C
    BY <2>3
  <2> QED
    BY <1>4, <1>5, <1>8, <2>1, <2>2, <2>4 DEF AfterRemove
<1> QED
  BY <1>6, <1>7, <1>8

(* What is stored of a value is what it means, a record of its own. *)
LEMMA StoredMeans ==
  ASSUME NEW v \in Values
  PROVE  /\ Stored(v) = Abstract!Meaning(v)
         /\ Stored(v) = [type |-> Stored(v).type, len |-> Stored(v).len, data |-> Stored(v).data]
         /\ Stored(v).len = v.len
<1>1. DOMAIN v = {"type", "len", "data"}
  BY RegistryAssumption
<1>2. PICK x : x = IF v.type = "Bool" /\ v.data # 0 THEN 1 ELSE v.data
  OBVIOUS
<1>3. Stored(v) = [v EXCEPT !.data = x]
  BY <1>2 DEF Stored
<1>4. x = IF v.type = "Bool" THEN (IF v.data = 0 THEN 0 ELSE 1) ELSE v.data
  BY <1>2
<1>5. Abstract!Meaning(v) = [v EXCEPT !.data = x]
  BY <1>4 DEF Abstract!Meaning
<1>6. PICK s : s = [v EXCEPT !.data = x]
  OBVIOUS
<1>7. s = [type |-> s.type, len |-> s.len, data |-> s.data]
  BY <1>1, <1>6
<1>8. s.len = v.len
  BY <1>1, <1>6
<1> QED
  BY <1>3, <1>5, <1>6, <1>7, <1>8

-----------------------------------------------------------------------------
(* Steps of the abstract registry. *)

(* The tree the callers see is that of the entries of the stream, and stays
   while the stream stays. *)
LEMMA TreeSeen ==
  ASSUME NEW E, Stands(reg.m, E) PROVE Shows(E, hivesOf, cellsOf)
<1>1. Shows(E, TreeOf(reg.m).hives, ByPath(TreeOf(reg.m).cells))
  BY StandsShows
<1> QED
  BY <1>1 DEF hivesOf, cellsOf, ByPath

(* The same of the next state. *)
LEMMA TreeSeenNext ==
  ASSUME NEW E, Stands(reg'.m, E) PROVE Shows(E, hivesOf', cellsOf')
<1>1. Shows(E, TreeOf(reg'.m).hives, ByPath(TreeOf(reg'.m).cells))
  BY StandsShows
<1> QED
  BY <1>1 DEF hivesOf, cellsOf, ByPath

(* While the registry stays, so does the tree. *)
LEMMA TreeKept ==
  ASSUME reg' = reg PROVE hivesOf' = hivesOf /\ cellsOf' = cellsOf
BY DEF hivesOf, cellsOf

(* The abstract registry takes a step with thread t. *)
AbstractStep(t) == \/ Abstract!Nothing(t) \/ Abstract!Taken(t)
    \/ \E path \in {ParsePath(p) : p \in {p \in Paths : ValidPath(p)}} :
         \/ Abstract!LookUp(t, path)
         \/ Abstract!RemoveItem(t, path)
         \/ \E v \in Values : Abstract!WriteValue(t, path, Abstract!Meaning(v))
         \/ \E v \in Values, max \in ReadSizes : Abstract!ReadValue(t, path, v.type, max)

(* Such a step is one the abstract registry may take. *)
LEMMA StepIsNext ==
  ASSUME NEW t \in Threads, AbstractStep(t) PROVE Abstract!Next
BY DEF AbstractStep, Abstract!Next

(* The beginning of a call changes nothing of the abstract registry. *)
LEMMA BeginStutters ==
  ASSUME NEW t \in Threads, CallWrite(t) \/ CallRead(t) \/ CallExist(t) \/ CallRemove(t)
  PROVE  UNCHANGED <<hivesOf, cellsOf, answer>>
<1>1. reg' = reg /\ answer' = answer
  BY DEF CallWrite, CallRead, CallExist, CallRemove, Begin
<1> QED
  BY <1>1, TreeKept

(* With the unlock the caller has its answer. *)
LEMMA UnlockTakes ==
  ASSUME NEW t \in Threads, Unlock(t)
  PROVE  Abstract!Taken(t)
<1>1. reg' = reg /\ answer' = [answer EXCEPT ![t] = [op |-> "none"]]
  BY DEF Unlock, NoCall
<1> QED
  BY <1>1, TreeKept DEF Abstract!Taken, Abstract!Answers

(* registry_exist looks the path up. *)
LEMMA ExistLooksUp ==
  ASSUME PlainPaths, RegistryInv, NEW E, Stands(reg.m, E), NEW t \in Threads, registry_exist(t)
  PROVE  AbstractStep(t)
<1>1. pc[t] = "lock" /\ call[t].op = "exist" /\ reg' = reg
  BY DEF registry_exist, Enter
<1>2. answer' = [answer EXCEPT ![t] = Answer(t, IF Valid(t) /\ Exists(reg.m, Path(t)) THEN 1 ELSE 0)]
  BY DEF registry_exist, Return
<1>3. hivesOf' = hivesOf /\ cellsOf' = cellsOf
  BY <1>1, TreeKept
<1>4. CASE ~ Valid(t)
  <2>1. Answer(t, IF Valid(t) /\ Exists(reg.m, Path(t)) THEN 1 ELSE 0) = [op |-> "exist", path |-> <<>>, ret |-> 0]
    BY <1>1, <1>4 DEF Answer, Named
  <2>2. Abstract!Answers(t, [op |-> "exist", path |-> <<>>, ret |-> 0])
    BY <1>2, <2>1 DEF Abstract!Answers
  <2> QED
    BY <1>3, <2>2 DEF Abstract!Nothing, AbstractStep
<1>5. CASE Valid(t)
  <2>1. PICK path : path = Path(t)
    OBVIOUS
  <2>2. path \in Seq(PlainName) /\ path # <<>> /\ path \in {ParsePath(p) : p \in {p \in Paths : ValidPath(p)}}
    BY <1>1, <1>5, <2>1, CallPath DEF Path, Valid
  <2>3. Exists(reg.m, path) <=> Has(E, "HIVE", path) \/ Has(E, "CELL", path)
    BY <2>2, FindInStands DEF Exists
  <2>4. Shows(E, hivesOf, cellsOf)
    BY TreeSeen
  <2>5. Exists(reg.m, path) <=> path \in hivesOf \cup DOMAIN cellsOf
    BY <2>3, <2>4 DEF Shows
  <2>6. Answer(t, IF Valid(t) /\ Exists(reg.m, path) THEN 1 ELSE 0)
          = [op |-> "exist", path |-> path, ret |-> IF path \in hivesOf \cup DOMAIN cellsOf THEN 1 ELSE 0]
    BY <1>1, <1>5, <2>1, <2>5 DEF Answer, Named
  <2>7. Abstract!LookUp(t, path)
    BY <1>2, <1>3, <2>1, <2>6 DEF Abstract!LookUp, Abstract!Answers
  <2> QED
    BY <2>2, <2>7 DEF AbstractStep
<1> QED
  BY <1>4, <1>5

-----------------------------------------------------------------------------
(* Reads. *)

(* Nothing is read of a cell of another type. *)
LEMMA NothingRead ==
  ASSUME NEW c, NEW type, NEW max, c.type # type \/ type = "Exist"
  PROVE  ReadLength(c, type, max) = 0
BY DEF ReadLength

(* What a read answers of a cell is what the tree says of its value. *)
LEMMA ReadAgrees ==
  ASSUME NEW c, c.len \in Nat, c.len = 0 => c.type \in {"Exist", "Str", "Bin"},
         NEW type, NEW max \in Nat, NEW ret, ret = ReadLength(c, type, max),
         NEW copied, copied = (c.type = type /\ type # "Exist" /\ (ret > 0 \/ type \in {"Str", "Bin"})),
         NEW readable, readable = (c.type = type /\ type # "Exist" /\ (type \in {"Str", "Bin"} \/ c.len <= max))
  PROVE  /\ copied <=> readable
         /\ ret = IF readable THEN IF c.len < max THEN c.len ELSE max ELSE 0
<1>1. CASE c.type # type \/ type = "Exist"
  <2>1. ret = 0
    BY <1>1, NothingRead
  <2>2. ~ copied /\ ~ readable
    BY <1>1, Zenon
  <2> QED
    BY <2>1, <2>2
<1>2. CASE c.type = type /\ type # "Exist" /\ type \in {"Str", "Bin"}
  BY <1>2 DEF ReadLength
<1>3. CASE c.type = type /\ type # "Exist" /\ type \notin {"Str", "Bin"}
  <2>1. ret = IF max >= c.len THEN c.len ELSE 0
    BY <1>3 DEF ReadLength
  <2>2. c.len # 0
    BY <1>3
  <2>3. CASE max >= c.len
    <3>1. ret = c.len /\ ret > 0
      BY <2>1, <2>2, <2>3
    <3>2. c.len = IF c.len < max THEN c.len ELSE max
      BY <2>3
    <3> QED
      BY <1>3, <2>3, <3>1, <3>2
  <2>4. CASE ~ (max >= c.len)
    <3>1. ret = 0 /\ ~ (ret > 0) /\ ~ (c.len <= max)
      BY <2>1, <2>4
    <3>2. ~ copied /\ ~ readable
      BY <1>3, <3>1, Zenon
    <3> QED
      BY <3>1, <3>2
  <2> QED
    BY <2>3, <2>4
<1> QED
  BY <1>1, <1>2, <1>3

(* Of a read that waits for the lock: what it reads is a type there is, into
   room there is. *)
ReadSound(c) == c.op = "read" => c.max \in ReadSizes /\ \E v \in Values : c.type = v.type

(* A cell of the stream holds what is stored of a value. *)
LEMMA CellHolds ==
  ASSUME NEW tok \in Tokens, tok.w = "CELL"
  PROVE  tok.len \in Nat /\ (tok.len = 0 => tok.type \in {"Exist", "Str", "Bin"})
<1>1. PICK name \in PlainName, v \in Values : tok = Cell(name, Stored(v).type, Stored(v).len, Stored(v).data)
  <2>1. tok \notin {REG_HIVE_SIG_S, REG_HIVE_SIG_E, REG_BASE_SIG_E}
    BY DEF REG_HIVE_SIG_S, REG_HIVE_SIG_E, REG_BASE_SIG_E
  <2>2. ~ \E name \in PlainName, depth \in Nat : tok = HiveName(name, depth)
    BY DEF HiveName, PlainName, SigWords
  <2>3. \E name \in PlainName, v \in {Stored(v) : v \in Values} : tok = Cell(name, v.type, v.len, v.data)
    BY <2>1, <2>2 DEF Tokens
  <2> QED
    BY <2>3
<1>2. tok.len = Stored(v).len /\ tok.type = Stored(v).type
  BY <1>1 DEF Cell
<1>3. DOMAIN v = {"type", "len", "data"} /\ v.len \in Nat
  BY RegistryAssumption
<1>4. PICK x : Stored(v) = [v EXCEPT !.data = x]
  BY DEF Stored
<1>5. Stored(v).len = v.len /\ Stored(v).type = v.type
  BY <1>3, <1>4
<1> QED
  BY <1>2, <1>3, <1>5, ReadAssumption

(* registry_read reads the value, or as much of it as there is room for. *)
LEMMA ReadReads ==
  ASSUME PlainPaths, RegistryInv, NEW E, Stands(reg.m, E), NEW t \in Threads, registry_read(t),
         ReadSound(call[t])
  PROVE  AbstractStep(t)
<1>1. PICK at, type, max, ret, copied :
        /\ at = IF Valid(t) THEN FindIn(reg.m, Path(t), "CELL") ELSE NULL
        /\ type = call[t].type /\ max = call[t].max
        /\ ret = IF at = NULL THEN 0 ELSE ReadLength(reg.m[at], type, max)
        /\ copied = (at # NULL /\ reg.m[at].type = type /\ type # "Exist" /\ (ret > 0 \/ type \in {"Str", "Bin"}))
        /\ Enter(t, "read")
        /\ answer' = [answer EXCEPT ![t] = [op |-> "read", path |-> Named(t),
                        data |-> IF copied THEN reg.m[at].data ELSE 0, ret |-> ret]]
        /\ reg' = reg
  BY DEF registry_read, Return
<1>2. pc[t] = "lock" /\ call[t].op = "read"
  BY <1>1 DEF Enter
<1>3. hivesOf' = hivesOf /\ cellsOf' = cellsOf
  BY <1>1, TreeKept
<1>4. max \in Nat /\ max \in ReadSizes /\ \E v \in Values : type = v.type
  BY <1>1, <1>2, ReadAssumption DEF ReadSound
<1>5. CASE ~ Valid(t)
  <2>1. at = NULL /\ Named(t) = <<>>
    BY <1>1, <1>5 DEF Named
  <2>2. ret = 0 /\ ~ copied
    BY <1>1, <2>1
  <2>3. Abstract!Answers(t, [op |-> "read", path |-> <<>>, data |-> 0, ret |-> 0])
    BY <1>1, <2>1, <2>2 DEF Abstract!Answers
  <2> QED
    BY <1>3, <2>3 DEF Abstract!Nothing, AbstractStep
<1>6. CASE Valid(t)
  <2>1. PICK path : path = Path(t)
    OBVIOUS
  <2>2. path \in Seq(PlainName) /\ path # <<>> /\ path \in {ParsePath(p) : p \in {p \in Paths : ValidPath(p)}}
    BY <1>2, <1>6, <2>1, CallPath DEF Path, Valid
  <2>3. at = FindIn(reg.m, path, "CELL") /\ Named(t) = path
    BY <1>1, <1>6, <2>1 DEF Named
  <2>4. Shows(E, hivesOf, cellsOf)
    BY TreeSeen
  <2>5. /\ at # NULL <=> Has(E, "CELL", path)
        /\ at # NULL => reg.m[at].w = "CELL" /\ CellEntry(path, reg.m[at]) \in E
    BY <2>2, <2>3, FindInStands
  <2>6. at # NULL <=> path \in DOMAIN cellsOf
    BY <2>4, <2>5 DEF Shows
  <2>8. CASE at = NULL
    <3>1. ret = 0 /\ ~ copied
      BY <1>1, <2>8
    <3>2. ~ Abstract!Readable(path, type, max)
      BY <2>6, <2>8 DEF Abstract!Readable
    <3>3. Abstract!Answers(t, [op |-> "read", path |-> path, data |-> 0, ret |-> 0])
      BY <1>1, <2>3, <3>1 DEF Abstract!Answers
    <3>4. Abstract!ReadValue(t, path, type, max)
      BY <1>3, <3>2, <3>3 DEF Abstract!ReadValue
    <3> QED
      BY <1>4, <2>2, <3>4 DEF AbstractStep
  <2>9. CASE at # NULL
    <3>1. PICK c, v : c = reg.m[at] /\ v = cellsOf[path]
      OBVIOUS
    <3>2. v.type = c.type /\ v.len = c.len /\ v.data = c.data
      <4>1. PICK e : e = CellEntry(path, c)
        OBVIOUS
      <4>2. e \in E /\ e.sig = "CELL" /\ e.path = path /\ e.v = [type |-> c.type, len |-> c.len, data |-> c.data]
        BY <2>5, <2>9, <3>1, <4>1 DEF CellEntry
      <4>3. v = e.v
        BY <2>4, <3>1, <4>2 DEF Shows
      <4> QED
        BY <4>2, <4>3
    <3>3. c \in Tokens /\ c.w = "CELL"
      <4>1. PICK d : Nested(reg.m, d)
        BY DEF RegistryInv, BaseSound, SoundBase
      <4>2. HiveAt(reg.m, d, 1)
        <5>1. Len(reg.m) \in Nat /\ Len(reg.m) >= 2 /\ reg.m[1].w = "HIVE"
          BY <4>1 DEF Nested
        <5> QED
          BY <4>1, <5>1 DEF HiveAt
      <4>3. at \in 2 .. Len(reg.m) - 1
        BY <2>2, <2>3, <2>9, <4>2, FindInSound
      <4>4. reg.m \in Seq(Tokens)
        BY <4>1 DEF Nested
      <4>5. at \in 1 .. Len(reg.m)
        BY <4>3, <4>4
      <4> QED
        BY <2>5, <2>9, <3>1, <4>4, <4>5
    <3>4. c.len \in Nat /\ (c.len = 0 => c.type \in {"Exist", "Str", "Bin"})
      BY <3>3, CellHolds
    <3>5. PICK able : able = (c.type = type /\ type # "Exist" /\ (type \in {"Str", "Bin"} \/ c.len <= max))
      OBVIOUS
    <3>6. Abstract!Readable(path, type, max) <=> able
      BY <2>6, <2>9, <3>1, <3>2, <3>5 DEF Abstract!Readable
    <3>7. /\ ret = ReadLength(c, type, max)
          /\ copied = (c.type = type /\ type # "Exist" /\ (ret > 0 \/ type \in {"Str", "Bin"}))
      BY <1>1, <2>9, <3>1
    <3>8. (copied <=> able) /\ ret = IF able THEN IF c.len < max THEN c.len ELSE max ELSE 0
      BY <1>4, <3>4, <3>5, <3>7, ReadAgrees
    <3>9. Abstract!ReadValue(t, path, type, max)
      <4>1. CASE able
        <5>1. Abstract!Answers(t, [op |-> "read", path |-> path, data |-> v.data,
                                   ret |-> IF v.len < max THEN v.len ELSE max])
          BY <1>1, <2>3, <3>1, <3>2, <3>8, <4>1 DEF Abstract!Answers
        <5> QED
          BY <1>3, <3>1, <3>6, <4>1, <5>1 DEF Abstract!ReadValue
      <4>2. CASE ~ able
        <5>1. Abstract!Answers(t, [op |-> "read", path |-> path, data |-> 0, ret |-> 0])
          BY <1>1, <2>3, <3>8, <4>2 DEF Abstract!Answers
        <5> QED
          BY <1>3, <3>6, <4>2, <5>1 DEF Abstract!ReadValue
      <4> QED
        BY <4>1, <4>2
    <3> QED
      BY <1>4, <2>2, <3>9 DEF AbstractStep
  <2> QED
    BY <2>8, <2>9
<1> QED
  BY <1>5, <1>6

-----------------------------------------------------------------------------
(* Writes and removes. *)

(* A step of a thread that leaves the registry, or stops, answers nobody. *)
LEMMA WriteWrites ==
  ASSUME PlainPaths, RegistryInv, NEW E, Stands(reg.m, E), NEW t \in Threads, registry_write(t)
  PROVE  AbstractStep(t) \/ NamelessWrite(t) \/ UNCHANGED <<hivesOf, cellsOf, answer>>
<1>1. pc[t] = "lock" /\ call[t].op = "write"
  BY DEF registry_write, Enter
<1>2. PICK v : v = call[t].v /\ v \in Values
  BY <1>1 DEF RegistryInv, CallSound
<1>3. PICK s : s = Stored(v) /\ s = Abstract!Meaning(v) /\ s.len = v.len
               /\ s = [type |-> s.type, len |-> s.len, data |-> s.data]
  BY <1>2, StoredMeans
<1>4. CASE reg' = reg /\ Halt(t)
  <2>1. answer' = answer
    BY <1>4 DEF Halt
  <2> QED
    BY <1>4, <2>1, TreeKept
<1>5. CASE reg' = reg /\ ~ Valid(t) /\ Return(t, Answer(t, s.len))
  <2>1. Answer(t, s.len) = [op |-> "write", path |-> <<>>, ret |-> v.len]
    BY <1>1, <1>3, <1>5 DEF Answer, Named
  <2>2. Abstract!Answers(t, [op |-> "write", path |-> <<>>, ret |-> v.len])
    BY <1>5, <2>1 DEF Return, Abstract!Answers
  <2>3. hivesOf' = hivesOf /\ cellsOf' = cellsOf
    BY <1>5, TreeKept
  <2> QED
    BY <1>1, <1>2, <1>5, <2>2, <2>3 DEF NamelessWrite
<1>6. CASE /\ Valid(t) /\ Stands(reg'.m, Written(E, Path(t), s))
           /\ Return(t, Answer(t, IF Has(E, "HIVE", Path(t)) THEN 0 ELSE s.len))
  <2>1. PICK path : path = Path(t)
    OBVIOUS
  <2>2. path \in Seq(PlainName) /\ path # <<>> /\ path \in {ParsePath(p) : p \in {p \in Paths : ValidPath(p)}}
    BY <1>1, <1>6, <2>1, CallPath DEF Path, Valid
  <2>3. Shows(E, hivesOf, cellsOf)
    BY TreeSeen
  <2>4. Shows(Written(E, path, s), hivesOf', cellsOf')
    BY <1>6, <2>1, TreeSeenNext
  <2>5. /\ path \in hivesOf <=> Has(E, "HIVE", path)
        /\ hivesOf' = hivesOf \cup {SubSeq(path, 1, i) : i \in 1 .. Len(path) - 1}
        /\ path \in hivesOf => cellsOf' = cellsOf
        /\ path \notin hivesOf =>
             cellsOf' = [q \in DOMAIN cellsOf \cup {path} |-> IF q = path THEN s ELSE cellsOf[q]]
    <3>1. PICK H, C, G, D : H = hivesOf /\ C = cellsOf /\ G = hivesOf' /\ D = cellsOf'
      OBVIOUS
    <3>2. Shows(E, H, C) /\ Shows(Written(E, path, s), G, D)
      BY <2>3, <2>4, <3>1
    <3>3. AfterWrite(E, H, C, path, s, G, D)
      BY <1>3, <2>2, <3>2, WriteShows
    <3> QED
      BY <3>1, <3>3 DEF AfterWrite
  <2>6. Answer(t, IF Has(E, "HIVE", path) THEN 0 ELSE s.len)
          = [op |-> "write", path |-> path, ret |-> IF path \in hivesOf THEN 0 ELSE s.len]
    BY <1>1, <1>6, <2>1, <2>5 DEF Answer, Named
  <2>7. Abstract!Answers(t, [op |-> "write", path |-> path, ret |-> IF path \in hivesOf THEN 0 ELSE s.len])
    BY <1>6, <2>1, <2>6 DEF Return, Abstract!Answers
  <2>8. Abstract!WriteValue(t, path, s)
    <3>1. hivesOf' = hivesOf \cup Abstract!ParentsOf(path)
      BY <2>5 DEF Abstract!ParentsOf
    <3>2. cellsOf' = IF path \in hivesOf THEN cellsOf
                     ELSE [q \in DOMAIN cellsOf \cup {path} |-> IF q = path THEN s ELSE cellsOf[q]]
      BY <2>5
    <3> QED
      BY <2>7, <3>1, <3>2 DEF Abstract!WriteValue
  <2>9. Abstract!WriteValue(t, path, Abstract!Meaning(v))
    BY <1>3, <2>8
  <2> QED
    BY <1>2, <2>2, <2>9 DEF AbstractStep
<1>7. s = Stored(call[t].v)
  BY <1>2, <1>3
<1> QED
  BY <1>4, <1>5, <1>6, <1>7, WriteTakesEffect

(* registry_remove removes the item. *)
LEMMA RemoveRemoves ==
  ASSUME PlainPaths, RegistryInv, NEW E, Stands(reg.m, E), NEW t \in Threads, registry_remove(t)
  PROVE  AbstractStep(t)
<1>1. pc[t] = "lock" /\ call[t].op = "remove"
  BY DEF registry_remove, Enter
<1>2. CASE reg' = reg /\ ~ Valid(t) /\ Return(t, Answer(t, 0))
  <2>1. Answer(t, 0) = [op |-> "remove", path |-> <<>>, ret |-> 0]
    BY <1>1, <1>2 DEF Answer, Named
  <2>2. Abstract!Answers(t, [op |-> "remove", path |-> <<>>, ret |-> 0])
    BY <1>2, <2>1 DEF Return, Abstract!Answers
  <2>3. hivesOf' = hivesOf /\ cellsOf' = cellsOf
    BY <1>2, TreeKept
  <2> QED
    BY <2>2, <2>3 DEF Abstract!Nothing, AbstractStep
<1>3. CASE /\ Valid(t) /\ Stands(reg'.m, Removed(E, Path(t)))
           /\ Return(t, Answer(t, IF Has(E, "CELL", Path(t)) \/ Has(E, "HIVE", Path(t)) THEN 1 ELSE 0))
  <2>1. PICK path : path = Path(t)
    OBVIOUS
  <2>2. path \in Seq(PlainName) /\ path # <<>> /\ path \in {ParsePath(p) : p \in {p \in Paths : ValidPath(p)}}
    BY <1>1, <1>3, <2>1, CallPath DEF Path, Valid
  <2>3. Shows(E, hivesOf, cellsOf)
    BY TreeSeen
  <2>4. Shows(Removed(E, path), hivesOf', cellsOf')
    BY <1>3, <2>1, TreeSeenNext
  <2>5. PICK gone : gone = IF path \in DOMAIN cellsOf THEN {path}
                           ELSE {q \in hivesOf \cup DOMAIN cellsOf : path \in hivesOf /\ IsPrefix(path, q)}
    OBVIOUS
  <2>6. /\ gone = {} <=> ~ (Has(E, "CELL", path) \/ Has(E, "HIVE", path))
        /\ hivesOf' = IF path \in DOMAIN cellsOf THEN hivesOf ELSE hivesOf \ gone
        /\ cellsOf' = [q \in DOMAIN cellsOf \ gone |-> cellsOf[q]]
    <3>1. PICK H, C, G, D : H = hivesOf /\ C = cellsOf /\ G = hivesOf' /\ D = cellsOf'
      OBVIOUS
    <3>2. Shows(E, H, C) /\ Shows(Removed(E, path), G, D)
      BY <2>3, <2>4, <3>1
    <3>3. gone = Gone(H, C, path)
      BY <2>5, <3>1 DEF Gone
    <3>4. AfterRemove(E, H, C, path, gone, G, D)
      BY <2>2, <3>2, <3>3, RemoveShows
    <3> QED
      BY <3>1, <3>4 DEF AfterRemove
  <2>7. Answer(t, IF Has(E, "CELL", path) \/ Has(E, "HIVE", path) THEN 1 ELSE 0)
          = [op |-> "remove", path |-> path, ret |-> IF gone = {} THEN 0 ELSE 1]
    BY <1>1, <1>3, <2>1, <2>6 DEF Answer, Named
  <2>8. Abstract!Answers(t, [op |-> "remove", path |-> path, ret |-> IF gone = {} THEN 0 ELSE 1])
    BY <1>3, <2>1, <2>7 DEF Return, Abstract!Answers
  <2>9. cellsOf' = Abstract!Restrict(cellsOf, DOMAIN cellsOf \ gone)
    BY <2>6 DEF Abstract!Restrict
  <2>10. gone = IF path \in DOMAIN cellsOf THEN {path}
                ELSE {q \in hivesOf \cup DOMAIN cellsOf : path \in hivesOf /\ Abstract!Within(path, q)}
    BY <2>5 DEF Abstract!Within, Abstract!IsPrefix, IsPrefix
  <2>11. Abstract!RemoveItem(t, path)
    BY <2>6, <2>8, <2>9, <2>10 DEF Abstract!RemoveItem
  <2> QED
    BY <2>2, <2>11 DEF AbstractStep
<1> QED
  BY <1>2, <1>3, RemoveTakesEffect

-----------------------------------------------------------------------------
(* The reads that wait for the lock are sound. *)
CallsInv == TreeInv /\ \A t \in Threads : pc[t] = "lock" => ReadSound(call[t])

(* No read waits at first. *)
LEMMA CallsInit ==
  ASSUME Init PROVE CallsInv
<1>1. \A t \in Threads : pc[t] # "lock"
  BY DEF Init
<1> QED
  BY <1>1, TreeInit DEF CallsInv

(* A read that begins is sound, and stays as it is while it waits. *)
LEMMA CallsStep ==
  ASSUME PlainPaths, CallsInv, [Next]_vars
  PROVE  CallsInv'
<1>1. TreeInv' /\ TypeOK /\ DOMAIN call = Threads
  BY TreeStep DEF CallsInv, TreeInv, RegistryInv
<1>2. pc \in [Threads -> {"idle", "lock", "unlock", "halt"}]
  BY <1>1 DEF TypeOK
<1> SUFFICES ASSUME NEW u \in Threads, pc'[u] = "lock" PROVE ReadSound(call'[u])
  BY <1>1 DEF CallsInv
<1>3. CASE pc'[u] = pc[u] /\ call'[u] = call[u]
  BY <1>3 DEF CallsInv
<1>4. ASSUME NEW t \in Threads, NEW c, Begin(t, c), ReadSound(c) PROVE ReadSound(call'[u])
  <2>1. pc' = [pc EXCEPT ![t] = "lock"] /\ call' = [call EXCEPT ![t] = c]
    BY <1>4 DEF Begin
  <2>2. CASE u = t
    BY <1>1, <1>4, <2>1, <2>2
  <2>3. CASE u # t
    BY <1>1, <1>2, <1>3, <2>1, <2>3
  <2> QED
    BY <2>2, <2>3
<1>5. ASSUME NEW t \in Threads, CallWrite(t) \/ CallRead(t) \/ CallExist(t) \/ CallRemove(t)
      PROVE  ReadSound(call'[u])
  <2>1. CASE CallWrite(t)
    BY <1>4, <2>1 DEF CallWrite, ReadSound
  <2>2. CASE CallRead(t)
    <3>1. PICK path \in Paths, v \in Values, max \in ReadSizes :
            Begin(t, [op |-> "read", path |-> path, type |-> v.type, max |-> max])
      BY <2>2 DEF CallRead
    <3>2. ReadSound([op |-> "read", path |-> path, type |-> v.type, max |-> max])
      BY DEF ReadSound
    <3> QED
      BY <1>4, <3>1, <3>2
  <2>3. CASE CallExist(t)
    BY <1>4, <2>3 DEF CallExist, ReadSound
  <2>4. CASE CallRemove(t)
    BY <1>4, <2>4 DEF CallRemove, ReadSound
  <2> QED
    BY <1>5, <2>1, <2>2, <2>3, <2>4
<1>6. ASSUME NEW t \in Threads, NEW to, to # "lock", pc' = [pc EXCEPT ![t] = to],
             call' = call \/ \E c : call' = [call EXCEPT ![t] = c]
      PROVE  ReadSound(call'[u])
  <2>1. u # t
    BY <1>2, <1>6
  <2>2. pc'[u] = pc[u] /\ call'[u] = call[u]
    BY <1>1, <1>2, <1>6, <2>1
  <2> QED
    BY <1>3, <2>2
<1>7. ASSUME NEW t \in Threads, registry_write(t) \/ registry_remove(t) \/ RemoveStale(t) \/ Unlock(t)
             \/ registry_read(t) \/ registry_exist(t)
      PROVE  ReadSound(call'[u])
  <2>1. \A r : Return(t, r) => ReadSound(call'[u])
    BY <1>6 DEF Return
  <2>2. Halt(t) => ReadSound(call'[u])
    BY <1>6 DEF Halt
  <2>3. CASE Unlock(t)
    BY <1>6, <2>3 DEF Unlock
  <2>4. CASE registry_write(t)
    BY <2>1, <2>2, <2>4 DEF registry_write
  <2>5. CASE registry_remove(t)
    BY <2>1, <2>5 DEF registry_remove
  <2>6. CASE RemoveStale(t)
    BY <2>1, <2>2, <2>6 DEF RemoveStale
  <2>7. CASE registry_read(t)
    BY <2>1, <2>7 DEF registry_read
  <2>8. CASE registry_exist(t)
    BY <2>1, <2>8 DEF registry_exist
  <2> QED
    BY <1>7, <2>3, <2>4, <2>5, <2>6, <2>7, <2>8
<1>8. CASE UNCHANGED vars
  BY <1>3, <1>8 DEF vars
<1> QED
  BY <1>5, <1>7, <1>8 DEF Next

-----------------------------------------------------------------------------
(* The refinement. *)

(* A registry that has been set up is an abstract registry with nothing in it. *)
LEMMA InitIsAbstract ==
  ASSUME Init PROVE Abstract!Init
<1>1. reg.m = EmptyRegistry(InitialSize).m
  BY DEF Init
<1>2. Stands(reg.m, {})
  BY <1>1, EmptyStands
<1>3. PICK H, C : H = hivesOf /\ C = cellsOf
  OBVIOUS
<1>4. Shows({}, H, C)
  BY <1>2, <1>3, TreeSeen
<1>5. \A q : q \notin H /\ q \notin DOMAIN C
  BY <1>4 DEF Shows, Has
<1>6. H = {} /\ DOMAIN C = {} /\ C = [q \in DOMAIN C |-> C[q]]
  BY <1>4, <1>5 DEF Shows
<1>7. C = <<>>
  BY <1>6
<1>8. answer = [t \in Threads |-> [op |-> "none"]]
  BY DEF Init, NoCall
<1> QED
  BY <1>3, <1>6, <1>7, <1>8 DEF Abstract!Init

(* A step of the abstract registry, or a write whose path names nothing. *)
AbstractNext == Abstract!Next \/ \E t \in Threads : NamelessWrite(t)

(* Every step is one of these, or changes nothing of the abstract registry, but
   for a remove that works on memory that has been freed. *)
LEMMA StepIsAbstract ==
  ASSUME PlainPaths, CallsInv, [Next]_vars, [\A t \in Threads : ~ RemoveStale(t)]_vars
  PROVE  [AbstractNext]_<<hivesOf, cellsOf, answer>>
<1>1. PICK E : RegistryInv /\ Stands(reg.m, E) /\ \A t \in Threads : pc[t] = "lock" => ReadSound(call[t])
  BY DEF CallsInv, TreeInv
<1>2. CASE UNCHANGED vars
  BY <1>2, TreeKept DEF vars
<1>3. ASSUME NEW t \in Threads, AbstractStep(t) \/ NamelessWrite(t) PROVE AbstractNext
  BY <1>3, StepIsNext DEF AbstractNext
<1>4. ASSUME NEW t \in Threads, CallWrite(t) \/ CallRead(t) \/ CallExist(t) \/ CallRemove(t)
      PROVE  UNCHANGED <<hivesOf, cellsOf, answer>>
  BY <1>4, BeginStutters
<1>5. ASSUME NEW t \in Threads, registry_write(t)
      PROVE  AbstractStep(t) \/ NamelessWrite(t) \/ UNCHANGED <<hivesOf, cellsOf, answer>>
  BY <1>1, <1>5, WriteWrites
<1>6. ASSUME NEW t \in Threads, registry_read(t) PROVE AbstractStep(t)
  <2>1. ReadSound(call[t])
    BY <1>1, <1>6 DEF registry_read, Enter
  <2> QED
    BY <1>1, <1>6, <2>1, ReadReads
<1>7. ASSUME NEW t \in Threads, registry_exist(t) PROVE AbstractStep(t)
  BY <1>1, <1>7, ExistLooksUp
<1>8. ASSUME NEW t \in Threads, registry_remove(t) PROVE AbstractStep(t)
  BY <1>1, <1>8, RemoveRemoves
<1>9. ASSUME NEW t \in Threads, Unlock(t) PROVE AbstractStep(t)
  BY <1>9, UnlockTakes DEF AbstractStep
<1>10. CASE Next /\ ~ (UNCHANGED vars)
  <2>1. \A t \in Threads : ~ RemoveStale(t)
    BY <1>10
  <2>2. PICK t \in Threads :
          \/ CallWrite(t) \/ CallRead(t) \/ CallExist(t) \/ CallRemove(t)
          \/ registry_write(t) \/ registry_read(t) \/ registry_exist(t)
          \/ registry_remove(t) \/ RemoveStale(t)
          \/ Unlock(t)
    BY <1>10 DEF Next
  <2> QED
    BY <1>3, <1>4, <1>5, <1>6, <1>7, <1>8, <1>9, <2>1, <2>2
<1> QED
  BY <1>2, <1>10

(* The invariant the refinement needs holds of every behaviour. *)
LEMMA CallsInductive ==
  ASSUME PlainPaths PROVE Spec => []CallsInv
<1>1. Init => CallsInv
  BY CallsInit
<1>2. CallsInv /\ [Next]_vars => CallsInv'
  BY CallsStep
<1> QED
  BY <1>1, <1>2, PTL DEF Spec

(* registry.c: however many threads call, every call takes effect in one step
   on a tree of values and answers what that tree says, as long as no name
   looks like a tag and no remove has read kernel_reg before a write moved it.
   Only a write whose path names nothing answers wrong (NamelessWrite). *)
THEOREM RegistryImplementsAbstract ==
  ASSUME PlainPaths
  PROVE  Spec /\ [][\A t \in Threads : ~ RemoveStale(t)]_vars => ImplementsAbstractRegistry
<1>1. Init => Abstract!Init
  BY InitIsAbstract
<1>2. CallsInv /\ [Next]_vars /\ [\A t \in Threads : ~ RemoveStale(t)]_vars
        => [AbstractNext]_<<hivesOf, cellsOf, answer>>
  BY StepIsAbstract
<1>3. Spec => []CallsInv
  BY CallsInductive
<1> QED
  BY <1>1, <1>2, <1>3, PTL DEF Spec, ImplementsAbstractRegistry, AbstractNext

-----------------------------------------------------------------------------
(* With one thread the registry is not moved while a remove is on its way. *)
RemoveHere == \A t \in Threads : pc[t] = "lock" /\ call[t].op = "remove" => call[t].base = block

(* A single thread cannot write while its remove waits. *)
LEMMA RemoveHereStep ==
  ASSUME NEW t, Threads = {t}, TypeOK, DOMAIN call = Threads, RemoveHere, [Next]_vars
  PROVE  RemoveHere'
<1>1. pc \in [{t} -> {"idle", "lock", "unlock", "halt"}] /\ DOMAIN call = {t}
  BY DEF TypeOK
<1> SUFFICES ASSUME pc'[t] = "lock", call'[t].op = "remove" PROVE call'[t].base = block'
  BY DEF RemoveHere
<1>2. ASSUME NEW c, Begin(t, c), c.op = "remove" => c.base = block PROVE call'[t].base = block'
  BY <1>1, <1>2 DEF Begin
<1>3. CASE CallWrite(t) \/ CallExist(t)
  BY <1>2, <1>3 DEF CallWrite, CallExist
<1>4. CASE CallRead(t)
  <2>1. PICK path \in Paths, v \in Values, max \in ReadSizes :
          Begin(t, [op |-> "read", path |-> path, type |-> v.type, max |-> max])
    BY <1>4 DEF CallRead
  <2> QED
    BY <1>2, <2>1
<1>5. CASE CallRemove(t)
  BY <1>2, <1>5 DEF CallRemove
<1>6. ASSUME NEW to, to # "lock", pc' = [pc EXCEPT ![t] = to] PROVE FALSE
  BY <1>1, <1>6
<1>7. \A r : ~ Return(t, r)
  BY <1>6 DEF Return
<1>8. ~ Halt(t)
  BY <1>6 DEF Halt
<1>9. ~ Unlock(t)
  BY <1>6 DEF Unlock
<1>10. ~ registry_write(t)
  BY <1>7, <1>8 DEF registry_write
<1>11. ~ registry_read(t) /\ ~ registry_exist(t) /\ ~ registry_remove(t)
  BY <1>7 DEF registry_read, registry_exist, registry_remove
<1>12. ~ RemoveStale(t)
  BY <1>7, <1>8 DEF RemoveStale
<1>13. CASE UNCHANGED vars
  BY <1>13 DEF vars, RemoveHere
<1> QED
  BY <1>3, <1>4, <1>5, <1>9, <1>10, <1>11, <1>12, <1>13 DEF Next

(* registry.c, called by one thread: it is the tree its callers think it is,
   as long as no name looks like a tag; only NamelessWrite answers wrong. *)
THEOREM OneThreadImplementsAbstract ==
  ASSUME PlainPaths, NEW one, Threads = {one}
  PROVE  Spec => ImplementsAbstractRegistry
<1>1. Init => RemoveHere
  BY DEF Init, RemoveHere
<1>2. CallsInv /\ RemoveHere /\ [Next]_vars => RemoveHere'
  BY RemoveHereStep DEF CallsInv, TreeInv, RegistryInv
<1>3. RemoveHere => \A t \in Threads : ~ RemoveStale(t)
  BY DEF RemoveHere, RemoveStale, Enter
<1>4. Spec => []CallsInv
  BY CallsInductive
<1>5. Spec => []RemoveHere
  BY <1>1, <1>2, <1>4, PTL DEF Spec
<1>6. CallsInv /\ RemoveHere /\ [Next]_vars => [AbstractNext]_<<hivesOf, cellsOf, answer>>
  BY <1>3, StepIsAbstract
<1>7. Init => Abstract!Init
  BY InitIsAbstract
<1> QED
  BY <1>4, <1>5, <1>6, <1>7, PTL DEF Spec, ImplementsAbstractRegistry, AbstractNext

-----------------------------------------------------------------------------
(* There is an answer for every thread. *)
Answered == DOMAIN answer = Threads

(* No step adds or takes away a thread. *)
LEMMA AnsweredStep ==
  ASSUME Answered, [Next]_vars PROVE Answered'
<1>1. ASSUME NEW t, NEW r, Return(t, r) PROVE Answered'
  BY <1>1 DEF Return, Answered
<1>2. ASSUME NEW t, CallWrite(t) \/ CallRead(t) \/ CallExist(t) \/ CallRemove(t) PROVE Answered'
  <2>1. answer' = answer
    BY <1>2 DEF CallWrite, CallRead, CallExist, CallRemove, Begin
  <2> QED
    BY <2>1 DEF Answered
<1>3. ASSUME NEW t, registry_write(t) PROVE Answered'
  <2>1. answer' = answer \/ \E r : Return(t, r)
    BY <1>3 DEF registry_write, Halt
  <2> QED
    BY <1>1, <2>1 DEF Answered
<1>4. ASSUME NEW t, registry_read(t) \/ registry_exist(t) \/ registry_remove(t) PROVE Answered'
  BY <1>1, <1>4 DEF registry_read, registry_exist, registry_remove
<1>5. ASSUME NEW t, RemoveStale(t) PROVE Answered'
  <2>1. answer' = answer \/ \E r : Return(t, r)
    BY <1>5 DEF RemoveStale, Halt
  <2> QED
    BY <1>1, <2>1 DEF Answered
<1>6. ASSUME NEW t, Unlock(t) PROVE Answered'
  BY <1>6 DEF Unlock, Answered
<1>7. CASE UNCHANGED vars
  BY <1>7 DEF vars, Answered
<1> QED
  BY <1>2, <1>3, <1>4, <1>5, <1>6, <1>7 DEF Next

(* A remove returns by itself, with the registry it has got. *)
LEMMA OnlyRemove ==
  ASSUME TypeOK, [Next]_vars, NEW t \in Threads, call[t].base = block, Returns(t, "remove")
  PROVE  registry_remove(t)
<1>1. pc[t] = "lock" /\ call[t].op = "remove" /\ pc'[t] = "unlock"
  BY DEF Returns
<1>2. pc \in [Threads -> {"idle", "lock", "unlock", "halt"}]
  BY DEF TypeOK
<1>3. \A u, to : pc' = [pc EXCEPT ![u] = to] /\ u # t => pc'[t] = pc[t]
  BY <1>2
<1>4. \A u : (\E r : Return(u, r)) /\ u # t => pc'[t] = pc[t]
  BY <1>3 DEF Return
<1>5. ~ (UNCHANGED vars)
  BY <1>1 DEF vars
<1>6. ASSUME NEW u \in Threads, u # t PROVE
        /\ ~ CallWrite(u) /\ ~ CallRead(u) /\ ~ CallExist(u) /\ ~ CallRemove(u)
        /\ ~ registry_write(u) /\ ~ registry_read(u) /\ ~ registry_exist(u)
        /\ ~ registry_remove(u) /\ ~ RemoveStale(u) /\ ~ Unlock(u)
  <2>1. \A c : ~ Begin(u, c)
    BY <1>1, <1>3, <1>6 DEF Begin
  <2>2. ~ CallWrite(u) /\ ~ CallRead(u) /\ ~ CallExist(u) /\ ~ CallRemove(u)
    BY <2>1 DEF CallWrite, CallRead, CallExist, CallRemove
  <2>3. ~ Unlock(u)
    BY <1>1, <1>3, <1>6 DEF Unlock
  <2>4. \A r : ~ Return(u, r)
    BY <1>1, <1>4, <1>6
  <2>5. ~ Halt(u)
    BY <1>1, <1>3, <1>6 DEF Halt
  <2>6. ~ registry_read(u) /\ ~ registry_exist(u) /\ ~ registry_remove(u)
    BY <2>4 DEF registry_read, registry_exist, registry_remove
  <2>7. ~ registry_write(u)
    BY <2>4, <2>5 DEF registry_write
  <2>8. ~ RemoveStale(u)
    BY <2>4, <2>5 DEF RemoveStale
  <2> QED
    BY <2>2, <2>3, <2>6, <2>7, <2>8
<1>7. \A c : ~ Begin(t, c)
  BY <1>1 DEF Begin
<1>8. ~ CallWrite(t) /\ ~ CallRead(t) /\ ~ CallExist(t) /\ ~ CallRemove(t)
  BY <1>7 DEF CallWrite, CallRead, CallExist, CallRemove
<1>9. ~ Unlock(t)
  BY <1>1 DEF Unlock
<1>10. ~ registry_write(t) /\ ~ registry_read(t) /\ ~ registry_exist(t)
  BY <1>1 DEF registry_write, registry_read, registry_exist, Enter
<1>11. ~ RemoveStale(t)
  BY DEF RemoveStale
<1> QED
  BY <1>5, <1>6, <1>8, <1>9, <1>10, <1>11 DEF Next

(* registry.c, registry_remove: a remove whose base is still the registry says
   whether the item was there, and leaves no cell of that name, nor a hive if
   there was no cell. *)
THEOREM RegistryRemoveTrue ==
  ASSUME PlainPaths PROVE Spec => RemoveTrueUnlessMoved
<1>1. ASSUME TreeInv, Answered, [Next]_vars, NEW t \in Threads, call[t].op = "remove", call[t].base = block
      PROVE  RemoveTrue(t)
  <2> SUFFICES ASSUME Returns(t, "remove")
               PROVE  LET there == Valid(t) /\ Exists(reg.m, Path(t))
                          wasCell == there /\ FindIn(reg.m, Path(t), "CELL") # NULL
                      IN  /\ answer'[t].ret = 1 <=> there
                          /\ there => FindIn(reg'.m, Path(t), "CELL") = NULL
                          /\ there /\ ~wasCell => ~Exists(reg'.m, Path(t))
    BY DEF RemoveTrue
  <2>1. PICK E : RegistryInv /\ Stands(reg.m, E)
    BY <1>1 DEF TreeInv
  <2>2. registry_remove(t) /\ pc[t] = "lock"
    <3>1. TypeOK
      BY <2>1 DEF RegistryInv
    <3> QED
      BY <1>1, <3>1, OnlyRemove DEF Returns
  <2>3. PICK path, F : path = Path(t) /\ F = Removed(E, path)
    OBVIOUS
  <2>4. \A n : Return(t, Answer(t, n)) => answer'[t].ret = n
    BY <1>1 DEF Return, Answer, Answered
  <2>5. CASE reg' = reg /\ ~ Valid(t) /\ Return(t, Answer(t, 0))
    <3>1. answer'[t].ret = 0
      BY <2>4, <2>5
    <3> QED
      BY <2>5, <3>1
  <2>6. CASE /\ Valid(t) /\ Stands(reg'.m, Removed(E, Path(t)))
             /\ Return(t, Answer(t, IF Has(E, "CELL", Path(t)) \/ Has(E, "HIVE", Path(t)) THEN 1 ELSE 0))
    <3>1. path \in Seq(PlainName) /\ path # <<>>
      BY <2>1, <2>2, <2>3, <2>6, CallPath
    <3>2. /\ FindIn(reg.m, path, "CELL") # NULL <=> Has(E, "CELL", path)
          /\ FindIn(reg.m, path, "HIVE") # NULL <=> Has(E, "HIVE", path)
      BY <2>1, <3>1, FindInStands
    <3>3. Stands(reg'.m, F)
      BY <2>3, <2>6
    <3>4. /\ FindIn(reg'.m, path, "CELL") # NULL <=> Has(F, "CELL", path)
          /\ FindIn(reg'.m, path, "HIVE") # NULL <=> Has(F, "HIVE", path)
      BY <3>1, <3>3, FindInStands
    <3>5. Exists(reg.m, path) <=> Has(E, "CELL", path) \/ Has(E, "HIVE", path)
      BY <3>2 DEF Exists
    <3>6. answer'[t].ret = IF Has(E, "CELL", path) \/ Has(E, "HIVE", path) THEN 1 ELSE 0
      BY <2>3, <2>4, <2>6
    <3>7. ASSUME Has(E, "CELL", path) PROVE ~ Has(F, "CELL", path)
      BY <2>3, <3>7 DEF Removed, SigFound, Without, Has
    <3>8. ASSUME ~ Has(E, "CELL", path), Has(E, "HIVE", path)
          PROVE  ~ Has(F, "CELL", path) /\ ~ Has(F, "HIVE", path)
      <4>1. F = {e \in E : ~ Starts(path, e.path)}
        BY <2>3, <3>8 DEF Removed, SigFound, Without
      <4>2. Starts(path, path)
        BY <3>1, StartsSelf
      <4> QED
        BY <4>1, <4>2 DEF Has, HasKey
    <3>9. Exists(reg'.m, path) <=> Has(F, "CELL", path) \/ Has(F, "HIVE", path)
      BY <3>4 DEF Exists
    <3> QED
      BY <2>3, <2>6, <3>2, <3>4, <3>5, <3>6, <3>7, <3>8, <3>9
  <2> QED
    BY <2>1, <2>2, <2>5, <2>6, RemoveTakesEffect
<1>2. TreeInv /\ Answered /\ [Next]_vars
        => [\A t \in Threads : call[t].op = "remove" /\ call[t].base = block => RemoveTrue(t)]_vars
  BY <1>1
<1>3. Init => TreeInv /\ Answered
  BY TreeInit DEF Init, Answered
<1>4. TreeInv /\ Answered /\ [Next]_vars => (TreeInv /\ Answered)'
  BY TreeStep, AnsweredStep
<1> QED
  BY <1>2, <1>3, <1>4, PTL DEF Spec, RemoveTrueUnlessMoved
=============================================================================
