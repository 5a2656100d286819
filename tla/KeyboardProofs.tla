--------------------------- MODULE KeyboardProofs ---------------------------
(***************************************************************************)
(* Where the bytes of a key are, in the keyboard, in the controller or in  *)
(* the ring, makes no difference to what they do: read one after another   *)
(* they lead to the modifiers whose keys are down.  That is kept when the  *)
(* program talks to the keyboard in the middle, as long as no byte is      *)
(* lost, for every ring and any number of presses.                         *)
(***************************************************************************)
EXTENDS Keyboard, SequenceTheorems, TLAPS

(* The codes the keyboard sends but for its answers. *)
ScanCodes ==
  {"E0", "F0", "LSHIFT", "RSHIFT", "CTRL", "ALT", "CAPSLCK", "SCROLL", "NUMLCK", "INSERT", "ESC",
   "UP"}
Scans == [code : ScanCodes, up : BOOLEAN]

-----------------------------------------------------------------------------
(* The translator as an automaton: its buffers and the modifiers, read by read. *)
Shifts == {"LSHIFTBIT", "RSHIFTBIT"}

Effect(flags, flag, up) ==
  IF up THEN IF flag \in Shifts THEN flags \ Shifts ELSE flags \ {flag}
        ELSE flags \cup ({flag} \cap Modifiers)

Idle(flags) == [codes |-> <<>>, up |-> FALSE, flags |-> flags]

Prefix(set, b) == set = 2 /\ b.code = "F0"

(* Reading byte b takes the translator of a scan code set from s to t. *)
Reads(set, s, b, t) ==
  LET codes == IF Prefix(set, b) THEN s.codes ELSE Append(s.codes, b.code)
      up    == s.up \/ b.up \/ Prefix(set, b)
      found == {key \in DOMAIN Sequence : ~Prefix(set, b) /\ Sequence[key] = codes}
  IN  \/ found = {} /\ t = [codes |-> codes, up |-> up, flags |-> s.flags]
      \/ \E key \in found : t = Idle(Effect(s.flags, ShiftFlag[key], up))

(* Bytes read one after another take it from s to t. *)
Leads(set, s, bytes, t) ==
  \E r : /\ r[0] = s /\ r[Len(bytes)] = t
         /\ \A i \in 1 .. Len(bytes) : Reads(set, r[i - 1], bytes[i], r[i])

-----------------------------------------------------------------------------
(* The bytes on their way to the translator. *)
Distance(a, b) == IF a <= b THEN b - a ELSE b - a + KEY_BUFFER_SIZE
Place(a, k)    == IF a + k < KEY_BUFFER_SIZE THEN a + k ELSE a + k - KEY_BUFFER_SIZE

Between(ring, a, b) == [i \in 1 .. Distance(a, b) |-> ring[Place(a, i - 1)]]

(* The byte under translation stays in the ring until it is done. *)
First    == IF key_pc = "loop" THEN key_buff_us ELSE Following(key_buff_us)
Ring     == Between(key_buffer, First, key_buff_irq)
Out      == IF output = <<Ack>> THEN <<>> ELSE output
Answers  == queue # <<>> /\ queue[1] = Ack
Unsent   == IF Answers THEN Tail(queue) ELSE queue
Pending  == (Ring \o Out) \o Unsent

(* What the translator is in, once a lock key is done. *)
Reader ==
  IF key_pc \in {"loop", "next"}
  THEN [codes |-> scan_buffer, up |-> is_break, flags |-> key_flags \cap Modifiers]
  ELSE Idle(key_flags \cap Modifiers)

Justified(keys) == {flag \in Modifiers : \E key \in keys : ShiftFlag[key] = flag}

-----------------------------------------------------------------------------
Talking == {"disable", "led_1", "ack_1", "led_2", "ack_2", "enable", "unmask"}

Types ==
  /\ scan_set \in {1, 2} /\ held \subseteq Keys
  /\ key_buff_us \in 0 .. KEY_BUFFER_SIZE - 1 /\ key_buff_irq \in 0 .. KEY_BUFFER_SIZE - 1
  /\ DOMAIN key_buffer = 0 .. KEY_BUFFER_SIZE - 1
  /\ key_pc \in {"loop", "next", "mask", "quit"} \cup Talking
  /\ queue \in Seq(Scans \cup {Ack})
  /\ is_break \in BOOLEAN /\ lost \in BOOLEAN

(* There is one answer at most, and the program takes it. *)
Conversation ==
  /\ Ring \in Seq(Scans)
  /\ Out = <<>> \/ \E b \in Scans : Out = <<b>>
  /\ Unsent \in Seq(Scans)
  /\ key_pc # "loop" => key_buff_us # key_buff_irq
  /\ key_pc \in Talking => masked = TRUE
  /\ key_pc \notin {"ack_1", "ack_2"} => ~Answers /\ output # <<Ack>>
  /\ key_pc \in {"ack_1", "led_2"} => led_command = TRUE
  /\ key_pc = "ack_1" => (Answers <=> output # <<Ack>>)
  /\ key_pc = "led_2" => output = <<>>
  /\ key_pc = "ack_2" => (Answers /\ output = <<>>) \/ (~Answers /\ output = <<Ack>>)

(* The bytes on their way lead to modifiers whose keys are down. *)
Settling ==
  \E flags \in SUBSET Justified(held) : Leads(scan_set, Reader, Pending, Idle(flags))

Lights ==
  /\ key_pc \in {"mask"} \cup Talking => bit \in Locks
  /\ IF key_pc \in {"ack_2", "enable", "unmask"} THEN leds = CurBits
     ELSE leds = Locks \/ leds = key_flags \cap Locks

KeyInv == Types /\ (lost = FALSE /\ key_pc # "quit" => Conversation /\ Settling /\ Lights)

-----------------------------------------------------------------------------
(* Sequences *)

LEMMA SameSequence ==
  ASSUME NEW S, NEW s \in Seq(S), NEW t \in Seq(S), Len(s) = Len(t),
         \A i \in 1 .. Len(s) : s[i] = t[i]
  PROVE  s = t
BY SeqEqual

LEMMA ShortSequences ==
  ASSUME NEW S, NEW a \in S, NEW b \in S, NEW c \in S
  PROVE  /\ Append(<<>>, a) = <<a>> /\ Append(<<a>>, b) = <<a, b>>
         /\ Append(<<a, b>>, c) = <<a, b, c>>
         /\ <<>> \o <<a, b>> = <<a, b>> /\ <<a>> \o <<b, c>> = <<a, b, c>>
         /\ SubSeq(<<a>>, 1, 0) = <<>> /\ SubSeq(<<a, b>>, 1, 1) = <<a>>
<1>1. Append(<<>>, a) = <<a>>
  <2>1. <<>> \in Seq(S) /\ <<a>> \in Seq(S)
    OBVIOUS
  <2>2. Append(<<>>, a) \in Seq(S) /\ Len(Append(<<>>, a)) = 1 /\ Append(<<>>, a)[1] = a
    BY <2>1
  <2>3. QED
    BY <2>1, <2>2, SameSequence
<1>2. Append(<<a>>, b) = <<a, b>>
  <2> DEFINE l == Append(<<a>>, b)
  <2>1. l \in Seq(S) /\ Len(l) = 2 /\ l[1] = a /\ l[2] = b
    OBVIOUS
  <2>2. <<a, b>> \in Seq(S) /\ Len(<<a, b>>) = 2 /\ <<a, b>>[1] = a /\ <<a, b>>[2] = b
    OBVIOUS
  <2> HIDE DEF l
  <2>3. \A i \in 1 .. Len(l) : l[i] = <<a, b>>[i]
    <3>1. \A i \in 1 .. 2 : i = 1 \/ i = 2
      OBVIOUS
    <3>2. QED
      BY <2>1, <2>2, <3>1
  <2>4. l = <<a, b>>
    BY <2>1, <2>2, <2>3, SameSequence
  <2>5. QED
    BY <2>4 DEF l
<1>3. ASSUME NEW l \in Seq(S), Len(l) = 3, l[1] = a, l[2] = b, l[3] = c
      PROVE  l = <<a, b, c>>
  <2>1. /\ <<a, b, c>> \in Seq(S) /\ Len(<<a, b, c>>) = 3
        /\ <<a, b, c>>[1] = a /\ <<a, b, c>>[2] = b /\ <<a, b, c>>[3] = c
    OBVIOUS
  <2>2. \A i \in 1 .. Len(l) : l[i] = <<a, b, c>>[i]
    <3>1. \A i \in 1 .. 3 : i = 1 \/ i = 2 \/ i = 3
      OBVIOUS
    <3>2. QED
      BY <1>3, <2>1, <3>1
  <2>3. QED
    BY <1>3, <2>1, <2>2, SameSequence
<1>4. Append(<<a, b>>, c) = <<a, b, c>>
  <2>1. /\ Append(<<a, b>>, c) \in Seq(S) /\ Len(Append(<<a, b>>, c)) = 3
        /\ Append(<<a, b>>, c)[1] = a /\ Append(<<a, b>>, c)[2] = b
        /\ Append(<<a, b>>, c)[3] = c
    OBVIOUS
  <2>2. QED
    BY <1>3, <2>1
<1>5. <<a>> \o <<b, c>> = <<a, b, c>>
  <2>1. /\ <<a>> \o <<b, c>> \in Seq(S) /\ Len(<<a>> \o <<b, c>>) = 3
        /\ (<<a>> \o <<b, c>>)[1] = a /\ (<<a>> \o <<b, c>>)[2] = b
        /\ (<<a>> \o <<b, c>>)[3] = c
    OBVIOUS
  <2>2. QED
    BY <1>3, <2>1
<1>6. <<>> \o <<a, b>> = <<a, b>>
  <2>1. <<a, b>> \in Seq(S)
    OBVIOUS
  <2>2. QED
    BY <2>1, ConcatEmptySeq
<1>7. SubSeq(<<a>>, 1, 0) = <<>>
  OBVIOUS
<1>8. SubSeq(<<a, b>>, 1, 1) = <<a>>
  <2> DEFINE l == SubSeq(<<a, b>>, 1, 1)
  <2>1. l \in Seq(S) /\ Len(l) = 1 /\ l[1] = a
    OBVIOUS
  <2>2. <<a>> \in Seq(S) /\ Len(<<a>>) = 1 /\ <<a>>[1] = a
    OBVIOUS
  <2> HIDE DEF l
  <2>3. l = <<a>>
    BY <2>1, <2>2, SameSequence
  <2>4. QED
    BY <2>3 DEF l
<1>9. QED
  BY <1>1, <1>2, <1>4, <1>5, <1>6, <1>7, <1>8

LEMMA RaiseByte ==
  ASSUME NEW S, NEW c \in S, NEW r \in [code : S, up : BOOLEAN], NEW e \in BOOLEAN, r.code = c
  PROVE  [r EXCEPT !.up = e] = [code |-> c, up |-> e]
<1> DEFINE q == [r EXCEPT !.up = e]
           p == [code |-> c, up |-> e]
<1>1. q \in [code : S, up : BOOLEAN] /\ q.code = c /\ q.up = e
  OBVIOUS
<1>2. p \in [code : S, up : BOOLEAN] /\ p.code = c /\ p.up = e
  OBVIOUS
<1> HIDE DEF p, q
<1>3. p = q
  BY <1>1, <1>2
<1>4. QED
  BY <1>3 DEF p, q

LEMMA PutIn ==
  ASSUME NEW S, NEW s \in Seq(S), NEW i \in 1 .. Len(s), NEW e \in S
  PROVE  [s EXCEPT ![i] = e] \in Seq(S) /\ Len([s EXCEPT ![i] = e]) = Len(s)
BY ExceptSeq

-----------------------------------------------------------------------------
(* The automaton *)

(* The tables name a key once. *)
LEMMA KeysDiffer ==
  ASSUME NEW k \in DOMAIN Sequence, NEW l \in DOMAIN Sequence, Sequence[k] = Sequence[l]
  PROVE  k = l
BY DEF Sequence

LEMMA ReadsOnce ==
  ASSUME NEW set, NEW s, NEW b, NEW t, NEW u, Reads(set, s, b, t), Reads(set, s, b, u)
  PROVE  t = u
<1> DEFINE codes == IF Prefix(set, b) THEN s.codes ELSE Append(s.codes, b.code)
           found == {key \in DOMAIN Sequence : ~Prefix(set, b) /\ Sequence[key] = codes}
<1>1. \A k, l \in found : k = l
  <2> SUFFICES ASSUME NEW k \in found, NEW l \in found PROVE k = l
    OBVIOUS
  <2>1. k \in DOMAIN Sequence /\ l \in DOMAIN Sequence /\ Sequence[k] = Sequence[l]
    OBVIOUS
  <2>2. QED
    BY <2>1, KeysDiffer
<1>2. QED
  BY <1>1 DEF Reads

LEMMA LeadsNowhere ==
  ASSUME NEW set, NEW s
  PROVE  \A t : Leads(set, s, <<>>, t) <=> t = s
<1>1. Len(<<>>) = 0 /\ 1 .. 0 = {}
  OBVIOUS
<1>2. ASSUME NEW t, Leads(set, s, <<>>, t) PROVE t = s
  BY <1>1, <1>2 DEF Leads
<1>3. Leads(set, s, <<>>, s)
  <2> DEFINE r == [i \in {0} |-> s]
  <2>1. r[0] = s
    OBVIOUS
  <2> HIDE DEF r
  <2>2. QED
    BY <1>1, <2>1 DEF Leads
<1>4. QED
  BY <1>2, <1>3

(* One byte more at the end. *)
LEMMA LeadsOneMore ==
  ASSUME NEW set, NEW S, NEW bytes \in Seq(S), NEW b \in S, NEW s, NEW t, NEW u,
         Leads(set, s, bytes, t), Reads(set, t, b, u)
  PROVE  Leads(set, s, Append(bytes, b), u)
<1> DEFINE n == Len(bytes)
           more == Append(bytes, b)
<1>1. n \in Nat /\ Len(more) = n + 1 /\ more[n + 1] = b /\ \A i \in 1 .. n : more[i] = bytes[i]
  OBVIOUS
<1>2. PICK r : r[0] = s /\ r[n] = t /\ \A i \in 1 .. n : Reads(set, r[i - 1], bytes[i], r[i])
  BY DEF Leads
<1> DEFINE q == [i \in 0 .. n + 1 |-> IF i = n + 1 THEN u ELSE r[i]]
<1>3. q[0] = s /\ q[n + 1] = u /\ q[n] = t
  BY <1>1, <1>2
<1>4. \A i \in 1 .. n : q[i] = r[i] /\ q[i - 1] = r[i - 1]
  BY <1>1
<1> HIDE DEF q
<1> HIDE DEF more
<1>5. ASSUME NEW i \in 1 .. n + 1 PROVE Reads(set, q[i - 1], more[i], q[i])
  <2>1. CASE i = n + 1
    BY <1>1, <1>3, <2>1
  <2>2. CASE i \in 1 .. n
    BY <1>1, <1>2, <1>4, <2>2
  <2>3. QED
    BY <1>1, <2>1, <2>2
<1>6. QED
  BY <1>1, <1>3, <1>5 DEF Leads, more

(* The first byte less. *)
LEMMA LeadsFromFirst ==
  ASSUME NEW set, NEW S, NEW bytes \in Seq(S), bytes # <<>>, NEW s, NEW t, NEW u,
         Leads(set, s, bytes, t), Reads(set, s, bytes[1], u)
  PROVE  Leads(set, u, Tail(bytes), t)
<1> DEFINE n == Len(bytes)
           rest == Tail(bytes)
<1>1. n \in Nat /\ n >= 1 /\ Len(rest) = n - 1 /\ \A i \in 1 .. n - 1 : rest[i] = bytes[i + 1]
  OBVIOUS
<1>2. PICK r : r[0] = s /\ r[n] = t /\ \A i \in 1 .. n : Reads(set, r[i - 1], bytes[i], r[i])
  BY DEF Leads
<1>3. r[1] = u
  <2>1. Reads(set, r[0], bytes[1], r[1])
    BY <1>1, <1>2
  <2>2. QED
    BY <1>2, <2>1, ReadsOnce
<1> DEFINE q == [i \in 0 .. n - 1 |-> r[i + 1]]
<1>4. q[0] = u /\ q[n - 1] = t
  BY <1>1, <1>2, <1>3
<1>5. \A i \in 1 .. n - 1 : q[i] = r[i + 1] /\ q[i - 1] = r[i]
  BY <1>1
<1> HIDE DEF q
<1> HIDE DEF rest
<1>6. ASSUME NEW i \in 1 .. n - 1 PROVE Reads(set, q[i - 1], rest[i], q[i])
  <2>1. Reads(set, r[(i + 1) - 1], bytes[i + 1], r[i + 1])
    BY <1>1, <1>2
  <2>2. (i + 1) - 1 = i
    OBVIOUS
  <2>3. QED
    BY <1>1, <1>5, <2>1, <2>2
<1>7. QED
  BY <1>1, <1>4, <1>6 DEF Leads, rest

(* One stream behind the other. *)
LEMMA LeadsOn ==
  ASSUME NEW set, NEW S, NEW bytes \in Seq(S), NEW more \in Seq(S), NEW s, NEW t, NEW u,
         Leads(set, s, bytes, t), Leads(set, t, more, u)
  PROVE  Leads(set, s, bytes \o more, u)
<1> DEFINE n == Len(bytes)
           m == Len(more)
           all == bytes \o more
<1>1. /\ n \in Nat /\ m \in Nat /\ Len(all) = n + m
      /\ \A i \in 1 .. n : all[i] = bytes[i]
      /\ \A i \in n + 1 .. n + m : all[i] = more[i - n]
  OBVIOUS
<1>2. PICK r : r[0] = s /\ r[n] = t /\ \A i \in 1 .. n : Reads(set, r[i - 1], bytes[i], r[i])
  BY DEF Leads
<1>3. PICK p : p[0] = t /\ p[m] = u /\ \A i \in 1 .. m : Reads(set, p[i - 1], more[i], p[i])
  BY DEF Leads
<1> DEFINE q == [i \in 0 .. n + m |-> IF i <= n THEN r[i] ELSE p[i - n]]
<1>4. q[0] = s /\ q[n + m] = u
  <2>1. q[0] = s
    BY <1>1, <1>2
  <2>2. CASE m = 0
    <3>1. n + m = n /\ q[n] = r[n]
      BY <1>1, <2>2
    <3>2. QED
      BY <1>2, <1>3, <2>1, <2>2, <3>1
  <2>3. CASE m # 0
    <3>1. ~(n + m <= n) /\ (n + m) - n = m /\ n + m \in 0 .. n + m
      BY <1>1, <2>3
    <3>2. q[n + m] = p[m]
      BY <3>1
    <3>3. QED
      BY <1>3, <2>1, <3>2
  <2>4. QED
    BY <2>2, <2>3
<1>5. \A i \in 1 .. n : q[i] = r[i] /\ q[i - 1] = r[i - 1]
  BY <1>1
<1>6. \A i \in n + 1 .. n + m : q[i] = p[i - n] /\ q[i - 1] = p[(i - n) - 1]
  <2> SUFFICES ASSUME NEW i \in n + 1 .. n + m
               PROVE  q[i] = p[i - n] /\ q[i - 1] = p[(i - n) - 1]
    OBVIOUS
  <2>1. q[i] = p[i - n]
    BY <1>1
  <2>2. CASE i = n + 1
    <3>1. q[n] = t
      BY <1>1, <1>2
    <3>2. (n + 1) - 1 = n /\ ((n + 1) - n) - 1 = 0
      BY <1>1
    <3>3. QED
      BY <1>3, <2>1, <2>2, <3>1, <3>2
  <2>3. CASE i # n + 1
    <3>1. i - 1 \in 0 .. n + m /\ ~(i - 1 <= n) /\ (i - 1) - n = (i - n) - 1
      BY <1>1, <2>3
    <3>2. QED
      BY <2>1, <3>1
  <2>4. QED
    BY <2>2, <2>3
<1> HIDE DEF q
<1> HIDE DEF all
<1>7. ASSUME NEW i \in 1 .. n + m PROVE Reads(set, q[i - 1], all[i], q[i])
  <2>1. CASE i <= n
    BY <1>1, <1>2, <1>5, <2>1
  <2>2. CASE ~(i <= n)
    <3>1. i \in n + 1 .. n + m /\ i - n \in 1 .. m
      BY <1>1, <2>2
    <3>2. Reads(set, p[(i - n) - 1], more[i - n], p[i - n])
      BY <1>3, <3>1
    <3>3. QED
      BY <1>1, <1>6, <3>1, <3>2
  <2>3. QED
    BY <2>1, <2>2
<1>8. QED
  BY <1>1, <1>4, <1>7 DEF Leads, all

-----------------------------------------------------------------------------
(* The bytes of a key *)

KeyCodes == ScanCodes \ {"E0", "F0"}

LEMMA CodesOfKey ==
  ASSUME NEW key \in DOMAIN Sequence
  PROVE  \E c \in KeyCodes : Sequence[key] \in {<<c>>, <<"E0", c>>}
BY DEF Sequence, KeyCodes, ScanCodes

LEMMA PrefixNoKey ==
  ASSUME NEW key \in DOMAIN Sequence
  PROVE  Sequence[key] # <<"E0">>
<1>1. PICK c \in KeyCodes : Sequence[key] \in {<<c>>, <<"E0", c>>}
  BY CodesOfKey
<1>2. c # "E0"
  BY DEF KeyCodes
<1>3. QED
  BY <1>1, <1>2

LEMMA ReadsPrefix ==
  ASSUME NEW set, NEW flags
  PROVE  Reads(set, Idle(flags), Byte("E0"), [codes |-> <<"E0">>, up |-> FALSE, flags |-> flags])
<1> DEFINE b == Byte("E0")
           s == Idle(flags)
<1>1. ~Prefix(set, b) /\ b.up = FALSE /\ b.code = "E0"
  BY DEF Prefix, Byte
<1>2. s.codes = <<>> /\ s.up = FALSE /\ s.flags = flags
  BY DEF Idle
<1>3. Append(s.codes, b.code) = <<"E0">>
  BY <1>1, <1>2
<1>4. (s.up \/ b.up \/ Prefix(set, b)) = FALSE
  BY <1>1, <1>2
<1> HIDE DEF b, s
<1>5. {key \in DOMAIN Sequence : ~Prefix(set, b) /\ Sequence[key] = <<"E0">>} = {}
  BY PrefixNoKey
<1>6. Reads(set, s, b, [codes |-> <<"E0">>, up |-> FALSE, flags |-> flags])
  BY <1>1, <1>2, <1>3, <1>4, <1>5 DEF Reads
<1>7. QED
  BY <1>6 DEF b, s

LEMMA ReadsRelease ==
  ASSUME NEW s, s.up = FALSE
  PROVE  Reads(2, s, Byte("F0"), [codes |-> s.codes, up |-> TRUE, flags |-> s.flags])
<1> DEFINE b == Byte("F0")
<1>1. Prefix(2, b)
  BY DEF Prefix, Byte
<1>2. (s.up \/ b.up \/ Prefix(2, b)) = TRUE
  BY <1>1
<1> HIDE DEF b
<1>3. Reads(2, s, b, [codes |-> s.codes, up |-> TRUE, flags |-> s.flags])
  BY <1>1, <1>2 DEF Reads
<1>4. QED
  BY <1>3 DEF b

LEMMA ReadsKey ==
  ASSUME NEW set, NEW s, NEW b, NEW key \in DOMAIN Sequence,
         ~Prefix(set, b), Sequence[key] = Append(s.codes, b.code),
         s.up \in BOOLEAN, b.up \in BOOLEAN
  PROVE  Reads(set, s, b, Idle(Effect(s.flags, ShiftFlag[key], s.up \/ b.up)))
<1>1. (s.up \/ b.up \/ Prefix(set, b)) = (s.up \/ b.up)
  OBVIOUS
<1>2. QED
  BY <1>1 DEF Reads

(* The bytes the keyboard sends for a key, whichever the set. *)
LEMMA BytesOfKey ==
  ASSUME NEW key \in DOMAIN Sequence, NEW c \in KeyCodes, scan_set \in {1, 2}
  PROVE  /\ Sequence[key] = <<c>> =>
              /\ Made(key) = <<Byte(c)>>
              /\ Broken(key) = IF scan_set = 1 THEN <<[code |-> c, up |-> TRUE]>>
                                               ELSE <<Byte("F0"), Byte(c)>>
         /\ Sequence[key] = <<"E0", c>> =>
              /\ Made(key) = <<Byte("E0"), Byte(c)>>
              /\ Broken(key) = IF scan_set = 1 THEN <<Byte("E0"), [code |-> c, up |-> TRUE]>>
                                               ELSE <<Byte("E0"), Byte("F0"), Byte(c)>>
<1>0. /\ Byte(c) \in Scans /\ Byte("E0") \in Scans /\ Byte("F0") \in Scans
      /\ [code |-> c, up |-> TRUE] \in Scans
  BY DEF Byte, Scans, KeyCodes, ScanCodes
<1>1. ASSUME Sequence[key] = <<c>>
      PROVE  /\ Made(key) = <<Byte(c)>>
             /\ Broken(key) = IF scan_set = 1 THEN <<[code |-> c, up |-> TRUE]>>
                                              ELSE <<Byte("F0"), Byte(c)>>
  <2>1. Len(Sequence[key]) = 1 /\ DOMAIN Sequence[key] = 1 .. 1 /\ Sequence[key][1] = c
    BY <1>1
  <2>2. Made(key) = <<Byte(c)>>
    BY <2>1 DEF Made
  <2>3. CASE scan_set = 1
    <3>1. Broken(key) = [<<Byte(c)>> EXCEPT ![1].up = TRUE]
      BY <2>1, <2>2, <2>3 DEF Broken
    <3>2. [<<Byte(c)>> EXCEPT ![1].up = TRUE] = <<[code |-> c, up |-> TRUE]>>
      <4> DEFINE f == <<Byte(c)>>
                 g == [f EXCEPT ![1].up = TRUE]
      <4>1. f \in Seq(Scans) /\ Len(f) = 1 /\ f[1] = Byte(c)
        BY <1>0
      <4> HIDE DEF f
      <4>2. [f[1] EXCEPT !.up = TRUE] = [code |-> c, up |-> TRUE]
        <5>1. f[1] \in Scans /\ f[1].code = c /\ c \in ScanCodes
          BY <1>0, <4>1 DEF Byte, KeyCodes
        <5>2. QED
          BY <5>1, RaiseByte DEF Scans
      <4>3. g[1] = [code |-> c, up |-> TRUE]
        BY <4>1, <4>2
      <4>4. g \in Seq(Scans) /\ Len(g) = 1
        <5> DEFINE e == [code |-> c, up |-> TRUE]
        <5>1. g = [f EXCEPT ![1] = e]
          BY <4>1, <4>2
        <5>2. e \in Scans /\ 1 \in 1 .. Len(f)
          BY <1>0, <4>1
        <5> HIDE DEF e, g
        <5>3. [f EXCEPT ![1] = e] \in Seq(Scans) /\ Len([f EXCEPT ![1] = e]) = Len(f)
          BY <4>1, <5>2, PutIn
        <5>4. QED
          BY <4>1, <5>1, <5>3
      <4> HIDE DEF g
      <4>5. g = <<[code |-> c, up |-> TRUE]>>
        BY <1>0, <4>3, <4>4, SameSequence
      <4>6. QED
        BY <4>5 DEF f, g
    <3>3. QED
      BY <2>2, <2>3, <3>1, <3>2
  <2>4. CASE scan_set = 2
    <3>1. Broken(key) = SubSeq(<<Byte(c)>>, 1, 0) \o <<Byte("F0"), Byte(c)>>
      BY <2>1, <2>2, <2>4 DEF Broken
    <3>2. Broken(key) = <<Byte("F0"), Byte(c)>>
      BY <1>0, <3>1, ShortSequences
    <3>3. QED
      BY <2>2, <2>4, <3>2
  <2>5. QED
    BY <2>3, <2>4
<1>2. ASSUME Sequence[key] = <<"E0", c>>
      PROVE  /\ Made(key) = <<Byte("E0"), Byte(c)>>
             /\ Broken(key) = IF scan_set = 1 THEN <<Byte("E0"), [code |-> c, up |-> TRUE]>>
                                              ELSE <<Byte("E0"), Byte("F0"), Byte(c)>>
  <2>1. /\ Len(Sequence[key]) = 2 /\ DOMAIN Sequence[key] = 1 .. 2
        /\ Sequence[key][1] = "E0" /\ Sequence[key][2] = c
    BY <1>2
  <2>2. Made(key) = <<Byte("E0"), Byte(c)>>
    BY <2>1 DEF Made
  <2>3. CASE scan_set = 1
    <3>1. Broken(key) = [<<Byte("E0"), Byte(c)>> EXCEPT ![2].up = TRUE]
      BY <2>1, <2>2, <2>3 DEF Broken
    <3>2. [<<Byte("E0"), Byte(c)>> EXCEPT ![2].up = TRUE]
            = <<Byte("E0"), [code |-> c, up |-> TRUE]>>
      <4> DEFINE f == <<Byte("E0"), Byte(c)>>
                 g == [f EXCEPT ![2].up = TRUE]
                 h == <<Byte("E0"), [code |-> c, up |-> TRUE]>>
      <4>1. f \in Seq(Scans) /\ Len(f) = 2 /\ f[1] = Byte("E0") /\ f[2] = Byte(c)
        BY <1>0
      <4> HIDE DEF f
      <4>2. [f[2] EXCEPT !.up = TRUE] = [code |-> c, up |-> TRUE]
        <5>1. f[2] \in Scans /\ f[2].code = c /\ c \in ScanCodes
          BY <1>0, <4>1 DEF Byte, KeyCodes
        <5>2. QED
          BY <5>1, RaiseByte DEF Scans
      <4>3. g[1] = Byte("E0") /\ g[2] = [code |-> c, up |-> TRUE]
        BY <4>1, <4>2
      <4>4. g \in Seq(Scans) /\ Len(g) = 2
        <5> DEFINE e == [code |-> c, up |-> TRUE]
        <5>1. g = [f EXCEPT ![2] = e]
          BY <4>1, <4>2
        <5>2. e \in Scans /\ 2 \in 1 .. Len(f)
          BY <1>0, <4>1
        <5> HIDE DEF e, g
        <5>3. [f EXCEPT ![2] = e] \in Seq(Scans) /\ Len([f EXCEPT ![2] = e]) = Len(f)
          BY <4>1, <5>2, PutIn
        <5>4. QED
          BY <4>1, <5>1, <5>3
      <4>5. h \in Seq(Scans) /\ Len(h) = 2 /\ h[1] = Byte("E0")
            /\ h[2] = [code |-> c, up |-> TRUE]
        BY <1>0
      <4> HIDE DEF g, h
      <4>6. \A i \in 1 .. 2 : i = 1 \/ i = 2
        OBVIOUS
      <4>7. g = h
        BY <4>3, <4>4, <4>5, <4>6, SameSequence
      <4>8. QED
        BY <4>7 DEF f, g, h
    <3>3. QED
      BY <2>2, <2>3, <3>1, <3>2
  <2>4. CASE scan_set = 2
    <3>1. Broken(key) = SubSeq(<<Byte("E0"), Byte(c)>>, 1, 1) \o <<Byte("F0"), Byte(c)>>
      BY <2>1, <2>2, <2>4 DEF Broken
    <3>2. Broken(key) = <<Byte("E0"), Byte("F0"), Byte(c)>>
      BY <1>0, <3>1, ShortSequences
    <3>3. QED
      BY <2>2, <2>4, <3>2
  <2>5. QED
    BY <2>3, <2>4
<1>3. QED
  BY <1>1, <1>2

(* Whoever reads all bytes of a key between two keys has pressed or released it. *)
LEMMA KeyLeads ==
  ASSUME NEW key \in DOMAIN Sequence, scan_set \in {1, 2}, NEW flags
  PROVE  /\ Made(key) \in Seq(Scans) /\ Broken(key) \in Seq(Scans)
         /\ Made(key) # <<>> /\ Broken(key) # <<>>
         /\ Leads(scan_set, Idle(flags), Made(key), Idle(Effect(flags, ShiftFlag[key], FALSE)))
         /\ Leads(scan_set, Idle(flags), Broken(key), Idle(Effect(flags, ShiftFlag[key], TRUE)))
<1>1. PICK c \in KeyCodes : Sequence[key] \in {<<c>>, <<"E0", c>>}
  BY CodesOfKey
<1> DEFINE none   == Idle(flags)
           ext    == [codes |-> <<"E0">>, up |-> FALSE, flags |-> flags]
           down   == Byte(c)
           high   == [code |-> c, up |-> TRUE]
           makes  == Idle(Effect(flags, ShiftFlag[key], FALSE))
           breaks == Idle(Effect(flags, ShiftFlag[key], TRUE))
<1>2. /\ Byte("E0") \in Scans /\ Byte("F0") \in Scans /\ down \in Scans /\ high \in Scans
      /\ down.code = c /\ down.up = FALSE /\ high.code = c /\ high.up = TRUE
      /\ \A set : ~Prefix(set, down) /\ ~Prefix(set, high)
  BY DEF Byte, Scans, KeyCodes, ScanCodes, Prefix
<1>3. /\ none.codes = <<>> /\ none.up = FALSE /\ none.flags = flags
      /\ ext.codes = <<"E0">> /\ ext.up = FALSE /\ ext.flags = flags
  BY DEF Idle
<1>4. Leads(scan_set, none, <<>>, none)
  BY LeadsNowhere
<1>5. Leads(scan_set, none, <<Byte("E0")>>, ext)
  <2>1. Reads(scan_set, none, Byte("E0"), ext)
    BY ReadsPrefix
  <2>2. Append(<<>>, Byte("E0")) = <<Byte("E0")>> /\ <<>> \in Seq(Scans)
    OBVIOUS
  <2>3. QED
    BY <1>2, <1>4, <2>1, <2>2, LeadsOneMore
<1> HIDE DEF none, ext, down, high
(* The last byte, behind E0 or not. *)
<1>6. ASSUME NEW s \in {none, ext}, NEW before \in Seq(Scans),
             Sequence[key] = Append(s.codes, c), Leads(scan_set, none, before, s)
      PROVE  /\ Leads(scan_set, none, Append(before, down), makes)
             /\ Leads(scan_set, none, Append(before, high), breaks)
             /\ scan_set = 2 =>
                  Leads(scan_set, none, Append(Append(before, Byte("F0")), down), breaks)
  <2>1. s.up = FALSE /\ s.flags = flags
    BY <1>3
  <2>2. Reads(scan_set, s, down, makes)
    <3>1. Reads(scan_set, s, down, Idle(Effect(s.flags, ShiftFlag[key], s.up \/ down.up)))
      BY <1>2, <1>6, <2>1, ReadsKey
    <3>2. (s.up \/ down.up) = FALSE
      BY <1>2, <2>1
    <3>3. QED
      BY <2>1, <3>1, <3>2
  <2>3. Reads(scan_set, s, high, breaks)
    <3>1. Reads(scan_set, s, high, Idle(Effect(s.flags, ShiftFlag[key], s.up \/ high.up)))
      BY <1>2, <1>6, <2>1, ReadsKey
    <3>2. (s.up \/ high.up) = TRUE
      BY <1>2, <2>1
    <3>3. QED
      BY <2>1, <3>1, <3>2
  <2>4. ASSUME scan_set = 2
        PROVE  Leads(scan_set, none, Append(Append(before, Byte("F0")), down), breaks)
    <3> DEFINE t == [codes |-> s.codes, up |-> TRUE, flags |-> s.flags]
    <3>1. Reads(scan_set, s, Byte("F0"), t)
      BY <2>1, <2>4, ReadsRelease
    <3>2. Leads(scan_set, none, Append(before, Byte("F0")), t)
      BY <1>2, <1>6, <3>1, LeadsOneMore
    <3>3. t.codes = s.codes /\ t.up = TRUE /\ t.flags = flags
      BY <2>1
    <3> HIDE DEF t
    <3>4. Reads(scan_set, t, down, Idle(Effect(t.flags, ShiftFlag[key], t.up \/ down.up)))
      BY <1>2, <1>6, <3>3, ReadsKey
    <3>5. (t.up \/ down.up) = TRUE
      BY <3>3
    <3>6. Reads(scan_set, t, down, breaks)
      BY <3>3, <3>4, <3>5
    <3>7. Append(before, Byte("F0")) \in Seq(Scans)
      BY <1>2, <1>6
    <3>8. QED
      BY <1>2, <3>2, <3>6, <3>7, LeadsOneMore
  <2>5. QED
    BY <1>2, <1>6, <2>2, <2>3, <2>4, LeadsOneMore
<1>7. CASE Sequence[key] = <<c>>
  <2>1. Sequence[key] = Append(none.codes, c) /\ <<>> \in Seq(Scans)
    BY <1>3, <1>7
  <2>2. /\ Leads(scan_set, none, Append(<<>>, down), makes)
        /\ Leads(scan_set, none, Append(<<>>, high), breaks)
        /\ scan_set = 2 => Leads(scan_set, none, Append(Append(<<>>, Byte("F0")), down), breaks)
    BY <1>4, <1>6, <2>1
  <2>3. /\ Append(<<>>, down) = <<down>> /\ Append(<<>>, high) = <<high>>
        /\ Append(Append(<<>>, Byte("F0")), down) = <<Byte("F0"), down>>
    BY <1>2, ShortSequences
  <2>4. /\ Made(key) = <<down>>
        /\ Broken(key) = IF scan_set = 1 THEN <<high>> ELSE <<Byte("F0"), down>>
    BY <1>7, BytesOfKey DEF down, high
  <2>5. /\ <<down>> \in Seq(Scans) /\ <<high>> \in Seq(Scans)
        /\ <<Byte("F0"), down>> \in Seq(Scans)
        /\ <<down>> # <<>> /\ <<high>> # <<>> /\ <<Byte("F0"), down>> # <<>>
    BY <1>2
  <2> HIDE DEF makes, breaks
  <2>6. /\ Leads(scan_set, none, Made(key), makes) /\ Leads(scan_set, none, Broken(key), breaks)
        /\ Made(key) \in Seq(Scans) /\ Broken(key) \in Seq(Scans)
        /\ Made(key) # <<>> /\ Broken(key) # <<>>
    BY <2>2, <2>3, <2>4, <2>5
  <2>7. QED
    BY <2>6 DEF makes, breaks, none
<1>8. CASE Sequence[key] = <<"E0", c>>
  <2>1. Sequence[key] = Append(ext.codes, c) /\ <<Byte("E0")>> \in Seq(Scans)
    BY <1>2, <1>3, <1>8
  <2>2. /\ Leads(scan_set, none, Append(<<Byte("E0")>>, down), makes)
        /\ Leads(scan_set, none, Append(<<Byte("E0")>>, high), breaks)
        /\ scan_set = 2 =>
             Leads(scan_set, none, Append(Append(<<Byte("E0")>>, Byte("F0")), down), breaks)
    BY <1>5, <1>6, <2>1
  <2>3. /\ Append(<<Byte("E0")>>, down) = <<Byte("E0"), down>>
        /\ Append(<<Byte("E0")>>, high) = <<Byte("E0"), high>>
        /\ Append(Append(<<Byte("E0")>>, Byte("F0")), down) = <<Byte("E0"), Byte("F0"), down>>
    BY <1>2, ShortSequences
  <2>4. /\ Made(key) = <<Byte("E0"), down>>
        /\ Broken(key) = IF scan_set = 1 THEN <<Byte("E0"), high>>
                                         ELSE <<Byte("E0"), Byte("F0"), down>>
    BY <1>8, BytesOfKey DEF down, high
  <2>5. /\ <<Byte("E0"), down>> \in Seq(Scans) /\ <<Byte("E0"), high>> \in Seq(Scans)
        /\ <<Byte("E0"), Byte("F0"), down>> \in Seq(Scans)
        /\ <<Byte("E0"), down>> # <<>> /\ <<Byte("E0"), high>> # <<>>
        /\ <<Byte("E0"), Byte("F0"), down>> # <<>>
    BY <1>2
  <2> HIDE DEF makes, breaks
  <2>6. /\ Leads(scan_set, none, Made(key), makes) /\ Leads(scan_set, none, Broken(key), breaks)
        /\ Made(key) \in Seq(Scans) /\ Broken(key) \in Seq(Scans)
        /\ Made(key) # <<>> /\ Broken(key) # <<>>
    BY <2>2, <2>3, <2>4, <2>5
  <2>7. QED
    BY <2>6 DEF makes, breaks, none
<1>9. QED
  BY <1>1, <1>7, <1>8

LEMMA KeyBytes ==
  ASSUME NEW key \in DOMAIN Sequence, scan_set \in {1, 2}
  PROVE  /\ Made(key) \in Seq(Scans) /\ Broken(key) \in Seq(Scans)
         /\ Made(key) # <<>> /\ Broken(key) # <<>>
<1>1. /\ Made(key) \in Seq(Scans) /\ Broken(key) \in Seq(Scans)
      /\ Made(key) # <<>> /\ Broken(key) # <<>>
      /\ Leads(scan_set, Idle({}), Made(key), Idle(Effect({}, ShiftFlag[key], FALSE)))
      /\ Leads(scan_set, Idle({}), Broken(key), Idle(Effect({}, ShiftFlag[key], TRUE)))
  BY KeyLeads
<1>2. QED
  BY <1>1

-----------------------------------------------------------------------------
(* The ring *)

LEMMA FollowingPlace ==
  ASSUME NEW i \in 0 .. KEY_BUFFER_SIZE - 1
  PROVE  Following(i) \in 0 .. KEY_BUFFER_SIZE - 1
BY KeyboardAssumption DEF Following

LEMMA Distances ==
  ASSUME NEW a \in 0 .. KEY_BUFFER_SIZE - 1, NEW i \in 0 .. KEY_BUFFER_SIZE - 1
  PROVE  /\ Distance(a, i) \in 0 .. KEY_BUFFER_SIZE - 1
         /\ Distance(a, i) = 0 <=> a = i
         /\ Following(i) # a => /\ Distance(a, Following(i)) = Distance(a, i) + 1
                                /\ Place(a, Distance(a, i)) = i
         /\ \A k \in 0 .. Distance(a, i) - 1 :
              Place(a, k) \in 0 .. KEY_BUFFER_SIZE - 1 /\ Place(a, k) # i
         /\ a # i => /\ Distance(Following(a), i) = Distance(a, i) - 1
                     /\ Place(a, 0) = a
                     /\ \A k \in 1 .. Distance(a, i) - 1 : Place(Following(a), k - 1) = Place(a, k)
BY KeyboardAssumption DEF Distance, Place, Following

LEMMA RingGrows ==
  ASSUME NEW a \in 0 .. KEY_BUFFER_SIZE - 1, NEW i \in 0 .. KEY_BUFFER_SIZE - 1,
         Following(i) # a, NEW ring, NEW S, Between(ring, a, i) \in Seq(S), NEW x \in S,
         NEW more, more[i] = x, \A p \in 0 .. KEY_BUFFER_SIZE - 1 : p # i => more[p] = ring[p]
  PROVE  Between(more, a, Following(i)) = Append(Between(ring, a, i), x)
<1> DEFINE n == Distance(a, i)
           old == Between(ring, a, i)
           new == Between(more, a, Following(i))
           last == Append(old, x)
<1>1. n \in Nat /\ Distance(a, Following(i)) = n + 1 /\ Place(a, n) = i
  BY Distances
<1>2. \A k \in 0 .. n - 1 : Place(a, k) \in 0 .. KEY_BUFFER_SIZE - 1 /\ Place(a, k) # i
  BY Distances
<1>3. DOMAIN old = 1 .. n /\ \A k \in 1 .. n : old[k] = ring[Place(a, k - 1)]
  BY DEF Between
<1>4. DOMAIN new = 1 .. n + 1 /\ \A k \in 1 .. n + 1 : new[k] = more[Place(a, k - 1)]
  BY <1>1 DEF Between
<1>5. new = [k \in 1 .. n + 1 |-> new[k]]
  BY <1>1 DEF Between
<1>7. Len(old) = n
  BY <1>1, <1>3
<1>8. last \in Seq(S) /\ Len(last) = n + 1 /\ last[n + 1] = x /\ \A k \in 1 .. n : last[k] = old[k]
  BY <1>1, <1>7
<1> HIDE DEF n, old, new, last
<1>9. ASSUME NEW k \in 1 .. n + 1 PROVE new[k] = last[k]
  <2>1. CASE k = n + 1
    <3>1. k - 1 = n
      BY <1>1, <2>1
    <3>2. QED
      BY <1>1, <1>4, <1>8, <2>1, <3>1
  <2>2. CASE k # n + 1
    <3>1. k \in 1 .. n /\ k - 1 \in 0 .. n - 1
      BY <1>1, <2>2
    <3>2. QED
      BY <1>2, <1>3, <1>4, <1>8, <3>1
  <2>3. QED
    BY <2>1, <2>2
<1>10. last = [k \in 1 .. n + 1 |-> last[k]]
  BY <1>1, <1>8
<1>11. new = last
  BY <1>5, <1>9, <1>10
<1>12. QED
  BY <1>11 DEF new, last, old

LEMMA RingShrinks ==
  ASSUME NEW a \in 0 .. KEY_BUFFER_SIZE - 1, NEW i \in 0 .. KEY_BUFFER_SIZE - 1, a # i,
         NEW ring, NEW S, Between(ring, a, i) \in Seq(S)
  PROVE  /\ Between(ring, a, i) # <<>> /\ Between(ring, a, i)[1] = ring[a]
         /\ Tail(Between(ring, a, i)) = Between(ring, Following(a), i)
<1> DEFINE n == Distance(a, i)
           old == Between(ring, a, i)
           new == Between(ring, Following(a), i)
           rest == Tail(old)
<1>1. /\ n \in Nat /\ n >= 1 /\ Distance(Following(a), i) = n - 1 /\ Place(a, 0) = a
      /\ \A k \in 1 .. n - 1 : Place(Following(a), k - 1) = Place(a, k)
  <2>1. Distance(a, i) \in 0 .. KEY_BUFFER_SIZE - 1 /\ Distance(a, i) # 0
    BY Distances
  <2>2. n \in Nat /\ n >= 1
    BY <2>1, KeyboardAssumption
  <2>3. QED
    BY <2>2, Distances
<1>2. DOMAIN old = 1 .. n /\ \A k \in 1 .. n : old[k] = ring[Place(a, k - 1)]
  BY DEF Between
<1>3. \A k \in 1 .. n - 1 : new[k] = ring[Place(Following(a), k - 1)]
  BY <1>1 DEF Between
<1>4. new = [k \in 1 .. n - 1 |-> new[k]]
  BY <1>1 DEF Between
<1>5. Len(old) = n
  BY <1>1, <1>2
<1>6. old # <<>> /\ old[1] = ring[a]
  <2>1. old[1] = ring[Place(a, 1 - 1)] /\ 1 - 1 = 0
    BY <1>1, <1>2
  <2>2. QED
    BY <1>1, <1>5, <2>1
<1>7. rest \in Seq(S) /\ Len(rest) = n - 1 /\ \A k \in 1 .. n - 1 : rest[k] = old[k + 1]
  BY <1>1, <1>5, <1>6
<1> HIDE DEF n, old, new, rest
<1>8. ASSUME NEW k \in 1 .. n - 1 PROVE new[k] = rest[k]
  <2>1. k + 1 \in 1 .. n /\ (k + 1) - 1 = k
    BY <1>1
  <2>2. old[k + 1] = ring[Place(a, k)]
    BY <1>2, <2>1
  <2>3. QED
    BY <1>1, <1>3, <1>7, <2>2
<1>9. rest = [k \in 1 .. n - 1 |-> rest[k]]
  BY <1>1, <1>7
<1>10. new = rest
  BY <1>4, <1>8, <1>9
<1>11. QED
  BY <1>6, <1>10 DEF old, new, rest

-----------------------------------------------------------------------------
(* The invariant *)

LEMMA InitKey ==
  ASSUME Init
  PROVE  KeyInv
<1>1. Types
  BY KeyboardAssumption DEF Init, Types
<1>2. Ring = <<>>
  <2>1. First = key_buff_irq /\ First = 0
    BY DEF Init, First
  <2>2. Distance(0, 0) = 0
    BY DEF Distance
  <2>3. QED
    BY <2>1, <2>2 DEF Ring, Between
<1>3. Out = <<>> /\ Unsent = <<>> /\ ~Answers
  BY DEF Init, Out, Unsent, Answers
<1>4. Ack \in [code : {"ACK"}, up : {FALSE}]
  BY DEF Ack, Byte
<1>5. Conversation
  BY <1>2, <1>3 DEF Conversation, Init, Talking, Ack, Byte
<1>6. Settling
  <2>1. Pending = <<>>
    BY <1>2, <1>3 DEF Pending
  <2>2. Reader = Idle({})
    BY DEF Reader, Idle, Init
  <2>3. Leads(scan_set, Reader, Pending, Idle({}))
    BY <2>1, <2>2, LeadsNowhere
  <2>4. QED
    BY <2>3 DEF Settling
<1>7. Lights
  BY DEF Init, Lights, Talking
<1>8. QED
  BY <1>1, <1>5, <1>6, <1>7 DEF KeyInv

(* A byte that is on its way to the translator after as before changes nothing. *)
LEMMA StaySettled ==
  ASSUME Settling, Reader' = Reader, Pending' = Pending, UNCHANGED <<held, scan_set>>
  PROVE  Settling'
<1>1. PICK flags \in SUBSET Justified(held) : Leads(scan_set, Reader, Pending, Idle(flags))
  BY DEF Settling
<1>2. Leads(scan_set', Reader', Pending', Idle(flags))
  BY <1>1
<1>3. Justified(held)' = Justified(held)
  BY DEF Justified
<1>4. QED
  BY <1>2, <1>3 DEF Settling

LEMMA ScanNoAnswer ==
  ASSUME NEW b \in Scans
  PROVE  b # Ack /\ <<b>> # <<Ack>>
<1>1. b.code \in ScanCodes /\ Ack.code = "ACK"
  BY DEF Scans, Ack, Byte
<1>2. b.code # Ack.code
  BY <1>1 DEF ScanCodes
<1>3. b # Ack
  BY <1>2
<1>4. <<b>>[1] = b /\ <<Ack>>[1] = Ack
  OBVIOUS
<1>5. QED
  BY <1>3, <1>4

-----------------------------------------------------------------------------
(* The bytes on their way *)

LEMMA TailOfConcat ==
  ASSUME NEW S, NEW s \in Seq(S), s # <<>>, NEW t \in Seq(S)
  PROVE  /\ s \o t # <<>> /\ (s \o t)[1] = s[1]
         /\ Tail(s \o t) = Tail(s) \o t
<1> DEFINE all == s \o t
           rest == Tail(s)
           l == Tail(all)
           r == rest \o t
           n == Len(s)
           m == Len(t)
<1>1. n \in Nat /\ n >= 1 /\ m \in Nat
  OBVIOUS
<1>2. /\ all \in Seq(S) /\ Len(all) = n + m
      /\ \A i \in 1 .. n + m : all[i] = IF i <= n THEN s[i] ELSE t[i - n]
  BY ConcatProperties
<1>3. all # <<>> /\ all[1] = s[1]
  BY <1>1, <1>2
<1>4. rest \in Seq(S) /\ Len(rest) = n - 1 /\ \A i \in 1 .. n - 1 : rest[i] = s[i + 1]
  BY <1>1
<1> HIDE DEF all, rest
<1>5. l \in Seq(S) /\ Len(l) = n + m - 1 /\ \A i \in 1 .. n + m - 1 : l[i] = all[i + 1]
  BY <1>1, <1>2, <1>3
<1>6. /\ r \in Seq(S) /\ Len(r) = (n - 1) + m
      /\ \A i \in 1 .. (n - 1) + m : r[i] = IF i <= n - 1 THEN rest[i] ELSE t[i - (n - 1)]
  BY <1>4, ConcatProperties
<1> HIDE DEF l, r, n, m
<1>7. ASSUME NEW i \in 1 .. n + m - 1 PROVE l[i] = r[i]
  <2>1. l[i] = all[i + 1] /\ i + 1 \in 1 .. n + m /\ i \in 1 .. (n - 1) + m
    BY <1>1, <1>5
  <2>2. CASE i <= n - 1
    <3>1. all[i + 1] = s[i + 1] /\ i \in 1 .. n - 1
      BY <1>1, <1>2, <2>1, <2>2
    <3>2. QED
      BY <1>4, <1>6, <2>1, <2>2, <3>1
  <2>3. CASE ~(i <= n - 1)
    <3>1. ~(i + 1 <= n) /\ (i + 1) - n = i - (n - 1)
      BY <1>1, <2>3
    <3>2. QED
      BY <1>2, <1>6, <2>1, <2>3, <3>1
  <2>4. QED
    BY <2>2, <2>3
<1>8. Len(l) = Len(r) /\ Len(l) = n + m - 1
  BY <1>1, <1>5, <1>6
<1>9. l = r
  BY <1>5, <1>6, <1>7, <1>8, SameSequence
<1>10. QED
  BY <1>3, <1>9 DEF all, rest, l, r

LEMMA PendingParts ==
  ASSUME Conversation
  PROVE  /\ Ring \in Seq(Scans) /\ Out \in Seq(Scans) /\ Unsent \in Seq(Scans)
         /\ Ring \o Out \in Seq(Scans) /\ Pending \in Seq(Scans)
         /\ \A bytes \in Seq(Scans) : (Ring \o Out) \o (Unsent \o bytes) = Pending \o bytes
<1>1. Ring \in Seq(Scans) /\ Unsent \in Seq(Scans)
  BY DEF Conversation
<1>2. Out \in Seq(Scans)
  <2>1. CASE Out = <<>>
    BY <2>1
  <2>2. CASE \E b \in Scans : Out = <<b>>
    BY <2>2
  <2>3. QED
    BY <2>1, <2>2 DEF Conversation
<1>3. Ring \o Out \in Seq(Scans)
  BY <1>1, <1>2, ConcatProperties
<1>4. Pending \in Seq(Scans)
  BY <1>1, <1>3, ConcatProperties DEF Pending
<1>5. ASSUME NEW bytes \in Seq(Scans)
      PROVE  (Ring \o Out) \o (Unsent \o bytes) = Pending \o bytes
  <2> DEFINE front == Ring \o Out
  <2>1. front \in Seq(Scans)
    BY <1>3
  <2> HIDE DEF front
  <2>2. (front \o Unsent) \o bytes = front \o (Unsent \o bytes)
    BY <1>1, <2>1, ConcatAssociative
  <2>3. QED
    BY <2>2 DEF Pending, front
<1>6. QED
  BY <1>1, <1>2, <1>3, <1>4, <1>5

(* Putting the answer in front, and taking it away. *)
LEMMA AnswerInFront ==
  ASSUME NEW S, NEW a \in S, NEW s \in Seq(S)
  PROVE  /\ <<a>> \o s \in Seq(S) /\ <<a>> \o s # <<>> /\ (<<a>> \o s)[1] = a
         /\ Tail(<<a>> \o s) = s
<1>1. <<a>> \in Seq(S) /\ <<a>> # <<>> /\ <<a>>[1] = a /\ Tail(<<a>>) = <<>>
  OBVIOUS
<1>2. Tail(<<a>> \o s) = <<>> \o s /\ <<a>> \o s # <<>> /\ (<<a>> \o s)[1] = a
  BY <1>1, TailOfConcat
<1>3. <<a>> \o s \in Seq(S)
  BY <1>1, ConcatProperties
<1>4. QED
  BY <1>2, <1>3, ConcatEmptySeq

LEMMA HeadAndTail ==
  ASSUME NEW S, NEW s \in Seq(S), s # <<>>
  PROVE  s[1] \in S /\ Tail(s) \in Seq(S) /\ <<s[1]>> \o Tail(s) = s
<1> DEFINE l == <<s[1]>> \o Tail(s)
           n == Len(s)
<1>1. n \in Nat /\ n >= 1 /\ s[1] \in S
  OBVIOUS
<1>2. Tail(s) \in Seq(S) /\ Len(Tail(s)) = n - 1 /\ \A i \in 1 .. n - 1 : Tail(s)[i] = s[i + 1]
  OBVIOUS
<1>3. <<s[1]>> \in Seq(S) /\ Len(<<s[1]>>) = 1 /\ <<s[1]>>[1] = s[1]
  BY <1>1
<1> DEFINE one == <<s[1]>>
<1> HIDE DEF one
<1>4. /\ l \in Seq(S) /\ Len(l) = 1 + (n - 1)
      /\ \A i \in 1 .. 1 + (n - 1) : l[i] = IF i <= 1 THEN s[1] ELSE Tail(s)[i - 1]
  <2>1. one \in Seq(S) /\ Len(one) = 1 /\ one[1] = s[1]
    BY <1>3 DEF one
  <2>2. /\ one \o Tail(s) \in Seq(S) /\ Len(one \o Tail(s)) = 1 + (n - 1)
        /\ \A i \in 1 .. 1 + (n - 1) :
             (one \o Tail(s))[i] = IF i <= 1 THEN one[i] ELSE Tail(s)[i - 1]
    <3> DEFINE rest == Tail(s)
    <3>1. rest \in Seq(S) /\ Len(rest) = n - 1
      BY <1>2
    <3> HIDE DEF rest, n
    <3>2. /\ one \o rest \in Seq(S) /\ Len(one \o rest) = 1 + (n - 1)
          /\ \A i \in 1 .. 1 + (n - 1) :
               (one \o rest)[i] = IF i <= 1 THEN one[i] ELSE rest[i - 1]
      <4>1. /\ one \o rest \in Seq(S) /\ Len(one \o rest) = Len(one) + Len(rest)
            /\ \A i \in 1 .. Len(one) + Len(rest) :
                 (one \o rest)[i] = IF i <= Len(one) THEN one[i] ELSE rest[i - Len(one)]
        BY <2>1, <3>1, ConcatProperties
      <4>2. QED
        BY <2>1, <3>1, <4>1
    <3>3. QED
      BY <3>2 DEF rest
  <2>3. one \o Tail(s) = l
    BY DEF one
  <2> HIDE DEF l
  <2>4. \A i \in 1 .. 1 + (n - 1) : i <= 1 => i = 1
    BY <1>1
  <2>5. QED
    BY <2>1, <2>2, <2>3, <2>4
<1> HIDE DEF l
<1>5. Len(l) = n
  BY <1>1, <1>4
<1>6. ASSUME NEW i \in 1 .. Len(l) PROVE l[i] = s[i]
  <2>1. CASE i = 1
    BY <1>1, <1>4, <1>5, <2>1
  <2>2. CASE i # 1
    <3>1. i - 1 \in 1 .. n - 1 /\ ~(i <= 1) /\ (i - 1) + 1 = i
      BY <1>1, <1>5, <2>2
    <3>2. QED
      BY <1>1, <1>2, <1>4, <1>5, <3>1
  <2>3. QED
    BY <2>1, <2>2
<1>7. l = s
  BY <1>4, <1>5, <1>6, SameSequence
<1>8. QED
  BY <1>1, <1>2, <1>7 DEF l

-----------------------------------------------------------------------------
(* The user *)

(* Bytes the keyboard adds are translated last. *)
LEMMA MoreBytes ==
  ASSUME KeyInv, NEW bytes \in Seq(Scans), bytes # <<>>,
         queue' = queue \o bytes,
         UNCHANGED <<scan_set, led_command, leds, controller, fifo, translator, key_pc, bit, lost>>,
         held' \subseteq Keys,
         \A flags \in SUBSET Justified(held) :
           \E more \in SUBSET Justified(held)' : Leads(scan_set, Idle(flags), bytes, Idle(more))
  PROVE  KeyInv'
<1>1. Types'
  <2>1. queue \in Seq(Scans \cup {Ack}) /\ bytes \in Seq(Scans \cup {Ack})
    BY DEF KeyInv, Types
  <2>2. queue' \in Seq(Scans \cup {Ack})
    BY <2>1, ConcatProperties
  <2>3. QED
    BY <2>2 DEF KeyInv, Types, fifo, translator
<1>2. SUFFICES ASSUME lost = FALSE, key_pc # "quit" PROVE (Conversation /\ Settling /\ Lights)'
  BY <1>1 DEF KeyInv
<1>3. Conversation /\ Settling /\ Lights
  BY <1>2 DEF KeyInv
<1>4. Ring' = Ring /\ Out' = Out /\ Reader' = Reader
  BY DEF Ring, First, Out, Reader, Between, fifo, translator, controller
<1>5. bytes[1] # Ack
  <2>1. bytes[1] \in Scans
    OBVIOUS
  <2>2. QED
    BY <2>1, ScanNoAnswer
<1>6. (Answers' <=> Answers) /\ Unsent' = Unsent \o bytes
  <2>1. CASE Answers
    <3>2. queue \in Seq(Scans \cup {Ack})
      BY DEF KeyInv, Types
    <3>3. bytes \in Seq(Scans \cup {Ack})
      OBVIOUS
    <3>4. queue # <<>> /\ queue[1] = Ack
      BY <2>1 DEF Answers
    <3>5. /\ (queue \o bytes) # <<>> /\ (queue \o bytes)[1] = queue[1]
          /\ Tail(queue \o bytes) = Tail(queue) \o bytes
      BY <3>2, <3>3, <3>4, TailOfConcat
    <3>6. QED
      BY <2>1, <3>4, <3>5 DEF Answers, Unsent
  <2>2. CASE ~Answers
    <3>1. queue \in Seq(Scans) /\ Unsent = queue
      BY <1>3, <2>2 DEF Conversation, Unsent
    <3>2. CASE queue = <<>>
      <4>1. queue' = bytes
        BY <3>2, ConcatEmptySeq
      <4>2. QED
        BY <1>5, <2>2, <3>1, <4>1 DEF Answers, Unsent
    <3>3. CASE queue # <<>>
      <4>1. (queue \o bytes)[1] = queue[1]
        BY <3>1, <3>3
      <4>2. QED
        BY <2>2, <3>1, <3>3, <4>1 DEF Answers, Unsent
    <3>4. QED
      BY <3>2, <3>3
  <2>3. QED
    BY <2>1, <2>2
<1>7. Conversation'
  <2>1. Unsent' \in Seq(Scans)
    BY <1>3, <1>6, ConcatProperties DEF Conversation
  <2>2. QED
    BY <1>3, <1>4, <1>6, <2>1 DEF Conversation, controller, fifo
<1>8. Settling'
  <2>1. PICK flags \in SUBSET Justified(held) : Leads(scan_set, Reader, Pending, Idle(flags))
    BY <1>3 DEF Settling
  <2>2. PICK more \in SUBSET Justified(held)' : Leads(scan_set, Idle(flags), bytes, Idle(more))
    BY <2>1
  <2>3. Pending \in Seq(Scans) /\ Pending' = Pending \o bytes
    BY <1>3, <1>4, <1>6, PendingParts DEF Pending
  <2>4. Leads(scan_set, Reader, Pending \o bytes, Idle(more))
    BY <2>1, <2>2, <2>3, LeadsOn
  <2>5. QED
    BY <1>4, <2>3, <2>4 DEF Settling
<1>9. Lights'
  BY <1>3 DEF Lights, translator, CurBits, Flipped
<1>10. QED
  BY <1>7, <1>8, <1>9

(* What a key changes. *)
LEMMA PressJustified ==
  ASSUME NEW keys, NEW flags \in SUBSET Justified(keys), NEW key \in DOMAIN ShiftFlag
  PROVE  Effect(flags, ShiftFlag[key], FALSE) \in SUBSET Justified(keys \cup {key})
BY DEF Effect, Justified

LEMMA ReleaseJustified ==
  ASSUME NEW keys, NEW flags \in SUBSET Justified(keys), NEW key
  PROVE  Effect(flags, ShiftFlag[key], TRUE) \in SUBSET Justified(keys \ {key})
<1> DEFINE flag == ShiftFlag[key]
<1>1. flag \notin Effect(flags, flag, TRUE) /\ Effect(flags, flag, TRUE) \subseteq flags
  BY DEF Effect, Shifts
<1>2. ASSUME NEW f \in flags, f # flag PROVE f \in Justified(keys \ {key})
  <2>1. PICK k \in keys : ShiftFlag[k] = f
    BY DEF Justified
  <2>2. k # key
    BY <1>2, <2>1
  <2>3. QED
    BY <1>2, <2>1, <2>2 DEF Justified
<1>3. QED
  BY <1>1, <1>2

LEMMA FakeChangesNothing ==
  ASSUME NEW flags \in SUBSET Modifiers, NEW up \in BOOLEAN
  PROVE  Effect(flags, ShiftFlag["FAKE"], up) = flags
<1>1. ShiftFlag["FAKE"] = "ignored" /\ "ignored" \notin Modifiers /\ "ignored" \notin Shifts
  BY DEF ShiftFlag, Modifiers, Shifts
<1>2. QED
  BY <1>1 DEF Effect

LEMMA SameKeys == DOMAIN Sequence = DOMAIN ShiftFlag /\ "FAKE" \in DOMAIN Sequence
BY DEF Sequence, ShiftFlag

LEMMA PressKeeps ==
  ASSUME KeyInv, NEW key \in Keys, Press(key)
  PROVE  KeyInv'
<1> DEFINE fake  == IF Fakes(key) THEN Broken("FAKE") ELSE <<>>
           bytes == fake \o Made(key)
<1>1. scan_set \in {1, 2} /\ held' = held \cup {key} /\ held \subseteq Keys
  BY DEF KeyInv, Types, Press
<1>2. key \in DOMAIN Sequence /\ key \in DOMAIN ShiftFlag
  BY KeyboardAssumption, SameKeys
<1>3. ASSUME NEW flags
      PROVE  /\ Leads(scan_set, Idle(flags), Broken("FAKE"),
                      Idle(Effect(flags, ShiftFlag["FAKE"], TRUE)))
             /\ Leads(scan_set, Idle(flags), Made(key), Idle(Effect(flags, ShiftFlag[key], FALSE)))
  BY <1>1, <1>2, KeyLeads, SameKeys
<1>4. fake \in Seq(Scans) /\ Made(key) \in Seq(Scans) /\ Made(key) # <<>>
  BY <1>1, <1>2, KeyBytes, SameKeys
<1>5. bytes \in Seq(Scans) /\ bytes # <<>>
  BY <1>4, ConcatProperties, ConcatEqualIffEmpty
<1>6. ASSUME NEW flags \in SUBSET Justified(held)
      PROVE  \E more \in SUBSET Justified(held)' :
               Leads(scan_set, Idle(flags), bytes, Idle(more))
  <2>1. flags \in SUBSET Modifiers
    BY DEF Justified
  <2>2. Leads(scan_set, Idle(flags), fake, Idle(flags))
    <3>1. CASE Fakes(key)
      BY <1>3, <2>1, <3>1, FakeChangesNothing
    <3>2. CASE ~Fakes(key)
      BY <3>2, LeadsNowhere
    <3>3. QED
      BY <3>1, <3>2
  <2> DEFINE more == Effect(flags, ShiftFlag[key], FALSE)
  <2>3. Leads(scan_set, Idle(flags), Made(key), Idle(more))
    BY <1>3
  <2>4. more \in SUBSET Justified(held \cup {key})
    BY <1>2, PressJustified
  <2> HIDE DEF more, fake
  <2>5. Leads(scan_set, Idle(flags), bytes, Idle(more))
    BY <1>4, <2>2, <2>3, LeadsOn
  <2>6. more \in SUBSET Justified(held)'
    BY <1>1, <2>4 DEF Justified
  <2>7. QED
    BY <2>5, <2>6
<1>7. /\ queue' = queue \o bytes
      /\ UNCHANGED <<scan_set, led_command, leds, controller, fifo, translator, key_pc, bit, lost>>
  BY DEF Press, Sends
<1>8. held' \subseteq Keys
  BY <1>1
<1> HIDE DEF bytes
<1>9. QED
  BY <1>5, <1>6, <1>7, <1>8, MoreBytes

LEMMA ReleaseKeeps ==
  ASSUME KeyInv, NEW key \in Keys, Release(key)
  PROVE  KeyInv'
<1> DEFINE fake  == IF Fakes(key) THEN Made("FAKE") ELSE <<>>
           bytes == Broken(key) \o fake
<1>1. scan_set \in {1, 2} /\ held' = held \ {key} /\ held \subseteq Keys
  BY DEF KeyInv, Types, Release
<1>2. key \in DOMAIN Sequence /\ key \in DOMAIN ShiftFlag
  BY KeyboardAssumption, SameKeys
<1>3. ASSUME NEW flags
      PROVE  /\ Leads(scan_set, Idle(flags), Made("FAKE"),
                      Idle(Effect(flags, ShiftFlag["FAKE"], FALSE)))
             /\ Leads(scan_set, Idle(flags), Broken(key), Idle(Effect(flags, ShiftFlag[key], TRUE)))
  BY <1>1, <1>2, KeyLeads, SameKeys
<1>4. fake \in Seq(Scans) /\ Broken(key) \in Seq(Scans) /\ Broken(key) # <<>>
  BY <1>1, <1>2, KeyBytes, SameKeys
<1>5. bytes \in Seq(Scans) /\ bytes # <<>>
  BY <1>4, ConcatProperties, ConcatEqualIffEmpty
<1>6. ASSUME NEW flags \in SUBSET Justified(held)
      PROVE  \E more \in SUBSET Justified(held)' :
               Leads(scan_set, Idle(flags), bytes, Idle(more))
  <2> DEFINE more == Effect(flags, ShiftFlag[key], TRUE)
  <2>1. more \in SUBSET Justified(held \ {key})
    BY ReleaseJustified
  <2>2. more \in SUBSET Modifiers
    BY <2>1 DEF Justified
  <2>3. Leads(scan_set, Idle(flags), Broken(key), Idle(more))
    BY <1>3
  <2> HIDE DEF more
  <2>4. Leads(scan_set, Idle(more), fake, Idle(more))
    <3>1. CASE Fakes(key)
      BY <1>3, <2>2, <3>1, FakeChangesNothing
    <3>2. CASE ~Fakes(key)
      BY <3>2, LeadsNowhere
    <3>3. QED
      BY <3>1, <3>2
  <2> HIDE DEF fake
  <2>5. Leads(scan_set, Idle(flags), bytes, Idle(more))
    BY <1>4, <2>3, <2>4, LeadsOn
  <2>6. more \in SUBSET Justified(held)'
    BY <1>1, <2>1 DEF Justified
  <2>7. QED
    BY <2>5, <2>6
<1>7. /\ queue' = queue \o bytes
      /\ UNCHANGED <<scan_set, led_command, leds, controller, fifo, translator, key_pc, bit, lost>>
  BY DEF Release, Sends
<1>8. held' \subseteq Keys
  BY <1>1
<1> HIDE DEF bytes
<1>9. QED
  BY <1>5, <1>6, <1>7, <1>8, MoreBytes

-----------------------------------------------------------------------------
(* The keyboard and the interrupt handler *)

LEMMA SendByteKeeps ==
  ASSUME KeyInv, SendByte
  PROVE  KeyInv'
<1>1. /\ queue # <<>> /\ output = <<>> /\ (led_command => Head(queue) = Ack)
      /\ output' = <<Head(queue)>> /\ queue' = Tail(queue)
      /\ UNCHANGED <<scan_set, held, led_command, leds, clock, masked, fifo, translator, key_pc,
                     bit, lost>>
  BY DEF SendByte
<1>2. queue \in Seq(Scans \cup {Ack})
  BY DEF KeyInv, Types
<1>3. Head(queue) = queue[1] /\ Tail(queue) \in Seq(Scans \cup {Ack})
  BY <1>1, <1>2
<1>4. Types'
  BY <1>1, <1>3 DEF KeyInv, Types, fifo, translator
<1>5. SUFFICES ASSUME lost = FALSE, key_pc # "quit" PROVE (Conversation /\ Settling /\ Lights)'
  BY <1>1, <1>4 DEF KeyInv
<1>6. Conversation /\ Settling /\ Lights
  BY <1>5 DEF KeyInv
<1>7. Ring' = Ring /\ Reader' = Reader
  BY <1>1 DEF Ring, First, Reader, Between, fifo, translator
<1>8. Out = <<>> /\ <<>> # <<Ack>>
  BY <1>1 DEF Out
<1>9. CASE Answers
  <2>1. output' = <<Ack>> /\ Out' = <<>> /\ Unsent = Tail(queue)
    BY <1>1, <1>3, <1>9 DEF Answers, Out, Unsent
  <2>2. Tail(queue) \in Seq(Scans)
    BY <1>6, <2>1 DEF Conversation
  <2>3. ~Answers'
    <3>1. Tail(queue) # <<>> => Tail(queue)[1] \in Scans
      BY <2>2
    <3>2. QED
      BY <1>1, <3>1, ScanNoAnswer DEF Answers
  <2>4. Unsent' = Unsent
    BY <1>1, <2>1, <2>3 DEF Unsent
  <2>5. Conversation'
    <3>1. key_pc \in {"ack_1", "ack_2"}
      BY <1>6, <1>9 DEF Conversation
    <3>2. QED
      BY <1>1, <1>6, <1>7, <2>1, <2>3, <2>4, <3>1 DEF Conversation, Talking, fifo
  <2>6. Pending' = Pending
    BY <1>7, <1>8, <2>1, <2>4 DEF Pending
  <2>7. QED
    BY <1>1, <1>6, <1>7, <2>5, <2>6, StaySettled DEF Lights, translator, CurBits, Flipped
<1>10. CASE ~Answers
  <2> DEFINE b == queue[1]
  <2>1. queue \in Seq(Scans) /\ Unsent = queue
    BY <1>6, <1>10 DEF Conversation, Unsent
  <2>2. b \in Scans /\ Tail(queue) \in Seq(Scans) /\ <<b>> \o Tail(queue) = queue
    BY <1>1, <2>1, HeadAndTail
  <2>3. b # Ack /\ <<b>> # <<Ack>>
    BY <2>2, ScanNoAnswer
  <2>4. output' = <<b>> /\ Out' = <<b>>
    BY <1>1, <1>3, <2>3 DEF Out
  <2>5. ~Answers' /\ Unsent' = Tail(queue)
    <3>1. Tail(queue) # <<>> => Tail(queue)[1] \in Scans
      BY <2>2
    <3>2. QED
      BY <1>1, <3>1, ScanNoAnswer DEF Answers, Unsent
  <2>6. key_pc \notin {"ack_1", "led_2", "ack_2"}
    BY <1>1, <1>3, <1>6, <1>8, <1>10, <2>3 DEF Conversation
  <2>7. Conversation'
    BY <1>1, <1>6, <1>7, <2>2, <2>3, <2>4, <2>5, <2>6 DEF Conversation, Talking, fifo
  <2>8. Pending' = Pending
    <3>1. Ring \in Seq(Scans)
      BY <1>6 DEF Conversation
    <3>2. Pending = Ring \o queue
      BY <1>8, <2>1, <3>1, ConcatEmptySeq DEF Pending
    <3>3. Pending' = (Ring \o <<b>>) \o Tail(queue)
      BY <1>7, <2>4, <2>5 DEF Pending
    <3>4. <<b>> \in Seq(Scans)
      BY <2>2
    <3> DEFINE one == <<b>>
               rest == Tail(queue)
    <3>5. one \in Seq(Scans) /\ rest \in Seq(Scans)
      BY <2>2, <3>4
    <3> HIDE DEF one, rest
    <3>6. (Ring \o one) \o rest = Ring \o (one \o rest)
      BY <3>1, <3>5, ConcatAssociative
    <3>7. QED
      BY <2>2, <3>2, <3>3, <3>6 DEF one, rest
  <2>9. QED
    BY <1>1, <1>6, <1>7, <2>7, <2>8, StaySettled DEF Lights, translator, CurBits, Flipped
<1>11. QED
  BY <1>9, <1>10

LEMMA ResumeKeeps ==
  ASSUME KeyInv, Resume
  PROVE  KeyInv'
<1>1. /\ key_pc \notin {"ack_1", "led_2"}
      /\ UNCHANGED <<scan_set, held, queue, leds, output, masked, fifo, translator, key_pc, bit,
                     lost>>
  BY DEF Resume, controller
<1>2. Types'
  BY <1>1 DEF KeyInv, Types, fifo, translator
<1>3. SUFFICES ASSUME lost = FALSE, key_pc # "quit" PROVE (Conversation /\ Settling /\ Lights)'
  BY <1>1, <1>2 DEF KeyInv
<1>4. Conversation /\ Settling /\ Lights
  BY <1>3 DEF KeyInv
<1>5. /\ Ring' = Ring /\ Reader' = Reader /\ Out' = Out /\ Unsent' = Unsent
      /\ Answers' <=> Answers
  BY <1>1 DEF Ring, First, Reader, Between, fifo, translator, Out, Unsent, Answers
<1>6. Conversation'
  BY <1>1, <1>4, <1>5 DEF Conversation, Talking, fifo
<1>7. Pending' = Pending
  BY <1>5 DEF Pending
<1>8. QED
  BY <1>1, <1>4, <1>5, <1>6, <1>7, StaySettled DEF Lights, translator, CurBits, Flipped

LEMMA IrqKeeps ==
  ASSUME KeyInv, Ps2KeyIrq
  PROVE  KeyInv'
<1>1. /\ output # <<>> /\ ~masked
      /\ key_buffer' = [key_buffer EXCEPT ![key_buff_irq] = output[1]]
      /\ key_buff_irq' = Following(key_buff_irq) /\ output' = <<>>
      /\ lost' = (lost \/ key_buff_irq' = key_buff_us)
      /\ UNCHANGED <<scan_set, held, queue, led_command, leds, masked, key_buff_us, translator,
                     key_pc, bit>>
  BY DEF Ps2KeyIrq, keyboard
<1>2. /\ key_buff_irq \in 0 .. KEY_BUFFER_SIZE - 1 /\ key_buff_us \in 0 .. KEY_BUFFER_SIZE - 1
      /\ DOMAIN key_buffer = 0 .. KEY_BUFFER_SIZE - 1 /\ lost \in BOOLEAN
  BY DEF KeyInv, Types
<1>3. Types'
  <2>1. key_buff_irq' \in 0 .. KEY_BUFFER_SIZE - 1
    BY <1>1, <1>2, FollowingPlace
  <2>2. DOMAIN key_buffer' = 0 .. KEY_BUFFER_SIZE - 1
    BY <1>1, <1>2
  <2>3. lost' \in BOOLEAN
    BY <1>1
  <2>4. QED
    BY <1>1, <2>1, <2>2, <2>3 DEF KeyInv, Types, translator
<1>4. SUFFICES ASSUME lost' = FALSE, key_pc # "quit" PROVE (Conversation /\ Settling /\ Lights)'
  BY <1>1, <1>3 DEF KeyInv
<1>5. lost = FALSE /\ key_buff_irq' # key_buff_us
  BY <1>1, <1>2, <1>4
<1>6. Conversation /\ Settling /\ Lights
  BY <1>4, <1>5 DEF KeyInv
<1>7. key_pc \notin Talking /\ ~Answers /\ output # <<Ack>> /\ Out = output
  BY <1>1, <1>6 DEF Conversation, Talking, Out
<1>8. PICK b \in Scans : output = <<b>>
  BY <1>1, <1>6, <1>7 DEF Conversation
<1>9. output[1] = b
  BY <1>8
<1>10. First \in 0 .. KEY_BUFFER_SIZE - 1 /\ First' = First /\ Following(key_buff_irq) # First
  <2>1. First' = First
    BY <1>1 DEF First
  <2>2. CASE key_pc = "loop"
    BY <1>1, <1>2, <1>5, <2>1, <2>2 DEF First
  <2>3. CASE key_pc # "loop"
    <3>1. First = Following(key_buff_us) /\ key_buff_us # key_buff_irq
      BY <1>6, <2>3 DEF First, Conversation
    <3>2. First \in 0 .. KEY_BUFFER_SIZE - 1
      BY <1>2, <3>1, FollowingPlace
    <3>3. Following(key_buff_irq) # Following(key_buff_us)
      BY <1>2, <3>1, KeyboardAssumption DEF Following
    <3>4. QED
      BY <2>1, <3>1, <3>2, <3>3
  <2>4. QED
    BY <2>2, <2>3
<1>11. Ring \in Seq(Scans) /\ Ring' = Append(Ring, b)
  <2>1. Between(key_buffer, First, key_buff_irq) \in Seq(Scans)
    BY <1>6 DEF Conversation, Ring
  <2>2. /\ key_buffer'[key_buff_irq] = b
        /\ \A p \in 0 .. KEY_BUFFER_SIZE - 1 : p # key_buff_irq => key_buffer'[p] = key_buffer[p]
    BY <1>1, <1>2, <1>9
  <2> DEFINE a == First
             i == key_buff_irq
             more == key_buffer'
  <2>3. /\ a \in 0 .. KEY_BUFFER_SIZE - 1 /\ i \in 0 .. KEY_BUFFER_SIZE - 1 /\ Following(i) # a
        /\ Between(key_buffer, a, i) \in Seq(Scans)
        /\ more[i] = b /\ \A p \in 0 .. KEY_BUFFER_SIZE - 1 : p # i => more[p] = key_buffer[p]
    BY <1>2, <1>10, <2>1, <2>2
  <2> HIDE DEF a, i, more
  <2>4. Between(more, a, Following(i)) = Append(Between(key_buffer, a, i), b)
    BY <2>3, RingGrows
  <2>5. Ring' = Between(more, a, Following(i))
    BY <1>1, <1>10 DEF Ring, Between, a, i, more
  <2>6. QED
    BY <2>1, <2>4, <2>5 DEF Ring, a, i
<1>12. Out' = <<>> /\ Unsent' = Unsent /\ ~Answers' /\ Reader' = Reader /\ <<>> # <<Ack>>
  BY <1>1, <1>7 DEF Out, Unsent, Answers, Reader, translator
<1>13. Conversation'
  <2>1. Append(Ring, b) \in Seq(Scans)
    BY <1>11
  <2>2. key_pc \notin {"ack_1", "led_2", "ack_2"}
    BY <1>7 DEF Talking
  <2>3. QED
    BY <1>1, <1>5, <1>6, <1>7, <1>11, <1>12, <2>1, <2>2 DEF Conversation
<1>14. Pending' = Pending
  <2>1. Append(Ring, b) = Ring \o <<b>>
    BY <1>11, AppendIsConcat
  <2>2. Append(Ring, b) \in Seq(Scans)
    BY <1>11
  <2>3. Append(Ring, b) \o <<>> = Append(Ring, b)
    BY <2>2, ConcatEmptySeq
  <2>4. QED
    BY <1>7, <1>8, <1>11, <1>12, <2>1, <2>3 DEF Pending
<1>15. QED
  BY <1>1, <1>6, <1>12, <1>13, <1>14, StaySettled DEF Lights, translator, CurBits, Flipped

-----------------------------------------------------------------------------
(* The translator *)

(* key_set_flags does to the modifiers what the automaton does, and nothing to
   the locks. *)
LEMMA SetFlagsEffect ==
  ASSUME NEW key \in DOMAIN ShiftFlag, NEW up \in BOOLEAN
  PROVE  /\ ~Toggles(ShiftFlag[key], up) =>
              /\ SetFlags(ShiftFlag[key], up) \cap Modifiers
                   = Effect(key_flags \cap Modifiers, ShiftFlag[key], up)
              /\ SetFlags(ShiftFlag[key], up) \cap Locks = key_flags \cap Locks
         /\ Toggles(ShiftFlag[key], up) =>
              /\ ShiftFlag[key] \in Locks
              /\ Effect(key_flags \cap Modifiers, ShiftFlag[key], up) = key_flags \cap Modifiers
<1> DEFINE flag == ShiftFlag[key]
<1>1. flag \in Modifiers \cup Locks \cup {"INSERTBIT", "none", "ignored"}
  BY DEF ShiftFlag, Modifiers, Locks
<1> HIDE DEF flag
<1>2. Toggles(flag, up) => flag \in Locks
  BY DEF Toggles, Locks
<1>3. flag \in Locks => Effect(key_flags \cap Modifiers, flag, up) = key_flags \cap Modifiers
  BY DEF Effect, Locks, Modifiers, Shifts
<1>4. CASE flag \in Shifts
  <2>1. CASE up
    <3>1. SetFlags(flag, up) = key_flags \ Shifts
      BY <1>4, <2>1 DEF SetFlags, Shifts
    <3>2. QED
      BY <1>2, <1>3, <1>4, <2>1, <3>1 DEF Effect, Shifts, Modifiers, Locks, flag
  <2>2. CASE ~up
    <3>1. SetFlags(flag, up) = key_flags \cup {flag}
      BY <1>4, <2>2 DEF SetFlags, Shifts, Modifiers
    <3>2. QED
      BY <1>2, <1>3, <1>4, <2>2, <3>1 DEF Effect, Shifts, Modifiers, Locks, flag
  <2>3. QED
    BY <2>1, <2>2
<1>5. CASE flag \in {"CTRLBIT", "ALTBIT"}
  <2>1. CASE up
    <3>1. SetFlags(flag, up) = key_flags \ {flag}
      BY <1>5, <2>1 DEF SetFlags, Modifiers
    <3>2. QED
      BY <1>2, <1>3, <1>5, <2>1, <3>1 DEF Effect, Shifts, Modifiers, Locks, flag
  <2>2. CASE ~up
    <3>1. SetFlags(flag, up) = key_flags \cup {flag}
      BY <1>5, <2>2 DEF SetFlags, Modifiers
    <3>2. QED
      BY <1>2, <1>3, <1>5, <2>2, <3>1 DEF Effect, Shifts, Modifiers, Locks, flag
  <2>3. QED
    BY <2>1, <2>2
<1>6. CASE flag \in Locks \cup {"INSERTBIT", "none", "ignored"}
  <2>1. SetFlags(flag, up) \in {key_flags, key_flags \ {"INSERTBIT"}, key_flags \cup {"INSERTBIT"}}
    BY <1>6 DEF SetFlags, Modifiers, Locks
  <2>2. SetFlags(flag, up) \cap Modifiers = key_flags \cap Modifiers
    BY <2>1 DEF Modifiers
  <2>3. SetFlags(flag, up) \cap Locks = key_flags \cap Locks
    BY <2>1 DEF Locks
  <2>4. Effect(key_flags \cap Modifiers, flag, up) = key_flags \cap Modifiers
    BY <1>6 DEF Effect, Locks, Modifiers, Shifts
  <2>5. QED
    BY <1>2, <2>2, <2>3, <2>4 DEF flag
<1>7. QED
  BY <1>1, <1>4, <1>5, <1>6 DEF Modifiers, Shifts

LEMMA TranslateKeeps ==
  ASSUME KeyInv, Translate
  PROVE  KeyInv'
<1> DEFINE byte  == key_buffer[key_buff_us]
           last  == ~(scan_set = 2 /\ byte.code = "F0")
           codes == IF last THEN Append(scan_buffer, byte.code) ELSE scan_buffer
           break_code == is_break \/ byte.up \/ ~last
           found == {key \in DOMAIN Sequence : last /\ Sequence[key] = codes}
           NoKey == /\ found = {}
                    /\ scan_buffer' = codes /\ is_break' = break_code
                    /\ key_pc' = "next"
                    /\ UNCHANGED <<key_flags, bit>>
           Lock(key) == /\ Toggles(ShiftFlag[key], break_code)
                        /\ bit' = ShiftFlag[key]
                        /\ scan_buffer' = codes /\ is_break' = break_code
                        /\ key_pc' = "mask"
                        /\ UNCHANGED key_flags
           Other(key) == /\ ~Toggles(ShiftFlag[key], break_code)
                         /\ key_flags' = SetFlags(ShiftFlag[key], break_code)
                         /\ ClearBuffers
                         /\ key_pc' = IF key = "ESC" /\ ~break_code /\ ~AltCode THEN "quit" ELSE "next"
                         /\ UNCHANGED bit
<1>1. /\ key_pc = "loop" /\ key_buff_us # key_buff_irq
      /\ UNCHANGED <<scan_set, keyboard, controller, fifo, lost>>
  BY DEF Translate
<1>2. NoKey \/ \E key \in found : Lock(key) \/ Other(key)
  BY Zenon DEF Translate
<1>3. key_pc' \in {"next", "mask", "quit"} /\ is_break' \in BOOLEAN
  <2>1. break_code \in BOOLEAN
    OBVIOUS
  <2> HIDE DEF break_code, codes, found
  <2>2. CASE NoKey
    BY <2>1, <2>2
  <2>3. ASSUME NEW key \in found, Lock(key) PROVE key_pc' = "mask" /\ is_break' \in BOOLEAN
    BY <2>1, <2>3
  <2>4. ASSUME NEW key \in found, Other(key)
        PROVE  key_pc' \in {"next", "quit"} /\ is_break' \in BOOLEAN
    BY <2>1, <2>4 DEF ClearBuffers
  <2>5. QED
    BY <1>2, <2>2, <2>3, <2>4
<1>4. Types'
  BY <1>1, <1>3 DEF KeyInv, Types, keyboard, controller, fifo
<1>5. SUFFICES ASSUME lost = FALSE, key_pc' # "quit" PROVE (Conversation /\ Settling /\ Lights)'
  BY <1>1, <1>4 DEF KeyInv
<1>6. Conversation /\ Settling /\ Lights
  BY <1>1, <1>5 DEF KeyInv
<1>7. /\ key_buff_us \in 0 .. KEY_BUFFER_SIZE - 1 /\ key_buff_irq \in 0 .. KEY_BUFFER_SIZE - 1
      /\ is_break \in BOOLEAN /\ scan_set \in {1, 2}
  BY DEF KeyInv, Types
<1>8. First = key_buff_us /\ First' = Following(key_buff_us)
  BY <1>1, <1>3 DEF First, fifo
<1>9. Ring \in Seq(Scans) /\ Ring # <<>> /\ Ring[1] = byte /\ Ring' = Tail(Ring)
  <2>1. Between(key_buffer, key_buff_us, key_buff_irq) \in Seq(Scans)
    BY <1>6, <1>8 DEF Conversation, Ring
  <2>2. Ring' = Between(key_buffer, Following(key_buff_us), key_buff_irq)
    BY <1>1, <1>8 DEF Ring, Between, fifo
  <2>3. Ring = Between(key_buffer, key_buff_us, key_buff_irq)
    BY <1>8 DEF Ring
  <2>4. QED
    BY <1>1, <1>7, <2>1, <2>2, <2>3, RingShrinks
<1>10. byte \in Scans /\ byte.up \in BOOLEAN
  <2>1. byte \in Scans
    BY <1>9
  <2>2. QED
    BY <2>1 DEF Scans
<1>11. Out' = Out /\ Unsent' = Unsent /\ (Answers' <=> Answers)
  BY <1>1 DEF Out, Unsent, Answers, keyboard, controller
<1>12. Pending # <<>> /\ Pending[1] = byte /\ Pending' = Tail(Pending) /\ Pending \in Seq(Scans)
  <2>1. Out \in Seq(Scans) /\ Unsent \in Seq(Scans) /\ Ring \o Out \in Seq(Scans)
    BY <1>6, PendingParts
  <2>2. Ring \o Out # <<>> /\ (Ring \o Out)[1] = byte /\ Tail(Ring \o Out) = Tail(Ring) \o Out
    BY <1>9, <2>1, TailOfConcat
  <2> DEFINE front == Ring \o Out
  <2>3. front \in Seq(Scans) /\ front # <<>> /\ front[1] = byte
    BY <2>1, <2>2
  <2> HIDE DEF front, byte
  <2>4. /\ front \o Unsent # <<>> /\ (front \o Unsent)[1] = byte
        /\ Tail(front \o Unsent) = Tail(front) \o Unsent
    BY <2>1, <2>3, TailOfConcat
  <2>5. Pending = front \o Unsent
    BY DEF Pending, front
  <2>6. Pending' = Tail(front) \o Unsent
    BY <1>9, <1>11, <2>2 DEF Pending, front
  <2>7. Pending \in Seq(Scans)
    BY <1>6, PendingParts
  <2>8. QED
    BY <2>4, <2>5, <2>6, <2>7
(* What the code does is what the automaton does. *)
<1>13. /\ Prefix(scan_set, byte) <=> ~last
       /\ break_code \in BOOLEAN
       /\ (is_break \/ byte.up \/ Prefix(scan_set, byte)) = break_code
       /\ (IF Prefix(scan_set, byte) THEN scan_buffer ELSE Append(scan_buffer, byte.code)) = codes
       /\ {key \in DOMAIN Sequence : ~Prefix(scan_set, byte) /\ Sequence[key] = codes} = found
  BY DEF Prefix
<1> DEFINE flags == key_flags \cap Modifiers
<1>14. /\ Reader = [codes |-> scan_buffer, up |-> is_break, flags |-> flags]
       /\ Reader.codes = scan_buffer /\ Reader.up = is_break /\ Reader.flags = flags
  BY <1>1 DEF Reader
<1>15. \A t : Reads(scan_set, Reader, byte, t) <=>
                \/ found = {} /\ t = [codes |-> codes, up |-> break_code, flags |-> flags]
                \/ \E key \in found : t = Idle(Effect(flags, ShiftFlag[key], break_code))
  <2> HIDE DEF byte, flags
  <2>1. {key \in DOMAIN Sequence :
           ~Prefix(scan_set, byte) /\
           Sequence[key] = IF Prefix(scan_set, byte) THEN Reader.codes
                                                     ELSE Append(Reader.codes, byte.code)} = found
    BY <1>13, <1>14
  <2>2. QED
    BY <1>13, <1>14, <2>1 DEF Reads
<1>16. \A key \in found : key \in DOMAIN ShiftFlag
  BY SameKeys
<1> HIDE DEF byte, last, codes, break_code, found
<1>17. /\ Reads(scan_set, Reader, byte, Reader')
       /\ bit' = bit \/ bit' \in Locks
       /\ key_pc' = "mask" => bit' \in Locks
       /\ key_flags' \cap Locks = key_flags \cap Locks
  <2>1. CASE NoKey
    <3>1. Reader' = [codes |-> codes, up |-> break_code, flags |-> flags]
      BY <2>1 DEF Reader
    <3>2. QED
      BY <1>15, <2>1, <3>1
  <2>2. ASSUME NEW key \in found, Lock(key)
        PROVE  /\ Reads(scan_set, Reader, byte, Reader')
               /\ bit' \in Locks /\ key_flags' = key_flags
    <3>1. /\ ShiftFlag[key] \in Locks
          /\ Effect(flags, ShiftFlag[key], break_code) = flags
      BY <1>13, <1>16, <2>2, SetFlagsEffect
    <3>2. Reader' = Idle(flags)
      BY <2>2 DEF Reader
    <3>3. Reader' = Idle(Effect(flags, ShiftFlag[key], break_code))
      BY <3>1, <3>2
    <3>4. QED
      BY <1>15, <2>2, <3>1, <3>3
  <2>3. ASSUME NEW key \in found, Other(key)
        PROVE  /\ Reads(scan_set, Reader, byte, Reader')
               /\ bit' = bit /\ key_pc' = "next" /\ key_flags' \cap Locks = key_flags \cap Locks
    <3>1. key_pc' = "next"
      BY <1>5, <2>3
    <3>2. /\ key_flags' \cap Modifiers = Effect(flags, ShiftFlag[key], break_code)
          /\ key_flags' \cap Locks = key_flags \cap Locks
      BY <1>13, <1>16, <2>3, SetFlagsEffect
    <3>3. Reader' = [codes |-> <<>>, up |-> FALSE, flags |-> key_flags' \cap Modifiers]
      BY <2>3, <3>1 DEF Reader, ClearBuffers
    <3>4. Reader' = Idle(Effect(flags, ShiftFlag[key], break_code))
      BY <3>2, <3>3 DEF Idle
    <3>5. QED
      BY <1>15, <2>3, <3>1, <3>2, <3>4
  <2>4. QED
    BY <1>2, <2>1, <2>2, <2>3
<1>18. Settling'
  <2>1. PICK end \in SUBSET Justified(held) : Leads(scan_set, Reader, Pending, Idle(end))
    BY <1>6 DEF Settling
  <2>2. Leads(scan_set, Reader', Tail(Pending), Idle(end))
    BY <1>12, <1>17, <2>1, LeadsFromFirst
  <2>3. Justified(held)' = Justified(held) /\ scan_set' = scan_set
    BY <1>1 DEF Justified, keyboard
  <2>4. Leads(scan_set', Reader', Pending', Idle(end))
    BY <1>12, <2>2, <2>3
  <2>5. QED
    BY <2>3, <2>4 DEF Settling
<1>19. Conversation'
  <2>1. Ring' \in Seq(Scans)
    BY <1>9
  <2>2. ~Answers /\ output # <<Ack>>
    BY <1>1, <1>6 DEF Conversation
  <2>3. QED
    BY <1>1, <1>3, <1>6, <1>11, <2>1, <2>2 DEF Conversation, Talking, controller, fifo
<1>20. Lights'
  <2>1. leds' = leds /\ (leds = Locks \/ leds = key_flags \cap Locks)
    BY <1>1, <1>6 DEF Lights, keyboard
  <2>2. QED
    BY <1>3, <1>5, <1>17, <2>1 DEF Lights, Talking
<1>21. QED
  BY <1>18, <1>19, <1>20

LEMMA NextByteKeeps ==
  ASSUME KeyInv, NextByte
  PROVE  KeyInv'
<1>1. /\ key_pc = "next" /\ key_pc' = "loop" /\ key_buff_us' = Following(key_buff_us)
      /\ UNCHANGED <<scan_set, held, queue, led_command, leds, output, masked, key_buffer,
                     key_buff_irq, translator, bit, lost>>
  BY DEF NextByte, keyboard, controller
<1>2. Types'
  <2>1. key_buff_us' \in 0 .. KEY_BUFFER_SIZE - 1
    BY <1>1, FollowingPlace DEF KeyInv, Types
  <2>2. QED
    BY <1>1, <2>1 DEF KeyInv, Types, translator
<1>3. SUFFICES ASSUME lost = FALSE PROVE (Conversation /\ Settling /\ Lights)'
  BY <1>1, <1>2 DEF KeyInv
<1>4. Conversation /\ Settling /\ Lights
  BY <1>1, <1>3 DEF KeyInv
<1>5. /\ Ring' = Ring /\ Reader' = Reader /\ Out' = Out /\ Unsent' = Unsent
      /\ Answers' <=> Answers
  BY <1>1 DEF Ring, First, Reader, Between, translator, Out, Unsent, Answers
<1>6. Conversation'
  BY <1>1, <1>4, <1>5 DEF Conversation, Talking
<1>7. Pending' = Pending
  BY <1>5 DEF Pending
<1>8. QED
  BY <1>1, <1>4, <1>5, <1>6, <1>7, StaySettled DEF Lights, translator, Talking

-----------------------------------------------------------------------------
(* The conversation about the LEDs *)

(* Steps that touch neither the bytes nor the flags. *)
LEMMA StepsOfTalk ==
  ASSUME KeyInv, Mask \/ DisablePort \/ EnablePort
  PROVE  KeyInv'
<1>1. /\ key_pc \in {"mask", "disable", "enable"} /\ key_pc' \in {"disable", "led_1", "unmask"}
      /\ key_pc = "enable" <=> key_pc' = "unmask"
      /\ masked' = TRUE \/ (key_pc \in Talking /\ masked' = masked)
      /\ UNCHANGED <<scan_set, keyboard, output, fifo, translator, bit, lost>>
  BY DEF Mask, DisablePort, EnablePort, Talking
<1>2. Types'
  BY <1>1 DEF KeyInv, Types, keyboard, fifo, translator, Talking
<1>3. SUFFICES ASSUME lost = FALSE PROVE (Conversation /\ Settling /\ Lights)'
  BY <1>1, <1>2 DEF KeyInv
<1>4. Conversation /\ Settling /\ Lights
  BY <1>1, <1>3 DEF KeyInv
<1>5. /\ Ring' = Ring /\ Reader' = Reader /\ Out' = Out /\ Unsent' = Unsent
      /\ Answers' <=> Answers
  BY <1>1 DEF Ring, First, Reader, Between, fifo, keyboard, translator, Out, Unsent, Answers
<1>6. Conversation'
  BY <1>1, <1>4, <1>5 DEF Conversation, Talking, fifo
<1>7. Pending' = Pending
  BY <1>5 DEF Pending
<1>8. Lights'
  BY <1>1, <1>4 DEF Lights, Talking, keyboard, translator, CurBits, Flipped
<1>9. Settling'
  BY <1>1, <1>4, <1>5, <1>7, StaySettled DEF keyboard
<1>10. QED
  BY <1>6, <1>8, <1>9

(* A command: the keyboard answers before it sends anything else. *)
LEMMA CommandKeeps ==
  ASSUME KeyInv, LedCommand \/ LedArgument
  PROVE  KeyInv'
<1>1. /\ \/ key_pc = "led_1" /\ key_pc' = "ack_1" /\ led_command' = TRUE /\ leds' = leds
         \/ key_pc = "led_2" /\ key_pc' = "ack_2" /\ leds' = CurBits
      /\ queue' = <<Ack>> \o queue
      /\ UNCHANGED <<scan_set, held, output, masked, fifo, translator, bit, lost>>
  BY DEF LedCommand, LedArgument
<1>2. queue \in Seq(Scans \cup {Ack})
  BY DEF KeyInv, Types
<1>3. /\ queue' \in Seq(Scans \cup {Ack}) /\ queue' # <<>> /\ queue'[1] = Ack
      /\ Tail(queue') = queue
  <2>1. Ack \in Scans \cup {Ack}
    OBVIOUS
  <2>2. QED
    BY <1>1, <1>2, <2>1, AnswerInFront
<1>4. Types'
  BY <1>1, <1>3 DEF KeyInv, Types, fifo, translator, Talking
<1>5. SUFFICES ASSUME lost = FALSE PROVE (Conversation /\ Settling /\ Lights)'
  BY <1>1, <1>4 DEF KeyInv
<1>6. Conversation /\ Settling /\ Lights
  BY <1>1, <1>5 DEF KeyInv
<1>7. Ring' = Ring /\ Reader' = Reader /\ Out' = Out
  BY <1>1 DEF Ring, First, Reader, Between, fifo, translator, Out
<1>8. ~Answers /\ output # <<Ack>> /\ (key_pc = "led_2" => output = <<>>)
  BY <1>1, <1>6 DEF Conversation
<1>9. Answers' /\ Unsent' = Unsent
  BY <1>3, <1>8 DEF Answers, Unsent
<1>10. Conversation'
  BY <1>1, <1>6, <1>7, <1>8, <1>9 DEF Conversation, Talking, fifo
<1>11. Pending' = Pending
  BY <1>7, <1>9 DEF Pending
<1>12. CurBits' = CurBits
  BY <1>1 DEF CurBits, Flipped, translator
<1>13. Lights'
  BY <1>1, <1>6, <1>12 DEF Lights, Talking, translator
<1>14. Settling'
  BY <1>1, <1>6, <1>7, <1>11, StaySettled
<1>15. QED
  BY <1>10, <1>13, <1>14

LEMMA ReadAckKeeps ==
  ASSUME KeyInv, ReadAck
  PROVE  KeyInv'
<1>1. /\ key_pc \in {"ack_1", "ack_2"} /\ output # <<>>
      /\ key_pc' = IF key_pc = "ack_1" /\ output[1] = Ack THEN "led_2" ELSE "enable"
      /\ lost' = (lost \/ output[1] # Ack)
      /\ output' = <<>>
      /\ UNCHANGED <<scan_set, keyboard, masked, fifo, translator, bit>>
  BY DEF ReadAck
<1>2. lost \in BOOLEAN /\ lost' \in BOOLEAN
  BY <1>1 DEF KeyInv, Types
<1>3. Types'
  BY <1>1, <1>2 DEF KeyInv, Types, keyboard, fifo, translator, Talking
<1>4. SUFFICES ASSUME lost' = FALSE PROVE (Conversation /\ Settling /\ Lights)'
  BY <1>1, <1>3 DEF KeyInv
<1>5. lost = FALSE /\ output[1] = Ack
  BY <1>1, <1>2, <1>4
<1>6. Conversation /\ Settling /\ Lights
  BY <1>1, <1>5 DEF KeyInv
<1>7. output = <<Ack>>
  <2> SUFFICES ASSUME output # <<Ack>> PROVE FALSE
    OBVIOUS
  <2>1. Out = output
    BY DEF Out
  <2>2. PICK b \in Scans : output = <<b>>
    BY <1>1, <1>6, <2>1 DEF Conversation
  <2>3. output[1] = b
    BY <2>2
  <2>4. QED
    BY <1>5, <2>3, ScanNoAnswer
<1>8. ~Answers /\ Out = <<>>
  BY <1>1, <1>6, <1>7 DEF Conversation, Out
<1>9. Out' = <<>> /\ <<>> # <<Ack>>
  BY <1>1 DEF Out
<1>10. Ring' = Ring /\ Reader' = Reader /\ Unsent' = Unsent /\ ~Answers'
  BY <1>1, <1>8 DEF Ring, First, Reader, Between, fifo, keyboard, translator, Unsent, Answers
<1>11. Conversation'
  BY <1>1, <1>6, <1>8, <1>9, <1>10 DEF Conversation, Talking, fifo, keyboard
<1>12. Pending' = Pending
  BY <1>8, <1>9, <1>10 DEF Pending
<1>13. Lights'
  BY <1>1, <1>5, <1>6 DEF Lights, Talking, keyboard, translator, CurBits, Flipped
<1>14. Settling'
  BY <1>1, <1>6, <1>10, <1>12, StaySettled DEF keyboard
<1>15. QED
  BY <1>11, <1>13, <1>14

LEMMA ReadTimeoutKeeps ==
  ASSUME KeyInv, ReadTimeout
  PROVE  KeyInv'
<1>1. Types'
  BY DEF KeyInv, Types, ReadTimeout, keyboard, controller, fifo, translator, Talking
<1>2. QED
  BY <1>1 DEF KeyInv, ReadTimeout

LEMMA UnmaskKeeps ==
  ASSUME KeyInv, Unmask
  PROVE  KeyInv'
<1>1. /\ key_pc = "unmask" /\ key_pc' = "next"
      /\ key_flags' = Flipped(key_flags) /\ scan_buffer' = <<>> /\ is_break' = FALSE
      /\ UNCHANGED <<scan_set, keyboard, output, fifo, bit, lost>>
  BY DEF Unmask, ClearBuffers
<1>2. Types'
  BY <1>1 DEF KeyInv, Types, keyboard, fifo
<1>3. SUFFICES ASSUME lost = FALSE PROVE (Conversation /\ Settling /\ Lights)'
  BY <1>1, <1>2 DEF KeyInv
<1>4. Conversation /\ Settling /\ Lights
  BY <1>1, <1>3 DEF KeyInv
<1>5. bit \in Locks /\ leds = CurBits
  BY <1>1, <1>4 DEF Lights, Talking
<1>6. key_flags' \cap Modifiers = key_flags \cap Modifiers
  BY <1>1, <1>5 DEF Flipped, Modifiers, Locks
<1>7. leds' = key_flags' \cap Locks
  BY <1>1, <1>5 DEF Flipped, CurBits, keyboard
<1>8. Reader' = Reader
  BY <1>1, <1>6 DEF Reader, Idle
<1>9. /\ Ring' = Ring /\ Out' = Out /\ Unsent' = Unsent
      /\ Answers' <=> Answers
  BY <1>1 DEF Ring, First, Between, fifo, keyboard, Out, Unsent, Answers
<1>10. Conversation'
  BY <1>1, <1>4, <1>9 DEF Conversation, Talking, fifo
<1>11. Pending' = Pending
  BY <1>9 DEF Pending
<1>12. Lights'
  BY <1>1, <1>7 DEF Lights, Talking
<1>13. Settling'
  BY <1>1, <1>4, <1>8, <1>11, StaySettled DEF keyboard
<1>14. QED
  BY <1>10, <1>12, <1>13

-----------------------------------------------------------------------------
LEMMA StutterKeeps ==
  ASSUME KeyInv, UNCHANGED vars
  PROVE  KeyInv'
<1>1. UNCHANGED <<scan_set, keyboard, controller, fifo, translator, key_pc, bit, lost>>
  BY DEF vars
<1>2. Types'
  BY <1>1 DEF KeyInv, Types, keyboard, controller, fifo, translator
<1>3. SUFFICES ASSUME lost = FALSE, key_pc # "quit" PROVE (Conversation /\ Settling /\ Lights)'
  BY <1>1, <1>2 DEF KeyInv
<1>4. Conversation /\ Settling /\ Lights
  BY <1>3 DEF KeyInv
<1>5. /\ Ring' = Ring /\ Reader' = Reader /\ Out' = Out /\ Unsent' = Unsent
      /\ Answers' <=> Answers
  BY <1>1 DEF Ring, First, Reader, Between, fifo, translator, Out, Unsent, Answers, keyboard,
              controller
<1>6. Conversation'
  BY <1>1, <1>4, <1>5 DEF Conversation, Talking, fifo, keyboard, controller
<1>7. Pending' = Pending
  BY <1>5 DEF Pending
<1>8. Lights'
  BY <1>1, <1>4 DEF Lights, translator, CurBits, Flipped, keyboard
<1>9. Settling'
  BY <1>1, <1>4, <1>5, <1>7, StaySettled DEF keyboard
<1>10. QED
  BY <1>6, <1>8, <1>9

(* Unless a byte was lost, the bytes on their way, wherever they are between the
   keyboard and the translator, lead to modifiers whose keys are down, and the
   LEDs follow the locks: an inductive invariant, for every ring, all keys of
   the tables and any number of presses. *)
THEOREM KeyboardInductive == Spec => []KeyInv
<1>1. Init => KeyInv
  BY InitKey
<1>2. KeyInv /\ [Next]_vars => KeyInv'
  <2> SUFFICES ASSUME KeyInv, [Next]_vars PROVE KeyInv'
    OBVIOUS
  <2>1. CASE Program
    BY <2>1, TranslateKeeps, NextByteKeeps, StepsOfTalk, CommandKeeps, ReadAckKeeps,
       ReadTimeoutKeeps, UnmaskKeeps DEF Program
  <2>2. CASE Ps2KeyIrq
    BY <2>2, IrqKeeps
  <2>3. CASE Device
    BY <2>3, SendByteKeeps, ResumeKeeps DEF Device
  <2>4. CASE User
    BY <2>4, PressKeeps, ReleaseKeeps DEF User
  <2>5. CASE UNCHANGED vars
    BY <2>5, StutterKeeps
  <2>6. QED
    BY <2>1, <2>2, <2>3, <2>4, <2>5 DEF Next
<1>3. QED
  BY <1>1, <1>2, PTL DEF Spec

(* Once all bytes are translated no modifier is on without its key and the
   translator is ready for a new key, unless a byte was lost. *)
THEOREM KeyboardNotStuck == Spec => []NoStuckModifier
<1>1. KeyInv => NoStuckModifier
  <2> SUFFICES ASSUME KeyInv, Quiet, ~lost
               PROVE  /\ \A flag \in key_flags \cap Modifiers : Keyed(flag) # {}
                      /\ scan_buffer = <<>> /\ ~is_break
    BY DEF NoStuckModifier
  <2>1. Types /\ Conversation /\ Settling
    BY DEF KeyInv, Quiet, Types
  <2>2. Out = <<>> /\ Unsent = <<>> /\ ~Answers
    BY DEF Quiet, Out, Unsent, Answers
  <2>3. Ring = <<>>
    <3>1. First = key_buff_us /\ key_buff_us = key_buff_irq
      BY DEF Quiet, First
    <3>2. Distance(First, key_buff_irq) = 0
      BY <2>1, <3>1 DEF Distance, Types
    <3>3. QED
      BY <3>2 DEF Ring, Between
  <2>4. Pending = <<>>
    BY <2>2, <2>3 DEF Pending
  <2>5. PICK flags \in SUBSET Justified(held) : Reader = Idle(flags)
    BY <2>1, <2>4, LeadsNowhere DEF Settling
  <2>6. /\ Reader.codes = scan_buffer /\ Reader.up = is_break
        /\ Reader.flags = key_flags \cap Modifiers
    BY DEF Reader, Quiet
  <2>7. scan_buffer = <<>> /\ is_break = FALSE /\ key_flags \cap Modifiers = flags
    BY <2>5, <2>6 DEF Idle
  <2>8. QED
    BY <2>5, <2>7 DEF Justified, Keyed
<1>2. QED
  BY <1>1, KeyboardInductive, PTL

(* Once all bytes are translated the LEDs show the locks, or are all on as at the
   start, unless a byte was lost. *)
THEOREM KeyboardLeds == Spec => []LedsFollow
<1>1. KeyInv => LedsFollow
  BY DEF KeyInv, Types, Lights, LedsFollow, Quiet
<1>2. QED
  BY <1>1, KeyboardInductive, PTL

-----------------------------------------------------------------------------
(* Type correctness, also after a byte was lost: from "mask" to "unmask" bit is
   a lock, so that nothing but a lock is toggled and shown. *)
KeyFlags == Locks \cup Modifiers \cup {"INSERTBIT"}

Typed ==
  /\ leds \subseteq Locks /\ key_flags \subseteq KeyFlags
  /\ output = <<>> \/ \E b : output = <<b>>
  /\ led_command \in BOOLEAN /\ clock \in BOOLEAN /\ masked \in BOOLEAN
  /\ key_pc \in {"mask"} \cup Talking => bit \in Locks

LEMMA FlagsKept ==
  ASSUME key_flags \subseteq KeyFlags, NEW key \in DOMAIN ShiftFlag, NEW up \in BOOLEAN
  PROVE  SetFlags(ShiftFlag[key], up) \subseteq KeyFlags
<1> DEFINE flag == ShiftFlag[key]
<1> HIDE DEF flag
<1>1. CASE flag \in KeyFlags
  <2>1. SetFlags(flag, up) \subseteq key_flags \cup {flag}
    BY DEF SetFlags
  <2> QED
    BY <1>1, <2>1 DEF flag
<1>2. CASE flag \notin KeyFlags
  <2>1. SetFlags(flag, up) = key_flags
    BY <1>2 DEF SetFlags, KeyFlags, Modifiers
  <2> QED
    BY <2>1 DEF flag
<1> QED
  BY <1>1, <1>2

LEMMA FlippedKept ==
  ASSUME bit \in Locks
  PROVE  /\ \A flags \in SUBSET Locks : Flipped(flags) \subseteq Locks
         /\ \A flags \in SUBSET KeyFlags : Flipped(flags) \subseteq KeyFlags
  BY DEF Flipped, KeyFlags

LEMMA TranslateTyped ==
  ASSUME KeyInv, Typed, Translate
  PROVE  Typed'
<1> DEFINE byte  == key_buffer[key_buff_us]
           last  == ~(scan_set = 2 /\ byte.code = "F0")
           codes == IF last THEN Append(scan_buffer, byte.code) ELSE scan_buffer
           break_code == is_break \/ byte.up \/ ~last
           found == {key \in DOMAIN Sequence : last /\ Sequence[key] = codes}
<1>1. UNCHANGED <<leds, output, led_command, clock, masked>>
  BY DEF Translate, keyboard, controller
<1>2. CASE UNCHANGED <<key_flags, bit>> /\ key_pc' = "next"
  BY <1>1, <1>2 DEF Typed, Talking
<1>3. ASSUME NEW key \in found,
             IF Toggles(ShiftFlag[key], break_code)
             THEN bit' = ShiftFlag[key] /\ UNCHANGED key_flags
             ELSE /\ key_flags' = SetFlags(ShiftFlag[key], break_code)
                  /\ key_pc' \in {"quit", "next"}
      PROVE  Typed'
  <2>1. key \in DOMAIN ShiftFlag /\ break_code \in BOOLEAN
    BY SameKeys
  <2> HIDE DEF break_code
  <2>2. CASE Toggles(ShiftFlag[key], break_code)
    <3>1. ShiftFlag[key] \in Locks
      BY <2>2 DEF Toggles, Locks
    <3> QED
      BY <1>1, <1>3, <2>2, <3>1 DEF Typed
  <2>3. CASE ~Toggles(ShiftFlag[key], break_code)
    <3>1. key_flags' \subseteq KeyFlags
      BY <1>3, <2>1, <2>3, FlagsKept DEF Typed
    <3>2. key_pc' \in {"quit", "next"}
      BY <1>3, <2>3
    <3> QED
      BY <1>1, <3>1, <3>2 DEF Typed, Talking
  <2> QED
    BY <2>2, <2>3
<1>4. \/ UNCHANGED <<key_flags, bit>> /\ key_pc' = "next"
      \/ \E key \in found :
           IF Toggles(ShiftFlag[key], break_code)
           THEN bit' = ShiftFlag[key] /\ UNCHANGED key_flags
           ELSE /\ key_flags' = SetFlags(ShiftFlag[key], break_code)
                /\ key_pc' \in {"quit", "next"}
  BY DEF Translate
<1> HIDE DEF found, break_code
<1> QED
  BY <1>2, <1>3, <1>4

LEMMA TypedStep ==
  ASSUME KeyInv, Typed, Next
  PROVE  Typed'
<1> USE DEF Typed, Talking
<1>1. CASE \E key \in Keys : Press(key) \/ Release(key)
  BY <1>1 DEF Press, Release, Sends, controller, translator
<1>2. CASE SendByte \/ Resume
  BY <1>2 DEF SendByte, Resume, translator, controller
<1>3. CASE Ps2KeyIrq
  BY <1>3 DEF Ps2KeyIrq, translator, keyboard
<1>4. CASE NextByte \/ Mask \/ DisablePort \/ LedCommand \/ EnablePort
  BY <1>4 DEF NextByte, Mask, DisablePort, LedCommand, EnablePort, translator, keyboard, controller
<1>5. CASE LedArgument
  <2>1. bit \in Locks /\ key_flags \cap Locks \in SUBSET Locks
    BY <1>5 DEF LedArgument
  <2>2. leds' \subseteq Locks
    BY <1>5, <2>1, FlippedKept DEF LedArgument, CurBits
  <2> QED
    BY <1>5, <2>1, <2>2 DEF LedArgument, translator
<1>6. CASE ReadAck \/ ReadTimeout
  BY <1>6 DEF ReadAck, ReadTimeout, translator, keyboard, controller
<1>7. CASE Unmask
  <2>1. bit \in Locks /\ key_flags' = Flipped(key_flags) /\ key_pc' = "next"
    BY <1>7 DEF Unmask
  <2>2. key_flags' \subseteq KeyFlags
    BY <2>1, FlippedKept
  <2> QED
    BY <1>7, <2>1, <2>2 DEF Unmask, keyboard
<1> QED
  BY <1>1, <1>2, <1>3, <1>4, <1>5, <1>6, <1>7, TranslateTyped DEF Next, Program, User, Device

(* The variables of the keyboard, its controller and ps2key.c have their values,
   whatever was lost: the ring is not written out of its bounds, and the LEDs are
   told of locks only. *)
THEOREM KeyboardTypes == Spec => []TypeOK
<1>1. Init => Typed
  BY DEF Init, Typed, Talking, Locks
<1>2. KeyInv /\ Typed /\ [Next]_vars => Typed'
  <2>1. Typed /\ UNCHANGED vars => Typed'
    BY DEF vars, keyboard, controller, translator, Typed
  <2> QED
    BY <2>1, TypedStep
<1>3. KeyInv /\ Typed => TypeOK
  <2> SUFFICES ASSUME KeyInv, Typed
               PROVE  TypeOK
    OBVIOUS
  <2>1. Len(output) <= 1
    <3>1. CASE output = <<>>
      BY <3>1
    <3>2. ASSUME NEW b, output = <<b>>
          PROVE  Len(output) <= 1
      BY <3>2
    <3> QED
      BY <3>1, <3>2 DEF Typed
  <2>2. /\ scan_set \in {1, 2} /\ held \subseteq Keys
        /\ {key_buff_us, key_buff_irq} \subseteq 0 .. KEY_BUFFER_SIZE - 1
        /\ key_pc \in {"loop", "next", "mask", "quit"} \cup Talking
        /\ is_break \in BOOLEAN /\ lost \in BOOLEAN
    BY DEF KeyInv, Types
  <2> QED
    BY <2>1, <2>2 DEF Typed, Talking, KeyFlags, TypeOK
<1>4. QED
  BY <1>1, <1>2, <1>3, KeyboardInductive, PTL DEF Spec
=============================================================================
