------------------------- MODULE SerialMouseProofs -------------------------
(***************************************************************************)
(* A packet of three bytes that came in full is understood, whatever state *)
(* the decoder was in and whatever was overrun before, for all movements   *)
(* the format can carry and any number of packets.                         *)
(***************************************************************************)
EXTENDS SerialMouse, TLAPS

(* The byte in the receive register is one of the packet under way. *)
Coming == IF receive # <<>> /\ receive[1].of = packets THEN 1 ELSE 0

(* What the mouse has not sent is the end of the packet under way. *)
Sending ==
  /\ packet \in Packets /\ Len(to_send) <= 3
  /\ \A i \in 1 .. Len(to_send) : to_send[i] = Encoded(packet)[3 - Len(to_send) + i]

Heads ==
  /\ ser_buttons = 32 * Button(packet.left) + 16 * Button(packet.right)
  /\ ser_y = 64 * (Bits(packet.dy) \div 64)
  /\ before = info

(* What the decoder knows after n bytes of a packet none of which was lost. *)
Understood(n) ==
  /\ n = 1 => cur_byte = 1 /\ Heads /\ ser_x = 64 * (Bits(packet.dx) \div 64)
  /\ n = 2 => cur_byte = 2 /\ Heads /\ ser_x = Bits(packet.dx)
  /\ n = 3 => info = Moved(before, packet.dx, packet.dy, packet.left, packet.right)

Types ==
  /\ packets \in Nat /\ whole \in Nat /\ to_send \in Seq(Int)
  /\ \/ receive = <<>>
     \/ \E v \in Int, p \in 0 .. packets : receive = <<[value |-> v, of |-> p]>>

(* A byte of the packet is handled, waits in the register, has not been sent,
   or is lost; if none is lost, the next one comes to a decoder that has
   understood those before it. *)
Progress ==
  packets > 0 =>
    /\ Sending
    /\ whole + Coming + Len(to_send) <= 3
    /\ whole + Coming + Len(to_send) = 3 =>
         /\ Coming = 1 => receive[1].value = Encoded(packet)[whole + 1]
         /\ Coming = 0 /\ receive # <<>> => whole = 0
         /\ Understood(whole)

PacketInv == Types /\ Progress

-----------------------------------------------------------------------------
(* The format: what the decoder takes from each byte is what was put there. *)
LEMMA Formats ==
  ASSUME NEW p \in Packets
  PROVE  LET e == Encoded(p)
         IN  /\ e \in Seq(Int) /\ Len(e) = 3
             /\ e[1] >= 64 /\ ~(e[2] >= 64) /\ ~(e[3] >= 64)
             /\ 64 * (e[1] % 4) = 64 * (Bits(p.dx) \div 64)
             /\ 64 * ((e[1] \div 4) % 4) = 64 * (Bits(p.dy) \div 64)
             /\ 16 * ((e[1] % 64) \div 16) = 32 * Button(p.left) + 16 * Button(p.right)
             /\ 64 * (Bits(p.dx) \div 64) + (e[2] % 64) = Bits(p.dx)
             /\ 64 * (Bits(p.dy) \div 64) + (e[3] % 64) = Bits(p.dy)
<1> DEFINE l == Button(p.left)
           r == Button(p.right)
           x == Bits(p.dx)
           y == Bits(p.dy)
<1>1. l \in 0 .. 1 /\ r \in 0 .. 1
  BY DEF Packets, Button
<1>2. x \in 0 .. 255 /\ y \in 0 .. 255
  <2>1. p.dx \in Moves /\ p.dy \in Moves
    BY DEF Packets
  <2>2. p.dx \in -128 .. 127 /\ p.dy \in -128 .. 127
    BY <2>1, MovesAssumption
  <2>3. QED
    BY <2>2 DEF Bits
<1> HIDE DEF l, r, x, y
<1>3. Encoded(p) = <<64 + 32 * l + 16 * r + 4 * (y \div 64) + x \div 64, x % 64, y % 64>>
  BY DEF Encoded, l, r, x, y
<1>4. x \div 64 \in 0 .. 3 /\ y \div 64 \in 0 .. 3
  BY <1>2
<1>5. x % 64 \in 0 .. 63 /\ y % 64 \in 0 .. 63
  BY <1>2
<1>6. 64 * (x \div 64) + ((x % 64) % 64) = x /\ 64 * (y \div 64) + ((y % 64) % 64) = y
  BY <1>2
<1> DEFINE a == x \div 64
           b == y \div 64
           h == 64 + 32 * l + 16 * r + 4 * b + a
<1>7. h >= 64 /\ h % 4 = a /\ (h \div 4) % 4 = b /\ (h % 64) \div 16 = 2 * l + r
  <2> HIDE DEF a, b
  <2>1. a \in 0 .. 3 /\ b \in 0 .. 3
    BY <1>4 DEF a, b
  <2>2. QED
    BY <1>1, <2>1
<1> DEFINE e == Encoded(p)
<1>8. /\ e \in Seq(Int) /\ Len(e) = 3
      /\ e[1] = h
      /\ e[2] = x % 64 /\ e[3] = y % 64
  BY <1>1, <1>2, <1>3
<1> HIDE DEF e, h, a, b
<1>9. /\ e[1] >= 64
      /\ e[1] % 4 = x \div 64 /\ (e[1] \div 4) % 4 = y \div 64
      /\ (e[1] % 64) \div 16 = 2 * l + r
  BY <1>7, <1>8 DEF a, b
<1>10. ~(e[2] >= 64) /\ ~(e[3] >= 64)
  <2>1. e[2] \in 0 .. 63 /\ e[3] \in 0 .. 63
    BY <1>5, <1>8
  <2>2. QED
    BY <2>1
<1>11. QED
  BY <1>1, <1>6, <1>8, <1>9, <1>10 DEF l, r, x, y, e

(* Eight bits are enough for a movement, and the two buttons are told apart. *)
LEMMA Meaning ==
  ASSUME NEW p \in Packets
  PROVE  /\ Signed(Bits(p.dx)) = p.dx /\ Signed(Bits(p.dy)) = p.dy
         /\ LET b == 32 * Button(p.left) + 16 * Button(p.right)
            IN  (b >= 32) = p.left /\ (b % 32 >= 16) = p.right
<1>1. p.dx \in -128 .. 127 /\ p.dy \in -128 .. 127
  BY MovesAssumption DEF Packets
<1>2. Signed(Bits(p.dx)) = p.dx /\ Signed(Bits(p.dy)) = p.dy
  BY <1>1 DEF Signed, Bits
<1>3. p.left \in BOOLEAN /\ p.right \in BOOLEAN
  BY DEF Packets
<1>4. ASSUME NEW c \in BOOLEAN, NEW d \in BOOLEAN
      PROVE  LET b == 32 * Button(c) + 16 * Button(d)
             IN  (b >= 32) = c /\ (b % 32 >= 16) = d
  <2> DEFINE b == 32 * Button(c) + 16 * Button(d)
  <2>1. (b >= 32 <=> c = TRUE) /\ (b % 32 >= 16 <=> d = TRUE)
    BY DEF Button
  <2>2. b \in Int /\ b % 32 \in Int
    BY DEF Button
  <2> HIDE DEF b
  <2>3. (b >= 32) = c
    BY <2>1, <2>2
  <2>4. (b % 32 >= 16) = d
    BY <2>1, <2>2
  <2>5. QED
    BY <2>3, <2>4 DEF b
<1>5. QED
  BY <1>2, <1>3, <1>4

-----------------------------------------------------------------------------
LEMMA InitPacket ==
  ASSUME Init
  PROVE  PacketInv
<1>1. to_send \in Seq(Int)
  <2>1. CASE to_send = <<>>
    BY <2>1
  <2>2. CASE to_send \in {<<Bits(dx) % 64, Bits(dx) % 64>> : dx \in Moves}
    <3>1. PICK dx \in Moves : to_send = <<Bits(dx) % 64, Bits(dx) % 64>>
      BY <2>2
    <3>2. dx \in -128 .. 127
      BY MovesAssumption
    <3>3. Bits(dx) % 64 \in Int
      BY <3>2 DEF Bits
    <3>4. QED
      BY <3>1, <3>3
  <2>3. QED
    BY <2>1, <2>2 DEF Init
<1>2. QED
  BY <1>1 DEF Init, PacketInv, Types, Progress

(* The mouse begins a packet; a byte of the last one may still wait. *)
LEMMA NewPacketKeeps ==
  ASSUME PacketInv, NewPacket
  PROVE  PacketInv'
<1>1. packet' \in Packets /\ to_send' = Encoded(packet') /\ packets' = packets + 1
      /\ whole' = 0 /\ receive' = receive
  BY DEF NewPacket
<1>2. to_send' \in Seq(Int) /\ Len(to_send') = 3
  BY <1>1, Formats
<1>3. Types'
  BY <1>1, <1>2 DEF PacketInv, Types
<1>4. Coming' = 0
  BY <1>1 DEF Coming, PacketInv, Types
<1>5. Sending'
  BY <1>1, <1>2 DEF Sending
<1>6. Understood(0)'
  BY DEF Understood
<1>7. QED
  BY <1>1, <1>2, <1>3, <1>4, <1>5, <1>6 DEF PacketInv, Progress

(* A byte goes out.  It comes in the place of one that was not taken. *)
LEMMA SendByteKeeps ==
  ASSUME PacketInv, SendByte
  PROVE  PacketInv'
<1>1. /\ to_send # <<>> /\ to_send' = Tail(to_send)
      /\ receive' = <<[value |-> Head(to_send), of |-> packets]>>
      /\ UNCHANGED <<packets, decoder, info, packet, before, whole>>
  BY DEF SendByte
<1> DEFINE k == Len(to_send)
<1>2. to_send \in Seq(Int) /\ k \in Nat /\ k > 0
  BY <1>1 DEF PacketInv, Types
<1>3. /\ Head(to_send) = to_send[1] /\ Head(to_send) \in Int
      /\ Tail(to_send) \in Seq(Int) /\ Len(Tail(to_send)) = k - 1
      /\ \A i \in 1 .. k - 1 : Tail(to_send)[i] = to_send[i + 1]
  BY <1>1, <1>2
<1>4. Types'
  BY <1>1, <1>3 DEF PacketInv, Types, decoder
<1>5. receive'[1].value = Head(to_send) /\ receive'[1].of = packets' /\ receive' # <<>>
  BY <1>1
<1>6. Coming' = 1 /\ Coming \in {0, 1}
  BY <1>5 DEF Coming
<1>7. SUFFICES ASSUME packets > 0 PROVE Progress'
  BY <1>1, <1>4 DEF PacketInv, Progress
<1>8. Sending /\ whole + Coming + k <= 3 /\ whole \in Nat
  BY <1>7 DEF PacketInv, Types, Progress
<1>9. Sending'
  <2>1. \A i \in 1 .. k - 1 : to_send'[i] = Encoded(packet')[3 - (k - 1) + i]
    <3> TAKE i \in 1 .. k - 1
    <3>1. i + 1 \in 1 .. k /\ 3 - (k - 1) + i = 3 - k + (i + 1)
      BY <1>2
    <3>2. QED
      BY <1>1, <1>3, <1>8, <3>1 DEF Sending
  <2>2. QED
    BY <1>1, <1>3, <1>8, <2>1 DEF Sending
<1>10. ASSUME whole' + Coming' + Len(to_send') = 3
       PROVE  /\ receive'[1].value = Encoded(packet')[whole' + 1]
              /\ Understood(whole)'
  <2>1. Len(to_send') = k - 1 /\ whole' = whole
    BY <1>1, <1>3
  <2>2. whole + k = 3 /\ Coming = 0
    BY <1>2, <1>6, <1>8, <1>10, <2>1
  <2>3. 1 \in 1 .. k /\ 3 - k + 1 = whole + 1
    BY <1>2, <1>8, <2>2
  <2>4. Head(to_send) = Encoded(packet)[whole + 1]
    BY <1>3, <1>8, <2>3 DEF Sending
  <2>5. Understood(whole)
    BY <1>2, <1>7, <1>8, <2>2 DEF PacketInv, Progress
  <2>6. Understood(whole)'
    BY <1>1, <2>5 DEF Understood, Heads, decoder
  <2>7. QED
    BY <1>1, <1>5, <2>4, <2>6
<1>11. whole' + Coming' + Len(to_send') <= 3
  BY <1>1, <1>2, <1>3, <1>6, <1>8
<1>12. QED
  BY <1>1, <1>6, <1>9, <1>10, <1>11 DEF Progress

(* The handler understands the next byte of a packet that came in full. *)
LEMMA NextByte ==
  ASSUME packet \in Packets, whole \in 0 .. 2, Understood(whole),
         receive[1].value = Encoded(packet)[whole + 1], receive[1].of = packets,
         SerMouseIrq
  PROVE  Understood(whole)' /\ whole' = whole + 1
<1> DEFINE byte == receive[1].value
<1>1. /\ Decode(byte) /\ whole' = whole + 1 /\ packet' = packet
      /\ before' = IF byte >= 64 THEN info ELSE before
  BY DEF SerMouseIrq
<1> HIDE DEF byte
<1>2. CASE whole = 0
  <2>1. byte = Encoded(packet)[1]
    BY <1>2 DEF byte
  <2>2. Header(byte) /\ byte >= 64
    BY <2>1, Formats DEF Header
  <2>3. /\ cur_byte' = 1 /\ info' = info /\ before' = info
        /\ ser_buttons' = 16 * ((byte % 64) \div 16)
        /\ ser_x' = 64 * (byte % 4) /\ ser_y' = 64 * ((byte \div 4) % 4)
    BY <1>1, <2>2 DEF Decode
  <2>4. /\ ser_buttons' = 32 * Button(packet.left) + 16 * Button(packet.right)
        /\ ser_x' = 64 * (Bits(packet.dx) \div 64)
        /\ ser_y' = 64 * (Bits(packet.dy) \div 64)
    BY <2>1, <2>3, Formats
  <2>5. QED
    BY <1>1, <1>2, <2>3, <2>4 DEF Understood, Heads
<1>3. CASE whole = 1
  <2>1. byte = Encoded(packet)[2]
    BY <1>3 DEF byte
  <2>2. ~Header(byte) /\ ~(byte >= 64)
    BY <2>1, Formats DEF Header
  <2>3. cur_byte = 1 /\ Heads /\ ser_x = 64 * (Bits(packet.dx) \div 64)
    BY <1>3 DEF Understood
  <2>4. /\ cur_byte' = 2 /\ info' = info /\ before' = before
        /\ ser_buttons' = ser_buttons /\ ser_y' = ser_y
        /\ ser_x' = ser_x + (byte % 64)
    BY <1>1, <2>2, <2>3 DEF Decode
  <2>5. ser_x' = Bits(packet.dx)
    BY <2>1, <2>3, <2>4, Formats
  <2>6. QED
    BY <1>1, <1>3, <2>3, <2>4, <2>5 DEF Understood, Heads
<1>4. CASE whole = 2
  <2>1. byte = Encoded(packet)[3]
    BY <1>4 DEF byte
  <2>2. ~Header(byte) /\ ~(byte >= 64)
    BY <2>1, Formats DEF Header
  <2>3. cur_byte = 2 /\ Heads /\ ser_x = Bits(packet.dx)
    BY <1>4 DEF Understood
  <2>4. /\ ser_y' = ser_y + (byte % 64) /\ before' = before
        /\ info' = Moved(info, Signed(ser_x), Signed(ser_y'), ser_buttons >= 32,
                         ser_buttons % 32 >= 16)
    BY <1>1, <2>2, <2>3 DEF Decode
  <2>5. ser_y' = Bits(packet.dy)
    BY <2>1, <2>3, <2>4, Formats DEF Heads
  <2>6. /\ Signed(ser_x) = packet.dx /\ Signed(ser_y') = packet.dy
        /\ (ser_buttons >= 32) = packet.left /\ (ser_buttons % 32 >= 16) = packet.right
    BY <2>3, <2>5, Meaning DEF Heads
  <2>7. info' = Moved(before', packet'.dx, packet'.dy, packet'.left, packet'.right)
    BY <1>1, <2>3, <2>4, <2>6 DEF Heads
  <2>8. QED
    BY <1>1, <1>4, <2>7 DEF Understood
<1>5. QED
  BY <1>2, <1>3, <1>4

LEMMA SerMouseIrqKeeps ==
  ASSUME PacketInv, SerMouseIrq
  PROVE  PacketInv'
<1>1. /\ receive # <<>> /\ receive' = <<>>
      /\ whole' = IF receive[1].of = packets THEN whole + 1 ELSE whole
      /\ UNCHANGED <<to_send, packets, packet>>
  BY DEF SerMouseIrq, mouse
<1>2. Types'
  BY <1>1 DEF PacketInv, Types
<1>3. Coming' = 0 /\ Coming \in {0, 1} /\ whole' = whole + Coming /\ whole \in Nat
      /\ Len(to_send) \in Nat
  BY <1>1 DEF Coming, PacketInv, Types
<1>4. SUFFICES ASSUME packets > 0 PROVE Progress'
  BY <1>1, <1>2 DEF PacketInv, Progress
<1>5. Sending /\ whole + Coming + Len(to_send) <= 3
  BY <1>4 DEF PacketInv, Progress
<1>6. Sending'
  BY <1>1, <1>5 DEF Sending
<1>7. ASSUME whole + Coming + Len(to_send) = 3
      PROVE  Understood(whole)'
  <2>1. CASE Coming = 1
    <3>1. Understood(whole) /\ receive[1].value = Encoded(packet)[whole + 1]
      BY <1>4, <1>7, <2>1 DEF PacketInv, Progress
    <3>2. receive[1].of = packets /\ whole \in 0 .. 2
      BY <1>3, <1>7, <2>1 DEF Coming
    <3>3. QED
      BY <1>5, <3>1, <3>2, NextByte DEF Sending
  <2>2. CASE Coming = 0
    <3>1. whole = 0 /\ whole' = 0
      BY <1>1, <1>3, <1>4, <1>7, <2>2 DEF PacketInv, Progress
    <3>2. QED
      BY <3>1 DEF Understood
  <2>3. QED
    BY <1>3, <2>1, <2>2
<1>8. QED
  BY <1>1, <1>3, <1>5, <1>6, <1>7 DEF Progress

LEMMA PacketStep ==
  ASSUME PacketInv, [Next]_vars
  PROVE  PacketInv'
<1>1. CASE UNCHANGED vars
  BY <1>1 DEF vars, mouse, decoder, PacketInv, Types, Progress, Sending, Coming, Understood, Heads
<1>2. CASE Next
  BY <1>2, NewPacketKeeps, SendByteKeeps, SerMouseIrqKeeps DEF Next
<1>3. QED
  BY <1>1, <1>2

(* A packet whose three bytes were handled has moved the pointer by what it
   means and set the buttons, for all movements of eight bits: a header puts the
   decoder in step, whatever was overrun before it. *)
THEOREM MousePacketApplied == Spec => []PacketApplied
<1>1. Init => PacketInv
  BY InitPacket
<1>2. PacketInv /\ [Next]_vars => PacketInv'
  BY PacketStep
<1>3. PacketInv => PacketApplied
  <2> SUFFICES ASSUME PacketInv, to_send = <<>>, receive = <<>>, packets > 0, whole = 3
               PROVE  info = Moved(before, packet.dx, packet.dy, packet.left, packet.right)
    BY DEF PacketApplied
  <2>1. Coming = 0 /\ Len(to_send) = 0
    BY DEF Coming
  <2>2. Understood(3)
    BY <2>1 DEF PacketInv, Progress
  <2>3. QED
    BY <2>2 DEF Understood
<1>4. QED
  BY <1>1, <1>2, <1>3, PTL DEF Spec

-----------------------------------------------------------------------------
(* Type correctness.  cur_byte is moved on by every byte and goes back only
   where a packet begins, so that it is bounded by the bytes that were sent; and
   a third byte is added to what a first one has left. *)
High == {0, 64, 128, 192}

(* Bytes that are no part of a packet have no bit 6. *)
Sent(i) == i >= 64 => packets > 0

Left ==
  /\ packets \in 0 .. MaxPackets
  /\ to_send \in Seq(Nat) /\ Len(to_send) <= 3
  /\ \A i \in 1 .. Len(to_send) : Sent(to_send[i])
  /\ \/ receive = <<>>
     \/ \E v \in Nat, p \in Int : receive = <<[value |-> v, of |-> p]>> /\ Sent(v)
  /\ packets = 0 => Len(to_send) <= 2

Screen == [x : 0 .. 79, y : 0 .. 24, left : BOOLEAN, right : BOOLEAN]

Held ==
  /\ cur_byte \in Int /\ cur_byte >= -1
  /\ cur_byte + 1 + Len(receive) + Len(to_send) <= 2 + 3 * packets
  /\ ser_x \in 0 .. 255 /\ ser_y \in 0 .. 255 /\ ser_buttons \in {0, 16, 32, 48}
  /\ cur_byte = 1 => ser_x \in High /\ ser_y \in High
  /\ cur_byte = 2 => ser_y \in High
  /\ info \in Screen

TypeInv == Left /\ Held

LEMMA EncodedBytes ==
  ASSUME NEW p \in Packets
  PROVE  Encoded(p) \in Seq(Nat) /\ Len(Encoded(p)) = 3
<1>1. /\ p.dx \in Int /\ p.dy \in Int
      /\ Button(p.left) \in 0 .. 1 /\ Button(p.right) \in 0 .. 1
  <2>1. p.dx \in Moves /\ p.dy \in Moves
    BY DEF Packets
  <2>2. Button(p.left) \in 0 .. 1 /\ Button(p.right) \in 0 .. 1
    BY DEF Button
  <2>3. \A n \in Moves : n \in Int
    BY MovesAssumption
  <2> QED
    BY <2>1, <2>2, <2>3
<1>2. Bits(p.dx) \in 0 .. 255 /\ Bits(p.dy) \in 0 .. 255
  BY <1>1 DEF Bits
<1>3. /\ Bits(p.dx) \div 64 \in Nat /\ Bits(p.dy) \div 64 \in Nat
      /\ Bits(p.dx) % 64 \in Nat /\ Bits(p.dy) % 64 \in Nat
  BY <1>2
<1>4. QED
  BY <1>1, <1>3 DEF Encoded

LEMMA InitTypes ==
  ASSUME Init
  PROVE  TypeInv
<1>1. /\ packets = 0 /\ receive = <<>> /\ cur_byte = -1 /\ ser_x = 0 /\ ser_y = 0
      /\ ser_buttons = 0 /\ info \in Screen
  BY DEF Init, Screen
<1>2. to_send \in Seq(Nat) /\ Len(to_send) <= 2 /\ \A i \in 1 .. Len(to_send) : to_send[i] < 64
  <2>1. CASE to_send = <<>>
    BY <2>1
  <2>2. ASSUME NEW dx \in Moves, to_send = <<Bits(dx) % 64, Bits(dx) % 64>>
        PROVE  /\ to_send \in Seq(Nat) /\ Len(to_send) <= 2
               /\ \A i \in 1 .. Len(to_send) : to_send[i] < 64
    <3>1. dx \in Int /\ Bits(dx) \in Nat
      BY MovesAssumption DEF Bits
    <3>2. Bits(dx) % 64 \in 0 .. 63
      BY <3>1
    <3> QED
      BY <2>2, <3>2
  <2> QED
    BY <2>1, <2>2 DEF Init
<1>3. QED
  BY <1>1, <1>2, PacketsAssumption DEF TypeInv, Left, Held, Sent, High

LEMMA NewPacketTyped ==
  ASSUME TypeInv, NewPacket
  PROVE  TypeInv'
<1>1. /\ to_send = <<>> /\ packets < MaxPackets /\ packets' = packets + 1
      /\ to_send' \in Seq(Nat) /\ Len(to_send') = 3
      /\ UNCHANGED <<receive, decoder, info>>
  BY EncodedBytes DEF NewPacket
<1>2. packets \in Nat /\ packets' \in 0 .. MaxPackets /\ packets' > 0
  BY <1>1, PacketsAssumption DEF TypeInv, Left
<1>3. Left'
  BY <1>1, <1>2 DEF TypeInv, Left, Sent
<1>4. Len(to_send) = 0 /\ Len(receive) \in Nat
  BY <1>1 DEF TypeInv, Left
<1>5. QED
  BY <1>1, <1>2, <1>3, <1>4 DEF TypeInv, Held, decoder

LEMMA SendByteTyped ==
  ASSUME TypeInv, SendByte
  PROVE  TypeInv'
<1> DEFINE k == Len(to_send)
<1>1. /\ to_send # <<>> /\ to_send' = Tail(to_send)
      /\ receive' = <<[value |-> Head(to_send), of |-> packets]>>
      /\ UNCHANGED <<packets, decoder, info>>
  BY DEF SendByte
<1>2. to_send \in Seq(Nat) /\ k \in Nat /\ k > 0 /\ packets \in Int
  BY <1>1 DEF TypeInv, Left
<1>3. /\ Head(to_send) = to_send[1] /\ Head(to_send) \in Nat
      /\ Tail(to_send) \in Seq(Nat) /\ Len(Tail(to_send)) = k - 1
      /\ \A i \in 1 .. k - 1 : Tail(to_send)[i] = to_send[i + 1]
  BY <1>1, <1>2
<1>4. Sent(Head(to_send)) /\ \A i \in 1 .. k - 1 : Sent(to_send[i + 1])
  BY <1>2, <1>3 DEF TypeInv, Left
<1>5. Left'
  <2>1. \A i \in 1 .. Len(to_send') : Sent(to_send'[i])
    BY <1>1, <1>3, <1>4
  <2>2. Sent(Head(to_send)) /\ packets' = packets /\ Len(to_send') = k - 1 /\ to_send' \in Seq(Nat)
    BY <1>1, <1>3, <1>4
  <2>3. packets \in 0 .. MaxPackets /\ k <= 3 /\ (packets = 0 => k <= 2)
    BY DEF TypeInv, Left
  <2>4. \E v \in Nat, p \in Int : receive' = <<[value |-> v, of |-> p]>> /\ Sent(v)
    BY <1>1, <1>2, <1>3, <2>2
  <2> QED
    BY <1>2, <2>1, <2>2, <2>3, <2>4 DEF Left, Sent
<1>6. Len(receive') = 1 /\ Len(receive) \in Nat
  BY <1>1 DEF TypeInv, Left
<1>7. /\ cur_byte' = cur_byte /\ ser_x' = ser_x /\ ser_y' = ser_y /\ ser_buttons' = ser_buttons
      /\ info' = info /\ packets' = packets /\ Len(to_send') = k - 1
  BY <1>1, <1>3 DEF decoder
<1>8. cur_byte' + 1 + Len(receive') + Len(to_send') <= 2 + 3 * packets'
  BY <1>2, <1>6, <1>7 DEF TypeInv, Held
<1>9. QED
  BY <1>5, <1>7, <1>8 DEF TypeInv, Held

LEMMA SerMouseIrqTyped ==
  ASSUME TypeInv, SerMouseIrq
  PROVE  TypeInv'
<1>1. PICK byte \in Nat, p \in Int : receive = <<[value |-> byte, of |-> p]>> /\ Sent(byte)
  BY DEF TypeInv, Left, SerMouseIrq
<1>2. /\ receive' = <<>> /\ Decode(byte) /\ UNCHANGED <<to_send, packets>>
      /\ Len(receive) = 1 /\ Len(receive') = 0
  BY <1>1 DEF SerMouseIrq, mouse
<1>3. Left'
  BY <1>2 DEF TypeInv, Left, Sent
<1> DEFINE cur == IF Header(byte) THEN 0 ELSE cur_byte
           low == byte % 64
<1>4. /\ low \in 0 .. 63 /\ 16 * (low \div 16) \in {0, 16, 32, 48}
      /\ 64 * (byte % 4) \in High /\ 64 * ((byte \div 4) % 4) \in High
  <2>1. byte % 4 \in 0 .. 3 /\ byte \div 4 \in Nat /\ low \in 0 .. 63
    OBVIOUS
  <2>2. (byte \div 4) % 4 \in 0 .. 3
    BY <2>1
  <2>3. low \div 16 \in 0 .. 3
    BY <2>1
  <2> QED
    BY <2>1, <2>2, <2>3 DEF High
<1> HIDE DEF low
<1>5. /\ cur_byte' = cur + 1 /\ cur \in Int /\ cur >= -1
      /\ ser_buttons' = (IF cur = 0 THEN 16 * (low \div 16) ELSE ser_buttons)
      /\ ser_x' = (CASE cur = 0 -> 64 * (byte % 4) [] cur = 1 -> ser_x + low [] OTHER -> ser_x)
      /\ ser_y' = (CASE cur = 0 -> 64 * ((byte \div 4) % 4) [] cur = 2 -> ser_y + low
                     [] OTHER -> ser_y)
  BY <1>2 DEF Decode, TypeInv, Held, low
<1>6. cur_byte' + 1 + Len(receive') + Len(to_send') <= 2 + 3 * packets'
  <2>1. packets \in Nat /\ Len(to_send) \in Nat /\ Len(to_send) <= 3
    BY DEF TypeInv, Left
  <2>2. CASE Header(byte)
    <3>1. packets > 0
      BY <1>1, <2>2 DEF Header, Sent
    <3>2. cur_byte' = 1
      BY <1>5, <2>2
    <3> QED
      BY <1>2, <2>1, <3>1, <3>2
  <2>3. CASE ~Header(byte)
    BY <1>2, <1>5, <2>1, <2>3 DEF TypeInv, Held
  <2> QED
    BY <2>2, <2>3
<1>7. /\ cur = 1 => ser_x \in High /\ ser_y \in High
      /\ cur = 2 => ser_y \in High
      /\ ser_x \in 0 .. 255 /\ ser_y \in 0 .. 255 /\ ser_buttons \in {0, 16, 32, 48}
  BY DEF TypeInv, Held
<1>8. info' \in Screen
  <2>1. info \in Screen
    BY DEF TypeInv, Held
  <2>2. ASSUME NEW dx \in Int, NEW dy \in Int, NEW l \in BOOLEAN, NEW r \in BOOLEAN
        PROVE  Moved(info, dx, dy, l, r) \in Screen
    <3>1. info.x \in Int /\ info.y \in Int
      BY <2>1 DEF Screen
    <3> QED
      BY <3>1 DEF Moved, Clip, Screen
  <2>3. CASE cur # 2
    BY <1>2, <2>1, <2>3 DEF Decode
  <2>4. CASE cur = 2
    <3>1. ser_y' \in Int
      BY <1>4, <1>5, <1>7
    <3>2. Signed(ser_x) \in Int /\ Signed(ser_y') \in Int
      BY <1>7, <3>1 DEF Signed
    <3>3. info' = Moved(info, Signed(ser_x), Signed(ser_y'), ser_buttons >= 32,
                        ser_buttons % 32 >= 16)
      BY <1>2, <2>4 DEF Decode
    <3>4. (ser_buttons >= 32) \in BOOLEAN /\ (ser_buttons % 32 >= 16) \in BOOLEAN
      OBVIOUS
    <3> QED
      BY <2>2, <3>2, <3>3, <3>4
  <2> QED
    BY <2>3, <2>4
<1> HIDE DEF cur
<1>9. CASE cur = 0
  <2>1. ser_x' \in High /\ ser_y' \in High /\ ser_buttons' \in {0, 16, 32, 48}
    BY <1>4, <1>5, <1>9
  <2>2. ser_x' \in 0 .. 255 /\ ser_y' \in 0 .. 255 /\ cur_byte' = 1
    BY <1>5, <1>9, <2>1 DEF High
  <2> QED
    BY <1>3, <1>6, <1>8, <2>1, <2>2 DEF TypeInv, Held
<1>10. CASE cur = 1
  <2>1. ser_x' = ser_x + low /\ ser_y' = ser_y /\ ser_buttons' = ser_buttons
    BY <1>5, <1>10
  <2>2. ser_x' \in 0 .. 255
    BY <1>4, <1>7, <1>10, <2>1 DEF High
  <2> QED
    BY <1>3, <1>5, <1>6, <1>7, <1>8, <1>10, <2>1, <2>2 DEF TypeInv, Held
<1>11. CASE cur = 2
  <2>1. ser_y' = ser_y + low /\ ser_x' = ser_x /\ ser_buttons' = ser_buttons
    BY <1>5, <1>11
  <2>2. ser_y' \in 0 .. 255
    BY <1>4, <1>7, <1>11, <2>1 DEF High
  <2> QED
    BY <1>3, <1>5, <1>6, <1>7, <1>8, <1>11, <2>1, <2>2 DEF TypeInv, Held
<1>12. CASE cur \notin 0 .. 2
  <2>1. ser_y' = ser_y /\ ser_x' = ser_x /\ ser_buttons' = ser_buttons
    BY <1>5, <1>12
  <2>2. cur_byte' \in Int /\ cur_byte' >= -1 /\ cur_byte' \notin {1, 2}
    BY <1>5, <1>12
  <2> QED
    BY <1>3, <1>6, <1>7, <1>8, <2>1, <2>2 DEF TypeInv, Held
<1> QED
  BY <1>5, <1>9, <1>10, <1>11, <1>12

(* The variables of the mouse and of ser_mouse_irq have their values: the byte
   counter grows with no bound but the number of bytes, the movements put
   together stay within eight bits, and the pointer on the screen. *)
THEOREM MouseTypes == Spec => []TypeOK
<1>1. Init => TypeInv
  BY InitTypes
<1>2. TypeInv /\ [Next]_vars => TypeInv'
  <2>1. TypeInv /\ UNCHANGED vars => TypeInv'
    BY DEF vars, mouse, decoder, TypeInv, Left, Held, Sent
  <2> QED
    BY <2>1, NewPacketTyped, SendByteTyped, SerMouseIrqTyped DEF Next
<1>3. TypeInv => TypeOK
  <2> SUFFICES ASSUME TypeInv
               PROVE  TypeOK
    OBVIOUS
  <2>1. Len(to_send) \in Nat /\ Len(receive) \in 0 .. 1 /\ packets \in 0 .. MaxPackets
    BY DEF TypeInv, Left
  <2>2. cur_byte \in -1 .. 3 * MaxPackets + 2
    BY <2>1, PacketsAssumption DEF TypeInv, Held
  <2>3. Len(to_send) <= 3
    BY DEF TypeInv, Left
  <2>4. Len(receive) <= 1
    <3>1. CASE receive = <<>>
      BY <3>1
    <3>2. ASSUME NEW v \in Nat, NEW p \in Int, receive = <<[value |-> v, of |-> p]>>
          PROVE  Len(receive) <= 1
      BY <3>2
    <3> QED
      BY <3>1, <3>2 DEF TypeInv, Left
  <2>5. {ser_x, ser_y} \subseteq 0 .. 255 /\ ser_buttons \in {0, 16, 32, 48} /\ info \in Screen
    BY DEF TypeInv, Held
  <2> QED
    BY <2>2, <2>3, <2>4, <2>5 DEF Screen, TypeOK
<1>4. QED
  BY <1>1, <1>2, <1>3, PTL DEF Spec
=============================================================================
