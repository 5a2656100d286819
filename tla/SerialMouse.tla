---------------------------- MODULE SerialMouse ----------------------------
(***************************************************************************)
(* ser_mouse_irq of serial.c: the interrupt handler puts a two button      *)
(* mouse's packets of three bytes together.  The mouse may be in the       *)
(* middle of a packet when the port is activated, and the port holds one   *)
(* byte, which the next one replaces when the handler is late.             *)
(***************************************************************************)
EXTENDS SerialState

mouse   == <<to_send, packets>>
decoder == <<cur_byte, ser_x, ser_y, ser_buttons>>
vars    == <<mouse, receive, decoder, info, packet, before, whole>>

(* The format in the comment of ser_mouse_irq. *)
Bits(n)   == n % 256
Button(b) == IF b THEN 1 ELSE 0
Encoded(p) ==
  <<64 + 32 * Button(p.left) + 16 * Button(p.right) + 4 * (Bits(p.dy) \div 64) + Bits(p.dx) \div 64,
    Bits(p.dx) % 64, Bits(p.dy) % 64>>

Packets == [dx : Moves, dy : Moves, left : BOOLEAN, right : BOOLEAN]
Still   == [dx |-> 0, dy |-> 0, left |-> FALSE, right |-> FALSE]

(* ser_activate *)
Init ==
  /\ to_send \in {<<>>} \cup {<<Bits(dx) % 64, Bits(dx) % 64>> : dx \in Moves}
  /\ packets = 0
  /\ receive = <<>>
  /\ cur_byte = -1 /\ ser_x = 0 /\ ser_y = 0 /\ ser_buttons = 0
  /\ info = [x |-> 0, y |-> 0, left |-> FALSE, right |-> FALSE]
  /\ packet = Still /\ before = info /\ whole = 0

-----------------------------------------------------------------------------
NewPacket ==
  /\ to_send = <<>>
  /\ packets < MaxPackets /\ packets' = packets + 1
  /\ packet' \in Packets
  /\ to_send' = Encoded(packet')
  /\ whole' = 0
  /\ UNCHANGED <<receive, decoder, info, before>>

(* A byte that was not taken in time is overrun. *)
SendByte ==
  /\ to_send # <<>>
  /\ to_send' = Tail(to_send)
  /\ receive' = <<[value |-> Head(to_send), of |-> packets]>>
  /\ UNCHANGED <<packets, decoder, info, packet, before, whole>>

-----------------------------------------------------------------------------
Slip_Header(byte) == byte >= 64 /\ cur_byte = -1
Header(byte) == byte >= 64

Signed(n) == IF n >= 128 THEN n - 256 ELSE n

(* The byte goes where cur_byte says, which also a byte that is ignored moves
   on.  The third byte updates what is printed. *)
Decode(byte) ==
  LET cur == IF Header(byte) THEN 0 ELSE cur_byte
      low == byte % 64
  IN  /\ cur_byte' = cur + 1
      /\ ser_buttons' = IF cur = 0 THEN 16 * (low \div 16) ELSE ser_buttons
      /\ ser_x' = CASE cur = 0 -> 64 * (byte % 4) [] cur = 1 -> ser_x + low [] OTHER -> ser_x
      /\ ser_y' = CASE cur = 0 -> 64 * ((byte \div 4) % 4) [] cur = 2 -> ser_y + low
                    [] OTHER -> ser_y
      /\ info' = IF cur = 2
                 THEN Moved(info, Signed(ser_x), Signed(ser_y'), ser_buttons >= 32,
                            ser_buttons % 32 >= 16)
                 ELSE info

SerMouseIrq ==
  /\ receive # <<>>
  /\ receive' = <<>>
  /\ Decode(receive[1].value)
  /\ whole' = IF receive[1].of = packets THEN whole + 1 ELSE whole
  /\ before' = IF receive[1].value >= 64 THEN info ELSE before
  /\ UNCHANGED <<mouse, packet>>

Next == NewPacket \/ SendByte \/ SerMouseIrq

Spec == Init /\ [][Next]_vars

-----------------------------------------------------------------------------
\* The variables have these values.
TypeOK ==
  /\ Len(to_send) <= 3 /\ Len(receive) <= 1 /\ cur_byte \in -1 .. 3 * MaxPackets + 2
  /\ {ser_x, ser_y} \subseteq 0 .. 255 /\ ser_buttons \in {0, 16, 32, 48}
  /\ info \in [x : 0 .. 79, y : 0 .. 24, left : BOOLEAN, right : BOOLEAN]
=============================================================================
