---------------------------- MODULE SerialState ----------------------------
(***************************************************************************)
(* The state of the mouse, the serial port and ser_mouse_irq, and what is  *)
(* promised of a packet.                                                   *)
(***************************************************************************)
EXTENDS Integers, Sequences

CONSTANTS
  Moves,        \* movements along an axis, in -128 .. 127
  MaxPackets    \* bound: packets after the one that is under way

(* A movement has eight bits in a packet. *)
ASSUME MovesAssumption == Moves \subseteq -128 .. 127
ASSUME PacketsAssumption == MaxPackets \in Nat

VARIABLES
  to_send,      \* the rest of the packet the mouse sends
  packets,
  receive,      \* the receive register of the port, and whose packet the byte is of
  cur_byte, ser_x, ser_y, ser_buttons,
  info,         \* the position and the buttons the program prints
  packet,       \* history: what the packet under way means
  before,       \* history: the position when its first byte was handled
  whole         \* history: how many of its bytes were handled

-----------------------------------------------------------------------------
(* A movement moves the pointer on the screen of 80 by 25. *)
Clip(n, most) == IF n < 0 THEN 0 ELSE IF n > most THEN most ELSE n

Moved(from, dx, dy, left, right) ==
  [x |-> Clip(from.x + dx, 79), y |-> Clip(from.y + dy, 24), left |-> left, right |-> right]

(* A packet that came in full has moved the pointer by what it means and set
   the buttons, whatever was lost or out of step before it ("we are ignoring
   anything until the first packet byte"). *)
PacketApplied ==
  to_send = <<>> /\ receive = <<>> /\ packets > 0 /\ whole = 3 =>
    info = Moved(before, packet.dx, packet.dy, packet.left, packet.right)
=============================================================================
