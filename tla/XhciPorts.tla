------------------------------ MODULE XhciPorts ------------------------------
(***************************************************************************)
(* port_info of gd_xhci.c.  A socket has two sets of port registers, one   *)
(* per protocol.  The protocol capabilities of the controller say which    *)
(* ports are USB2 and which USB3, possibly in several pieces; the k-th     *)
(* port of one protocol is the companion of the k-th of the other.         *)
(***************************************************************************)
EXTENDS Integers, FiniteSets

\* Items: the list of capabilities, each [version, first, count].
Covers(item, p) == p \in item.first .. item.first + item.count - 1
ItemOf(items, p) == CHOOSE k \in DOMAIN items : Covers(items[k], p)
Version(items, p) == items[ItemOf(items, p)].version
Ports(items) == {p \in 0 .. 255 : \E k \in DOMAIN items : Covers(items[k], p)}

(* How many ports of its protocol were found before p. *)
Offset(items, p) ==
  Cardinality({q \in Ports(items) :
    /\ Version(items, q) = Version(items, p)
    /\ \/ ItemOf(items, q) < ItemOf(items, p)
       \/ ItemOf(items, q) = ItemOf(items, p) /\ q < p})

Slip_Companions(items, p) ==
  {q + 1 : q \in {r \in Ports(items) :
    Version(items, r) # Version(items, p) /\ Offset(items, r) = Offset(items, p)}}
Companions(items, p) ==
  {q \in Ports(items) :
    Version(items, q) # Version(items, p) /\ Offset(items, q) = Offset(items, p)}

(* port_info after process_xhci has read the capabilities: the last
   assignment to other_port_num stays, and without a companion it is 0. *)
PortInfo(items) ==
  [p \in Ports(items) |->
    LET usb3  == Version(items, p) = 3
        other == Companions(items, p)
    IN  [usb3 |-> usb3,
         pair |-> other # {},
         other_port_num |-> IF other = {} THEN 0
                            ELSE CHOOSE q \in other : \A r \in other : r <= q,
         active |-> usb3 \/ other = {}]]

-----------------------------------------------------------------------------
(* What xhci_reset_port does to port_info once the port has power. *)
Slip_AfterResetBoth(info, p, ok) ==
  IF info[p].usb3 THEN [info EXCEPT ![info[p].other_port_num].active = TRUE] ELSE info
AfterReset(info, p, ok) ==
  LET other == info[p].other_port_num
  IN  CASE ok /\ ~info[p].usb3 ->
             [q \in DOMAIN info |->
               [info[q] EXCEPT !.active =
                 IF q = p THEN TRUE ELSE @ /\ ~(info[p].pair /\ q = other)]]
        [] ~ok /\ info[p].usb3 ->
             [q \in DOMAIN info |->
               [info[q] EXCEPT !.active = IF q = other THEN TRUE ELSE @ /\ q # p]]
        [] OTHER -> info
=============================================================================
