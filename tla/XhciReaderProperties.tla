------------------------- MODULE XhciReaderProperties -------------------------
(***************************************************************************)
(* What the program may rely on although it polls memory, gives up after   *)
(* two seconds, and goes on while the controller has old work left.        *)
(***************************************************************************)
EXTENDS XhciReader

(* What xhci_reset_port relies on when it makes the companion active: "it will be
   paired since all USB3 ports must be USB2 compatible". *)
ASSUME PairAssumption ==
  \A items \in Layouts : \A p \in Ports(items) :
    Version(items, p) = 3 => Companions(items, p) # {}

\* The variables have these values.
TypeOK ==
  /\ pc \in {"loop", "send", "write_1", "write_2", "doorbell", "wait", "data", "status",
             "answer", "reset", "done", "exit"}
  /\ pass \in {2, 3} /\ port \in 0 .. Ndp
  /\ step \in {"none", "ENABLE_SLOT", "ADDRESS_1", "IN_8", "ADDRESS_2", "IN_18"}
  /\ \A p \in DOMAIN port_info :
       port_info[p] \in [usb3 : BOOLEAN, pair : BOOLEAN, active : BOOLEAN,
                         other_port_num : DOMAIN port_info]
  /\ cur_heap_ptr \in Nat /\ cmnd_trb \in 0 .. Last /\ cmnd_trb_cycle \in {0, 1}
  /\ org_trb \in 0 .. Last /\ slot_id \in Nat /\ status_addr \in Nat
  /\ ring \in [0 .. Last -> [type : {"none", "ENABLE_SLOT", "ADDRESS_DEVICE", "LINK"},
                             param : Nat, cycle : {0, 1}, done : BOOLEAN, slot : Nat]]
  /\ \A a \in DOMAIN dword : dword[a] \in {"zero", "ok", "error"}
  /\ ctrl \in [at : 0 .. Last, running : BOOLEAN, slots : Nat]

(* A command is marked as done only if the controller has executed that very
   command, and with the slot it granted, however late the answer came and
   whatever the program does by then (xhci_irq writes to the TRB the event
   names, not to the one the program waits for). *)
AnswersMatch ==
  \A i \in 0 .. Last :
    ring[i].done => \E c \in history.completed : c.trb = i /\ c.slot = ring[i].slot

(* A descriptor the program prints is what this transfer has delivered: the
   late answer of one that timed out is never taken for it. *)
ReadsAreDelivered == history.accepted \subseteq history.delivered

(* The controller, which may be at work on older commands, never executes a
   command whose parameter is not there yet ("must write param and status
   fields to the ring before the command field"). *)
NeverTorn == ~history.torn

(* The command ring is used once from the front and never wraps: what is
   behind the program's place is not valid yet, and the controller is never
   past it.  A TRB is therefore never used again. *)
RingInOrder ==
  /\ cmnd_trb < Last /\ ctrl.at <= cmnd_trb
  /\ \A i \in cmnd_trb + 1 .. Last - 1 : ring[i] = NoTrb

(* Of two ports that are one socket, the USB2 port is not touched if the USB3
   port worked to the last; and when all is done, every USB3 port that has power
   and could not be reset has had its companion tried ("mark the USB2 port as
   active"). *)
OneOfPair ==
  \A p \in DOMAIN port_info :
    LET other == resets[port_info[p].other_port_num]
    IN  port_info[p].usb3 =>
          /\ port_info[p].pair /\ resets[p] = "ok" /\ pass = 2 => other = "none"
          /\ pc = "done" /\ resets[p] = "failed" => other # "none"

(* Whatever the controller does not answer, the program comes to its end. *)
Ends == <>(pc \in {"done", "exit"})
=============================================================================
