----------------------------- MODULE XhciReader -----------------------------
(***************************************************************************)
(* gd_xhci.c: the program resets every port of an xHCI controller and      *)
(* reads the descriptor of the device behind it.  Three actors: the        *)
(* program, which writes commands on the command ring and transfers on the *)
(* ring of an endpoint, and polls memory for an answer until it runs out   *)
(* of time; the controller, which takes them from the rings when it likes  *)
(* and puts events on the event ring; and the interrupt handler, which     *)
(* marks in memory what the events say.  A time-out is a step that may     *)
(* come at any moment of a wait.                                           *)
(***************************************************************************)
EXTENDS XhciPorts, DmaHeap, Sequences

CONSTANTS
  Layouts,         \* lists of protocol capabilities of the controllers
  CMND_RING_TRBS,
  TRBS_PER_RING,
  EVENT_TRBS,      \* TRBs of the event ring
  PageSize,
  ContextSize,     \* 32 or 64 bytes
  ScratchBuffers,  \* scratchpad pages the controller asks for
  MaxFailures      \* bound: failed commands, transfers and port resets

(* process_xhci asks for capabilities of versions 2 and 3.  port_info has room
   for 16 ports, and the controller has that many at most (HCSPARAMS1 and the
   capabilities agree).  create_ring takes room for 128 commands. *)
ASSUME LayoutAssumption ==
  \A items \in Layouts :
    /\ items \in Seq([version : {2, 3}, first : 0 .. 255, count : 0 .. 255])
    /\ \E n \in 1 .. 16 : Ports(items) = 0 .. n - 1 /\ 6 * n + 1 < CMND_RING_TRBS

ASSUME SizeAssumption ==
  /\ {CMND_RING_TRBS, TRBS_PER_RING, EVENT_TRBS, PageSize, ContextSize} \subseteq Nat \ {0}
  /\ {ScratchBuffers, MaxFailures} \subseteq Nat

VARIABLES
  pc,              \* what the program does next
  pass,            \* 3 in the loop over the USB3 ports, then 2
  port,            \* the port of xhci_get_descriptor
  step,            \* which call of xhci_get_descriptor is in progress
  port_info,
  cur_heap_ptr,
  cmnd_trb,        \* index of the next free TRB of the command ring
  cmnd_trb_cycle,
  org_trb,         \* index of the TRB xhci_send_command waits for
  trb,             \* the command being sent
  slot_id,
  status_addr,     \* the dword xhci_wait_for_interrupt looks at
  ring,            \* the command ring in memory
  dword,           \* the status dwords in memory
  ctrl,            \* the controller: its place on the command ring
  xfers,           \* per slot, the Event Data TRBs of its endpoint
  events,          \* events posted and not handled
  failures,
  resets,          \* history: the last outcome of xhci_reset_port, per port
  history          \* history: what was executed, and what was taken for an answer

sending == <<cmnd_trb, cmnd_trb_cycle, org_trb, trb>>
answer  == <<slot_id, status_addr>>
program == <<pc, pass, port, step, port_info, cur_heap_ptr, sending, answer>>
memory  == <<ring, dword>>
device  == <<ctrl, xfers, events, failures>>
ghosts  == <<resets, history>>
vars    == <<program, memory, device, ghosts>>

NoTrb   == [type |-> "none", param |-> 0, cycle |-> 0, done |-> FALSE, slot |-> 0]
LinkTrb == [NoTrb EXCEPT !.type = "LINK", !.cycle = 1]
Last    == CMND_RING_TRBS - 1

(* What process_xhci allocates before it looks at a port: the array of slots,
   scratchpads, the command ring, the event ring and its table. *)
StartAllocations ==
  LET dcbaa   == BlockEnd(0, 2048, 64, PageSize)
      array   == BlockEnd(dcbaa, ScratchBuffers * 8, 64, PageSize)
      scratch == IF ScratchBuffers > 0
                 THEN BlockEnd(array, ScratchBuffers * PageSize, PageSize, 0) ELSE dcbaa
      command == BlockEnd(scratch, CMND_RING_TRBS * 16, 64, 65536)
      table   == BlockEnd(command, 64, 64, 0)
  IN  BlockEnd(table, EVENT_TRBS * 16, 64, 65536)

Init ==
  /\ \E items \in Layouts : port_info = PortInfo(items)
  /\ pc = "loop" /\ pass = 3 /\ port = 0 /\ step = "none"
  /\ cur_heap_ptr = StartAllocations
  /\ cmnd_trb = 0 /\ cmnd_trb_cycle = 1 /\ org_trb = 0
  /\ trb = [type |-> "ENABLE_SLOT", param |-> 0, slot |-> 0]
  /\ slot_id = 0 /\ status_addr = 0
  /\ ring = [i \in 0 .. Last |-> IF i = Last THEN LinkTrb ELSE NoTrb]
  /\ dword = <<>>
  /\ ctrl = [at |-> 0, running |-> FALSE, slots |-> 0]
  /\ xfers = <<>>
  /\ events = <<>>
  /\ failures = 0
  /\ resets = [p \in DOMAIN port_info |-> "none"]
  /\ history = [completed |-> {}, delivered |-> {}, accepted |-> {}, torn |-> FALSE]

Ndp == Cardinality(DOMAIN port_info)

-----------------------------------------------------------------------------
(* The program: the loops of process_xhci. *)

Selected == port_info[port].usb3 = (pass = 3) /\ port_info[port].active

SkipPort ==
  /\ pc = "loop" /\ port < Ndp /\ ~Selected
  /\ port' = port + 1
  /\ UNCHANGED <<pc, pass, step, port_info, cur_heap_ptr, sending, answer, memory, device,
                 ghosts>>

EndOfPorts ==
  /\ pc = "loop" /\ port = Ndp
  /\ IF pass = 3 THEN pass' = 2 /\ port' = 0 /\ pc' = pc
                 ELSE pc' = "done" /\ UNCHANGED <<pass, port>>
  /\ UNCHANGED <<step, port_info, cur_heap_ptr, sending, answer, memory, device, ghosts>>

(* xhci_reset_port.  Without power it returns before it looks at the
   companion; otherwise the companion may be made active or inactive. *)
ResetPort(outcome) ==
  /\ failures' = IF outcome = "ok" THEN failures ELSE failures + 1
  /\ failures' <= MaxFailures
  /\ resets' = [resets EXCEPT ![port] = outcome]
  /\ port_info' = IF outcome = "unpowered" THEN port_info
                  ELSE AfterReset(port_info, port, outcome = "ok")
  /\ UNCHANGED <<pass, cur_heap_ptr, sending, answer, memory, ctrl, xfers, events, history>>

FirstReset(outcome) ==
  /\ pc = "loop" /\ port < Ndp /\ Selected
  /\ ResetPort(outcome)
  /\ IF outcome = "ok" THEN pc' = "send" /\ step' = "ENABLE_SLOT" /\ port' = port
                       ELSE port' = port + 1 /\ UNCHANGED <<pc, step>>

(* The second reset, whose outcome xhci_get_descriptor does not look at. *)
SecondReset(outcome) ==
  /\ pc = "reset"
  /\ ResetPort(outcome)
  /\ pc' = "send" /\ step' = "ADDRESS_2" /\ port' = port

(* xhci_get_descriptor returns, and the loop goes on. *)
NextPort == pc' = "loop" /\ port' = port + 1 /\ step' = "none"

-----------------------------------------------------------------------------
(* xhci_send_command, a step for every write the controller can see. *)

(* A command without a parameter, or xhci_set_address, which takes memory for
   the input context first. *)
Compose ==
  /\ pc = "send"
  /\ IF step = "ENABLE_SLOT"
     THEN /\ pc' = "write_1"
          /\ trb' = [type |-> "ENABLE_SLOT", param |-> 0, slot |-> 0]
          /\ UNCHANGED cur_heap_ptr
     ELSE IF OutOfBounds(cur_heap_ptr, ContextSize * 32, 64, PageSize)
     THEN pc' = "exit" /\ UNCHANGED <<cur_heap_ptr, trb>>
     ELSE /\ pc' = "write_1"
          /\ trb' = [type |-> "ADDRESS_DEVICE", slot |-> slot_id,
                     param |-> HEAP_START + BlockAt(cur_heap_ptr, ContextSize * 32, 64, PageSize)]
          /\ cur_heap_ptr' = BlockEnd(cur_heap_ptr, ContextSize * 32, 64, PageSize)
  /\ UNCHANGED <<pass, port, step, port_info, cmnd_trb, cmnd_trb_cycle, org_trb, answer, memory,
                 device, ghosts>>

(* The parameter and the status go in before the command, whose cycle bit
   makes the TRB valid. *)
Slip_WriteOrder == <<"command", "param">>
WriteOrder == <<"param", "command">>

Written(part, old) ==
  IF part = "param"
  THEN [old EXCEPT !.param = trb.param, !.done = FALSE]
  ELSE [old EXCEPT !.type = trb.type, !.slot = trb.slot, !.cycle = cmnd_trb_cycle]

WriteFirst ==
  /\ pc = "write_1"
  /\ pc' = "write_2"
  /\ ring' = [ring EXCEPT ![cmnd_trb] = Written(WriteOrder[1], @)]
  /\ UNCHANGED <<pass, port, step, port_info, cur_heap_ptr, sending, answer, dword, device,
                 ghosts>>

(* In front of the link TRB the program goes back to the first TRB and
   toggles the cycle. *)
WriteSecond ==
  /\ pc = "write_2"
  /\ pc' = "doorbell"
  /\ LET cmnd == [ring EXCEPT ![cmnd_trb] = Written(WriteOrder[2], @)]
         next == cmnd_trb + 1
     IN  IF cmnd[next].type = "LINK"
         THEN /\ ring' = [cmnd EXCEPT ![next].cycle = cmnd_trb_cycle]
              /\ cmnd_trb' = 0
              /\ cmnd_trb_cycle' = 1 - cmnd_trb_cycle
         ELSE ring' = cmnd /\ cmnd_trb' = next /\ UNCHANGED cmnd_trb_cycle
  /\ org_trb' = cmnd_trb
  /\ UNCHANGED <<pass, port, step, port_info, cur_heap_ptr, trb, answer, dword, device, ghosts>>

Doorbell ==
  /\ pc = "doorbell"
  /\ pc' = "wait"
  /\ ctrl' = [ctrl EXCEPT !.running = TRUE]
  /\ UNCHANGED <<pass, port, step, port_info, cur_heap_ptr, sending, answer, memory, xfers,
                 events, failures, ghosts>>

(* xhci_initialize_slot takes memory for the contexts and for the ring of the
   control endpoint. *)
ContextsEnd == BlockEnd(cur_heap_ptr, ContextSize * 2, 32, PageSize)
SlotMemoryEnd == BlockEnd(ContextsEnd, TRBS_PER_RING * 16, 64, 65536)
NoSlotMemory ==
  \/ OutOfBounds(cur_heap_ptr, ContextSize * 2, 32, PageSize)
  \/ OutOfBounds(ContextsEnd, TRBS_PER_RING * 16, 64, 65536)

SlotEnabled ==
  /\ step = "ENABLE_SLOT"
  /\ slot_id' = ring[org_trb].slot
  /\ IF NoSlotMemory
     THEN pc' = "exit" /\ UNCHANGED <<step, cur_heap_ptr>>
     ELSE pc' = "send" /\ step' = "ADDRESS_1" /\ cur_heap_ptr' = SlotMemoryEnd
  /\ UNCHANGED port

Addressed ==
  /\ step \in {"ADDRESS_1", "ADDRESS_2"}
  /\ pc' = "data"
  /\ step' = IF step = "ADDRESS_1" THEN "IN_8" ELSE "IN_18"
  /\ UNCHANGED <<port, slot_id, cur_heap_ptr>>

CommandAnswered ==
  /\ pc = "wait"
  /\ ring[org_trb].done
  /\ SlotEnabled \/ Addressed
  /\ UNCHANGED <<pass, port_info, sending, status_addr, memory, device, ghosts>>

(* After two seconds; the command stays on the ring.  A command that was done
   in the last millisecond counts as timed out. *)
Slip_CommandTimeout == pc = "wait" /\ FALSE /\ UNCHANGED vars
Slip_CommandTimeoutReuse ==
  /\ pc = "wait"
  /\ NextPort
  /\ cmnd_trb' = org_trb
  /\ UNCHANGED <<pass, port_info, cur_heap_ptr, cmnd_trb_cycle, org_trb, trb, answer, memory,
                 device, ghosts>>
CommandTimeout ==
  /\ pc = "wait"
  /\ NextPort
  /\ UNCHANGED <<pass, port_info, cur_heap_ptr, sending, answer, memory, device, ghosts>>

-----------------------------------------------------------------------------
(* xhci_control_in.  Its status dword and its buffer are new at every call. *)

Slip_StatusAt == HEAP_START
StatusAt  == HEAP_START + BlockAt(cur_heap_ptr, 4, 16, 16)
StatusEnd == BlockEnd(cur_heap_ptr, 4, 16, 16)
BufferEnd == BlockEnd(StatusEnd, 256, 1, 0)
NoTransferMemory ==
  OutOfBounds(cur_heap_ptr, 4, 16, 16) \/ OutOfBounds(StatusEnd, 256, 1, 0)

Put(f, x, y) == [z \in DOMAIN f \cup {x} |-> IF z = x THEN y ELSE f[z]]

EventData(stage, addr) == [stage |-> stage, addr |-> addr, call |-> <<port, step>>]

(* The Setup and Data TRBs, followed by an Event Data TRB that names the
   status dword, which was cleared before. *)
DataStage ==
  /\ pc = "data"
  /\ IF NoTransferMemory
     THEN pc' = "exit" /\ UNCHANGED <<cur_heap_ptr, status_addr, dword, xfers>>
     ELSE LET old == IF slot_id \in DOMAIN xfers THEN xfers[slot_id]
                     ELSE [queue |-> <<>>, state |-> "stopped"]
          IN  /\ pc' = "status"
              /\ cur_heap_ptr' = BufferEnd
              /\ status_addr' = StatusAt
              /\ dword' = Put(dword, StatusAt, "zero")
              /\ xfers' = Put(xfers, slot_id,
                              [old EXCEPT !.queue = Append(@, EventData("data", StatusAt))])
  /\ UNCHANGED <<pass, port, step, port_info, sending, slot_id, ring, ctrl, events, failures,
                 ghosts>>

(* The Status TRB with an Event Data TRB for the same dword, cleared again,
   and the doorbell, which a halted endpoint does not hear. *)
StatusStage ==
  /\ pc = "status"
  /\ pc' = "answer"
  /\ dword' = [dword EXCEPT ![status_addr] = "zero"]
  /\ xfers' = [xfers EXCEPT ![slot_id] =
                 [queue |-> Append(@.queue, EventData("status", status_addr)),
                  state |-> IF @.state = "halted" THEN @.state ELSE "running"]]
  /\ UNCHANGED <<pass, port, step, port_info, cur_heap_ptr, sending, answer, ring, ctrl,
                 events, failures, ghosts>>

TransferGood ==
  /\ dword[status_addr] = "ok"
  /\ history' = [history EXCEPT !.accepted = @ \cup {<<port, step>>}]
  /\ IF step = "IN_8" THEN pc' = "reset" /\ UNCHANGED <<step, port>> ELSE NextPort

TransferBad ==
  /\ dword[status_addr] = "error"
  /\ NextPort
  /\ UNCHANGED history

TransferAnswered ==
  /\ pc = "answer"
  /\ TransferGood \/ TransferBad
  /\ UNCHANGED <<pass, port_info, cur_heap_ptr, sending, answer, memory, device, resets>>

TransferTimeout ==
  /\ pc = "answer"
  /\ NextPort
  /\ UNCHANGED <<pass, port_info, cur_heap_ptr, sending, answer, memory, device, ghosts>>

-----------------------------------------------------------------------------
(* The controller, as far as the program relies on it. *)

(* It takes the next command that is valid, and says how it went. *)
ExecuteCommand(ok) ==
  LET cmnd == ring[ctrl.at]
      new  == cmnd.type = "ENABLE_SLOT" /\ ok
      id   == IF new THEN ctrl.slots + 1 ELSE cmnd.slot
  IN  /\ ctrl.running /\ cmnd.cycle = 1
      /\ failures' = IF ok THEN failures ELSE failures + 1
      /\ failures' <= MaxFailures
      /\ ctrl' = [ctrl EXCEPT !.at = @ + 1, !.slots = IF new THEN id ELSE @]
      /\ events' = Append(events, [type |-> "command", ok |-> ok, trb |-> ctrl.at, slot |-> id])
      /\ history' = [history EXCEPT
                       !.completed = IF ok THEN @ \cup {[trb |-> ctrl.at, slot |-> id]} ELSE @,
                       !.torn = @ \/ (cmnd.type = "ADDRESS_DEVICE" /\ cmnd.param = 0)]
      /\ UNCHANGED <<program, memory, xfers, resets>>

(* Without one it waits for the next doorbell. *)
CommandRingEmpty ==
  /\ ctrl.running /\ ring[ctrl.at].cycle # 1
  /\ ctrl' = [ctrl EXCEPT !.running = FALSE]
  /\ UNCHANGED <<program, memory, xfers, events, failures, ghosts>>

ExecuteTransfer(s) ==
  LET td == Head(xfers[s].queue)
  IN  /\ xfers[s].state = "running" /\ xfers[s].queue # <<>>
      /\ xfers' = [xfers EXCEPT ![s].queue = Tail(@)]
      /\ events' = Append(events, [type |-> "transfer", ok |-> TRUE, addr |-> td.addr])
      /\ history' = IF td.stage = "data"
                    THEN [history EXCEPT !.delivered = @ \cup {td.call}] ELSE history
      /\ UNCHANGED <<program, memory, ctrl, failures, resets>>

(* A transfer that fails halts the endpoint.  The error is in the event of the
   Event Data TRB, or of another TRB, which the handler ignores. *)
FailTransfer(s, told) ==
  /\ xfers[s].state = "running" /\ xfers[s].queue # <<>>
  /\ failures < MaxFailures /\ failures' = failures + 1
  /\ xfers' = [xfers EXCEPT ![s].state = "halted"]
  /\ events' = IF told
               THEN Append(events, [type |-> "transfer", ok |-> FALSE,
                                    addr |-> Head(xfers[s].queue).addr])
               ELSE events
  /\ UNCHANGED <<program, memory, ctrl, ghosts>>

TransferRingEmpty(s) ==
  /\ xfers[s].state = "running" /\ xfers[s].queue = <<>>
  /\ xfers' = [xfers EXCEPT ![s].state = "stopped"]
  /\ UNCHANGED <<program, memory, ctrl, events, failures, ghosts>>

-----------------------------------------------------------------------------
(* xhci_irq handles all events that are there: it marks the TRB of a command
   that succeeded as done and gives it the slot, and stores the status of a
   transfer; everything else it ignores. *)
Slip_MarkedTrb(e) == org_trb
MarkedTrb(e) == e.trb

Marks(k, i)  == events[k].type = "command" /\ events[k].ok /\ MarkedTrb(events[k]) = i
Stores(k, a) == events[k].type = "transfer" /\ events[k].addr = a

Completion(i) == events[CHOOSE k \in DOMAIN events : Marks(k, i)]
Answered(i) ==
  [ring[i] EXCEPT !.done = TRUE,
     !.slot = IF ring[i].type = "ENABLE_SLOT" THEN Completion(i).slot ELSE @]
LastStored(a) ==
  events[CHOOSE k \in DOMAIN events : Stores(k, a) /\ \A j \in DOMAIN events : Stores(j, a) => j <= k]

Interrupt ==
  /\ events # <<>>
  /\ events' = <<>>
  /\ ring' = [i \in DOMAIN ring |->
       IF \E k \in DOMAIN events : Marks(k, i) THEN Answered(i) ELSE ring[i]]
  /\ dword' = [a \in DOMAIN dword |->
       IF \E k \in DOMAIN events : Stores(k, a)
       THEN IF LastStored(a).ok THEN "ok" ELSE "error"
       ELSE dword[a]]
  /\ UNCHANGED <<program, ctrl, xfers, failures, ghosts>>

-----------------------------------------------------------------------------
ResetOutcomes == {"ok", "failed", "unpowered"}

Program ==
  \/ SkipPort \/ EndOfPorts
  \/ \E outcome \in ResetOutcomes : FirstReset(outcome) \/ SecondReset(outcome)
  \/ Compose \/ WriteFirst \/ WriteSecond \/ Doorbell \/ CommandAnswered \/ CommandTimeout
  \/ DataStage \/ StatusStage \/ TransferAnswered \/ TransferTimeout

Controller ==
  \/ \E ok \in BOOLEAN : ExecuteCommand(ok)
  \/ CommandRingEmpty
  \/ \E s \in DOMAIN xfers :
       \/ ExecuteTransfer(s)
       \/ TransferRingEmpty(s)
       \/ \E told \in BOOLEAN : FailTransfer(s, told)

Next == Program \/ Controller \/ Interrupt

Spec == Init /\ [][Next]_vars

(* The program runs; the controller and its interrupts need not. *)
FairSpec == Spec /\ WF_vars(Program)
=============================================================================
