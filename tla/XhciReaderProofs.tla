-------------------------- MODULE XhciReaderProofs --------------------------
(***************************************************************************)
(* For every controller, size and number of failures: heap_alloc gives out *)
(* what was asked for, the command ring is used once from the front, the   *)
(* controller never executes half a command, what is marked as done is     *)
(* done, what is printed was delivered, and of a socket one port is used.  *)
(***************************************************************************)
EXTENDS XhciReaderProperties, FiniteSetTheorems, WellFoundedInduction, TLAPS
-----------------------------------------------------------------------------
(* heap_alloc, for every pointer, size, alignment and boundary. *)

LEMMA DivBounds ==
  ASSUME NEW n \in Nat, NEW a \in Nat \ {0}
  PROVE  /\ n \div a \in Nat
         /\ (n \div a) * a <= n
         /\ n < (n \div a) * a + a
  OBVIOUS

(* Rounding up gives the next multiple, and less than one multiple is lost. *)
LEMMA AlignUpBounds ==
  ASSUME NEW n \in Nat, NEW a \in Nat \ {0}
  PROVE  /\ AlignUp(n, a) \in Nat
         /\ n <= AlignUp(n, a)
         /\ AlignUp(n, a) < n + a
         /\ \E k \in Nat : AlignUp(n, a) = k * a
<1> DEFINE k == (n + (a - 1)) \div a
<1>1. n + (a - 1) \in Nat
  OBVIOUS
<1>2. k \in Nat /\ k * a <= n + (a - 1) /\ n + (a - 1) < k * a + a
  BY <1>1, DivBounds
<1>3. k * a \in Nat
  BY <1>2
<1> HIDE DEF k
<1>4. n <= k * a /\ k * a < n + a
  BY <1>2, <1>3
<1>5. AlignUp(n, a) = k * a
  BY DEF AlignUp, k
<1> QED
  BY <1>2, <1>3, <1>4, <1>5

LEMMA DwordsBounds ==
  ASSUME NEW size \in Nat
  PROVE  Dwords(size) \in Nat /\ size <= Dwords(size)
  BY AlignUpBounds, 4 \in Nat \ {0} DEF Dwords

LEMMA TimesAssociative ==
  ASSUME NEW x \in Nat, NEW y \in Nat, NEW z \in Nat
  PROVE  x * (y * z) = (x * y) * z /\ x * y \in Nat
  OBVIOUS

(* The block is where the pointer was or behind it, at an address that is
   aligned. *)
LEMMA BlockPlace ==
  ASSUME NEW ptr \in Nat, NEW size \in Nat, NEW alignment \in Nat \ {0}, NEW boundary \in Nat
  PROVE  /\ BlockAt(ptr, size, alignment, boundary) \in Nat
         /\ BlockEnd(ptr, size, alignment, boundary) \in Nat
         /\ ptr <= BlockAt(ptr, size, alignment, boundary)
         /\ BlockAt(ptr, size, alignment, boundary) + size
              <= BlockEnd(ptr, size, alignment, boundary)
<1> DEFINE cur == AlignUp(ptr, alignment)
<1>1. cur \in Nat /\ ptr <= cur
  BY AlignUpBounds
<1>2. Dwords(size) \in Nat /\ size <= Dwords(size)
  BY DwordsBounds
<1>3. boundary > 0 => AlignUp(cur, boundary) \in Nat /\ cur <= AlignUp(cur, boundary)
  <2> HIDE DEF cur
  <2> QED
    BY <1>1, AlignUpBounds
<1> QED
  BY <1>1, <1>2, <1>3 DEF BlockAt, BlockEnd

(* heap_alloc, when it does not exit, keeps what its comment promises: the
   block is behind all earlier ones, inside the mapped memory and large
   enough, it has the alignment asked for, and does not cross the boundary. *)
THEOREM HeapAllocSound ==
  ASSUME NEW ptr \in Nat, NEW size \in Nat, NEW alignment \in Nat \ {0}, NEW boundary \in Nat,
         boundary = 0 \/ \E m \in Nat : boundary = m * alignment,
         ~OutOfBounds(ptr, size, alignment, boundary)
  PROVE  LET at   == BlockAt(ptr, size, alignment, boundary)
             end  == BlockEnd(ptr, size, alignment, boundary)
         IN  /\ ptr <= at /\ at + size <= end /\ end <= HEAP_SIZE
             /\ \E k \in Nat : at = k * alignment
             /\ boundary > 0 => \E k \in Nat : k * boundary <= at /\ end <= k * boundary + boundary
<1> DEFINE cur == AlignUp(ptr, alignment)
           at  == BlockAt(ptr, size, alignment, boundary)
           end == BlockEnd(ptr, size, alignment, boundary)
<1>1. cur \in Nat /\ \E k \in Nat : cur = k * alignment
  BY AlignUpBounds
<1>2. Dwords(size) \in Nat
  BY DwordsBounds
<1>3. ptr <= at /\ at + size <= end /\ at \in Nat /\ end \in Nat /\ end = at + Dwords(size)
  BY BlockPlace DEF BlockEnd
<1>4. end - 1 < HEAP_SIZE /\ (boundary > 0 => Dwords(size) <= boundary)
  <2> HIDE DEF at
  <2> QED
    BY <1>2, <1>3, HeapSizeAssumption DEF OutOfBounds
<1>5. end <= HEAP_SIZE
  BY <1>3, <1>4, HeapSizeAssumption
<1>6. CASE boundary = 0 \/ cur + Dwords(size) <= boundary
  <2>1. at = cur
    BY <1>1, <1>2, <1>6 DEF BlockAt
  <2>2. boundary > 0 => 0 * boundary <= at /\ end <= 0 * boundary + boundary
    BY <2>1, <1>1, <1>2, <1>3, <1>6
  <2> HIDE DEF at, end
  <2> QED
    BY <2>1, <2>2, <1>1, <1>3, <1>5 DEF at, end
<1>7. CASE boundary > 0 /\ ~(cur + Dwords(size) <= boundary)
  <2>1. at = AlignUp(cur, boundary)
    BY <1>1, <1>2, <1>7 DEF BlockAt
  <2>2. PICK k \in Nat : at = k * boundary
    <3>1. boundary \in Nat \ {0}
      BY <1>7
    <3>2. \E k \in Nat : AlignUp(cur, boundary) = k * boundary
      <4> HIDE DEF cur
      <4> QED
        BY <3>1, <1>1, AlignUpBounds
    <3> HIDE DEF cur, at
    <3> QED
      BY <3>2, <2>1
  <2>3. PICK m \in Nat : boundary = m * alignment
    BY <1>7
  <2>4. at = (k * m) * alignment /\ k * m \in Nat
    <3> HIDE DEF at
    <3> QED
      BY <2>2, <2>3, TimesAssociative
  <2>5. k * boundary <= at /\ end <= k * boundary + boundary
    <3> HIDE DEF at, end
    <3> QED
      BY <2>2, <1>2, <1>3, <1>4, <1>7
  <2> HIDE DEF at, end
  <2> QED
    BY <2>4, <2>5, <1>3, <1>5 DEF at, end
<1> QED
  BY <1>1, <1>2, <1>6, <1>7

-----------------------------------------------------------------------------
(* The command ring *)

Writing    == pc \in {"send", "write_1", "write_2"}
Waiting    == pc \in {"doorbell", "wait"}
Commanding == Writing \/ Waiting
Reading    == pc \in {"data", "status", "answer"}

Place ==
  /\ Ndp \in Nat /\ 6 * Ndp + 1 < CMND_RING_TRBS
  /\ pass \in {2, 3} /\ port \in 0 .. Ndp
  /\ Commanding => step \in {"ENABLE_SLOT", "ADDRESS_1", "ADDRESS_2"}
  /\ Reading => step \in {"IN_8", "IN_18"}
  /\ pc = "reset" => step = "IN_8"
  /\ Commanding \/ Reading \/ pc = "reset" => port < Ndp
  /\ Commanding \/ Reading \/ pc \in {"reset", "loop", "done", "exit"}

(* Three commands at most for every port visited, and n for this one: this is
   why the ring does not come to its link TRB. *)
Bound(n) ==
  /\ pass = 3 => cmnd_trb <= 3 * port + n
  /\ pass = 2 => cmnd_trb <= 3 * Ndp + 3 * port + n

Room ==
  /\ cmnd_trb \in Nat
  /\ cmnd_trb <= 6 * Ndp
  /\ pc = "loop" => Bound(0)
  /\ Writing /\ step = "ENABLE_SLOT" => Bound(0)
  /\ Writing /\ step = "ADDRESS_1" => Bound(1)
  /\ Writing /\ step = "ADDRESS_2" => Bound(2)
  /\ Waiting /\ step = "ENABLE_SLOT" => Bound(1)
  /\ Waiting /\ step = "ADDRESS_1" => Bound(2)
  /\ Waiting /\ step = "ADDRESS_2" => Bound(3)
  /\ (Reading \/ pc = "reset") /\ step = "IN_8" => Bound(2)
  /\ Reading /\ step = "IN_18" => Bound(3)

Trb == [type : {"none", "ENABLE_SLOT", "ADDRESS_DEVICE", "LINK"}, param : Nat,
        cycle : {0, 1}, done : BOOLEAN, slot : Nat]

Memory ==
  /\ cur_heap_ptr \in Nat /\ slot_id \in Nat /\ status_addr \in Nat
  /\ org_trb \in 0 .. Last
  /\ trb \in [type : {"ENABLE_SLOT", "ADDRESS_DEVICE"}, param : Nat, slot : Nat]
  /\ trb.type = "ADDRESS_DEVICE" => trb.param > 0
  /\ ring \in [0 .. Last -> Trb]

HalfTrb == [type |-> "none", param |-> trb.param, cycle |-> 0, done |-> FALSE, slot |-> 0]

Order ==
  /\ cmnd_trb_cycle = 1
  /\ \A i \in cmnd_trb + 1 .. Last - 1 : ring[i] = NoTrb
  /\ ring[cmnd_trb] = IF pc = "write_2" THEN HalfTrb ELSE NoTrb
  /\ \A i \in 0 .. cmnd_trb - 1 : ring[i].type = "ADDRESS_DEVICE" => ring[i].param > 0

Device ==
  /\ ctrl \in [at : Nat, running : BOOLEAN, slots : Nat]
  /\ ctrl.at <= cmnd_trb

Call     == Nat \X {"none", "ENABLE_SLOT", "ADDRESS_1", "IN_8", "ADDRESS_2", "IN_18"}
Xfer     == [stage : {"data", "status"}, addr : Nat, call : Call]
Endpoint == [queue : Seq(Xfer), state : {"stopped", "running", "halted"}]
Event    == [type : {"command"}, ok : BOOLEAN, trb : Nat, slot : Nat]
              \cup [type : {"transfer"}, ok : BOOLEAN, addr : Nat]

Typed ==
  /\ \A s \in DOMAIN xfers : xfers[s] \in Endpoint
  /\ events \in Seq(Event)
  /\ history \in [completed : SUBSET [trb : Nat, slot : Nat], delivered : SUBSET Call,
                  accepted : SUBSET Call, torn : BOOLEAN]

(* What events and the history say of the ring. *)
Agreed ==
  /\ ~history.torn
  /\ \A c \in history.completed :
       c.trb < cmnd_trb /\ (ring[c.trb].type = "ENABLE_SLOT" \/ ring[c.trb].slot = c.slot)
  /\ \A k \in DOMAIN events :
       events[k].type = "command" /\ events[k].ok =>
         [trb |-> events[k].trb, slot |-> events[k].slot] \in history.completed
  /\ \A i \in 0 .. Last :
       ring[i].done => [trb |-> i, slot |-> ring[i].slot] \in history.completed

IndInv == Place /\ Room /\ Memory /\ Order /\ Device /\ Typed /\ Agreed

-----------------------------------------------------------------------------
LEMMA Sizes ==
  /\ CMND_RING_TRBS \in Nat \ {0} /\ TRBS_PER_RING \in Nat \ {0} /\ EVENT_TRBS \in Nat \ {0}
  /\ PageSize \in Nat \ {0} /\ ContextSize \in Nat \ {0}
  /\ ScratchBuffers \in Nat /\ MaxFailures \in Nat /\ Last \in Nat
  BY SizeAssumption DEF Last

LEMMA HeapStart == HEAP_START \in Nat /\ HEAP_START > 0
  BY SMT DEF HEAP_START

LEMMA StartNat == StartAllocations \in Nat
<1> DEFINE dcbaa   == BlockEnd(0, 2048, 64, PageSize)
           array   == BlockEnd(dcbaa, ScratchBuffers * 8, 64, PageSize)
           scratch == IF ScratchBuffers > 0
                      THEN BlockEnd(array, ScratchBuffers * PageSize, PageSize, 0) ELSE dcbaa
           command == BlockEnd(scratch, CMND_RING_TRBS * 16, 64, 65536)
           table   == BlockEnd(command, 64, 64, 0)
<1>1. /\ ScratchBuffers * 8 \in Nat /\ ScratchBuffers * PageSize \in Nat
      /\ CMND_RING_TRBS * 16 \in Nat /\ EVENT_TRBS * 16 \in Nat
  BY Sizes
<1>2. dcbaa \in Nat
  BY BlockPlace, Sizes
<1>3. array \in Nat
  <2> HIDE DEF dcbaa
  <2> QED
    BY <1>1, <1>2, BlockPlace, Sizes
<1>4. scratch \in Nat
  <2> HIDE DEF dcbaa, array
  <2> QED
    BY <1>1, <1>2, <1>3, BlockPlace, Sizes
<1>5. command \in Nat
  <2> HIDE DEF scratch
  <2> QED
    BY <1>1, <1>4, BlockPlace, Sizes
<1>6. table \in Nat
  <2> HIDE DEF command
  <2> QED
    BY <1>5, BlockPlace, Sizes
<1>7. BlockEnd(table, EVENT_TRBS * 16, 64, 65536) \in Nat
  <2> HIDE DEF table
  <2> QED
    BY <1>1, <1>6, BlockPlace, Sizes
<1> QED
  BY <1>7 DEF StartAllocations

LEMMA InitInv == Init => IndInv
<1> SUFFICES ASSUME Init
             PROVE  IndInv
  OBVIOUS
<1>1. PICK items \in Layouts : port_info = PortInfo(items)
  BY DEF Init
<1>2. PICK n \in 1 .. 16 : Ports(items) = 0 .. n - 1 /\ 6 * n + 1 < CMND_RING_TRBS
  BY LayoutAssumption
<1>3. DOMAIN port_info = 0 .. n - 1
  BY <1>1, <1>2 DEF PortInfo
<1>4. Cardinality(0 .. n - 1) = n
  BY FS_Interval
<1>5. Ndp = n
  BY <1>3, <1>4 DEF Ndp
<1>6. Place /\ Room
  BY <1>2, <1>5 DEF Init, Place, Room, Commanding, Writing, Waiting, Reading, Bound
<1>7. Last > 0
  BY <1>2, Sizes DEF Last
<1>10. NoTrb \in Trb /\ LinkTrb \in Trb
  BY DEF Trb, NoTrb, LinkTrb
<1>11. Memory
  BY <1>7, <1>10, Sizes, StartNat DEF Init, Memory
<1>12. Order
  BY <1>7, Sizes DEF Init, Order, NoTrb, HalfTrb
<1>8. Device /\ Typed
  BY DEF Init, Device, Typed, Event, Call, Xfer, Endpoint
<1>9. Agreed
  BY Sizes DEF Init, Agreed, NoTrb, LinkTrb, Last
<1> QED
  BY <1>6, <1>8, <1>9, <1>11, <1>12 DEF IndInv

-----------------------------------------------------------------------------
(* Only the loops, the resets and the sending of commands change what Place
   and Room speak of. *)
LEMMA NdpKept ==
  ASSUME DOMAIN port_info' = DOMAIN port_info
  PROVE  Ndp' = Ndp
  BY DEF Ndp

LEMMA ResetKeepsPorts ==
  ASSUME NEW outcome, ResetPort(outcome)
  PROVE  DOMAIN port_info' = DOMAIN port_info
  BY DEF ResetPort, AfterReset

LEMMA PlaceStep ==
  ASSUME Place, Room, Next
  PROVE  Place' /\ Room'
<1> USE DEF Place, Room, Commanding, Writing, Waiting, Reading, Bound, NextPort
<1>1. CASE SkipPort
  BY <1>1, NdpKept DEF SkipPort, sending
<1>2. CASE EndOfPorts
  BY <1>2, NdpKept DEF EndOfPorts, sending
<1>3. ASSUME NEW outcome, FirstReset(outcome)
      PROVE  Place' /\ Room'
  <2>1. Ndp' = Ndp
    BY <1>3, NdpKept, ResetKeepsPorts DEF FirstReset
  <2>2. UNCHANGED <<pass, cmnd_trb>>
    BY <1>3 DEF FirstReset, ResetPort, sending
  <2>3. /\ pc = "loop" /\ port < Ndp
        /\ \/ pc' = "send" /\ step' = "ENABLE_SLOT" /\ port' = port
           \/ pc' = "loop" /\ port' = port + 1
    BY <1>3 DEF FirstReset
  <2> QED
    BY <2>1, <2>2, <2>3
<1>4. ASSUME NEW outcome, SecondReset(outcome)
      PROVE  Place' /\ Room'
  <2>1. Ndp' = Ndp
    BY <1>4, NdpKept, ResetKeepsPorts DEF SecondReset
  <2>2. UNCHANGED <<pass, cmnd_trb>>
    BY <1>4 DEF SecondReset, ResetPort, sending
  <2>3. pc = "reset" /\ pc' = "send" /\ step' = "ADDRESS_2" /\ port' = port
    BY <1>4 DEF SecondReset
  <2> QED
    BY <2>1, <2>2, <2>3
<1>5. CASE Compose
  BY <1>5, NdpKept DEF Compose
<1>6. CASE WriteFirst
  BY <1>6, NdpKept DEF WriteFirst, sending
<1>7. CASE WriteSecond
  <2>1. cmnd_trb' = 0 \/ cmnd_trb' = cmnd_trb + 1
    BY <1>7 DEF WriteSecond
  <2>2. /\ UNCHANGED <<pass, port, step, port_info>>
        /\ pc = "write_2" /\ pc' = "doorbell"
    BY <1>7 DEF WriteSecond
  <2>3. Ndp' = Ndp
    BY <2>2, NdpKept
  <2> QED
    BY <2>1, <2>2, <2>3
<1>8. CASE Doorbell
  BY <1>8, NdpKept DEF Doorbell, sending
<1>9. CASE CommandAnswered
  BY <1>9, NdpKept DEF CommandAnswered, SlotEnabled, Addressed, sending
<1>10. CASE CommandTimeout
  BY <1>10, NdpKept DEF CommandTimeout, sending
<1>11. CASE DataStage
  BY <1>11, NdpKept DEF DataStage, sending
<1>12. CASE StatusStage
  BY <1>12, NdpKept DEF StatusStage, sending
<1>13. CASE TransferAnswered
  <2>1. /\ UNCHANGED <<pass, cmnd_trb, port_info>>
        /\ pc = "answer"
        /\ \/ step = "IN_8" /\ pc' = "reset" /\ UNCHANGED <<step, port>>
           \/ NextPort
    BY <1>13 DEF TransferAnswered, TransferGood, TransferBad, sending
  <2>2. Bound(3) /\ Ndp' = Ndp
    BY <2>1, NdpKept
  <2> QED
    BY <2>1, <2>2
<1>14. CASE TransferTimeout
  <2>1. UNCHANGED <<pass, cmnd_trb, port_info>> /\ pc = "answer" /\ NextPort
    BY <1>14 DEF TransferTimeout, sending
  <2>2. Bound(3) /\ Ndp' = Ndp
    BY <2>1, NdpKept
  <2> QED
    BY <2>1, <2>2
<1>15. CASE UNCHANGED program
  BY <1>15, NdpKept DEF program, sending
<1>16. Controller \/ Interrupt => UNCHANGED program
  BY DEF Controller, Interrupt, ExecuteCommand, CommandRingEmpty, ExecuteTransfer,
         TransferRingEmpty, FailTransfer
<1> QED
  BY <1>1, <1>2, <1>3, <1>4, <1>5, <1>6, <1>7, <1>8, <1>9, <1>10, <1>11, <1>12, <1>13, <1>14,
     <1>15, <1>16 DEF Next, Program

LEMMA RoomLeft ==
  ASSUME Place, Room
  PROVE  /\ cmnd_trb \in 0 .. Last /\ cmnd_trb < Last
         /\ pc = "write_2" => cmnd_trb + 1 < Last
  BY Sizes DEF Place, Room, Bound, Commanding, Writing, Waiting, Reading, Last

(* The second half of a command goes to a TRB in front of one that is free. *)
LEMMA WriteSecondPlain ==
  ASSUME IndInv, WriteSecond
  PROVE  /\ ring' = [ring EXCEPT ![cmnd_trb] = Written(WriteOrder[2], @)]
         /\ cmnd_trb' = cmnd_trb + 1
         /\ UNCHANGED cmnd_trb_cycle
         /\ org_trb' = cmnd_trb
<1> DEFINE cmnd == [ring EXCEPT ![cmnd_trb] = Written(WriteOrder[2], @)]
<1>1. cmnd_trb \in 0 .. Last /\ cmnd_trb + 1 < Last
  BY RoomLeft DEF IndInv, WriteSecond
<1>2. ring[cmnd_trb + 1] = NoTrb
  BY <1>1, Sizes DEF IndInv, Order
<1>3. cmnd[cmnd_trb + 1] = NoTrb
  BY <1>1, <1>2, Sizes DEF IndInv, Memory
<1>4. cmnd[cmnd_trb + 1].type # "LINK"
  BY <1>3 DEF NoTrb
<1> QED
  BY <1>4 DEF WriteSecond

LEMMA BlocksNat ==
  ASSUME cur_heap_ptr \in Nat
  PROVE  /\ BlockAt(cur_heap_ptr, ContextSize * 32, 64, PageSize) \in Nat
         /\ BlockEnd(cur_heap_ptr, ContextSize * 32, 64, PageSize) \in Nat
         /\ SlotMemoryEnd \in Nat /\ StatusAt \in Nat /\ BufferEnd \in Nat
<1>1. ContextSize * 32 \in Nat /\ ContextSize * 2 \in Nat /\ TRBS_PER_RING * 16 \in Nat
  BY Sizes
<1>2. ContextsEnd \in Nat
  BY <1>1, BlockPlace, Sizes DEF ContextsEnd
<1>3. SlotMemoryEnd \in Nat
  BY <1>1, <1>2, BlockPlace, Sizes, SMT DEF SlotMemoryEnd
<1>4. StatusAt \in Nat /\ StatusEnd \in Nat
  <2>1. /\ BlockAt(cur_heap_ptr, 4, 16, 16) \in Nat
        /\ BlockEnd(cur_heap_ptr, 4, 16, 16) \in Nat
    BY BlockPlace
  <2> QED
    BY <2>1, HeapStart DEF StatusAt, StatusEnd
<1>5. BufferEnd \in Nat
  BY <1>4, BlockPlace DEF BufferEnd
<1> QED
  BY <1>1, <1>3, <1>4, <1>5, BlockPlace, Sizes

(* The completion that marks a TRB is an event for it. *)
LEMMA CompletionOf ==
  ASSUME NEW i, \E k \in DOMAIN events : Marks(k, i)
  PROVE  \E k \in DOMAIN events :
           /\ Completion(i) = events[k]
           /\ events[k].type = "command" /\ events[k].ok /\ events[k].trb = i
<1>1. PICK k \in DOMAIN events : Marks(k, i) /\ k = CHOOSE j \in DOMAIN events : Marks(j, i)
  OBVIOUS
<1> QED
  BY <1>1 DEF Completion, Marks, MarkedTrb

(* Both halves of a write leave a TRB a TRB. *)
LEMMA WrittenTrb ==
  ASSUME NEW old \in Trb, trb.param \in Nat, trb.slot \in Nat,
         trb.type \in {"ENABLE_SLOT", "ADDRESS_DEVICE"}, cmnd_trb_cycle \in {0, 1}
  PROVE  Written("param", old) \in Trb /\ Written("command", old) \in Trb
<1>1. PICK t \in {"ENABLE_SLOT", "ADDRESS_DEVICE"}, p \in Nat, n \in Nat, c \in {0, 1} :
        t = trb.type /\ p = trb.param /\ n = trb.slot /\ c = cmnd_trb_cycle
  OBVIOUS
<1>2. Written("param", old) \in Trb
  BY <1>1 DEF Written, Trb
<1>3. Written("command", old) \in Trb
  BY <1>1 DEF Written, Trb
<1> QED
  BY <1>2, <1>3

(* And so does an answer. *)
LEMMA AnsweredTrb ==
  ASSUME NEW i \in 0 .. Last, ring \in [0 .. Last -> Trb], Completion(i).slot \in Nat
  PROVE  Answered(i) \in Trb
<1>1. PICK old \in Trb : old = ring[i]
  OBVIOUS
<1>2. PICK n \in Nat : n = Completion(i).slot
  OBVIOUS
<1>3. PICK m \in Nat : m = IF old.type = "ENABLE_SLOT" THEN n ELSE old.slot
  BY DEF Trb
<1>4. Answered(i) = [old EXCEPT !.done = TRUE, !.slot = m]
  BY <1>1, <1>2, <1>3 DEF Answered
<1>5. [old EXCEPT !.done = TRUE, !.slot = m] \in Trb
  BY DEF Trb
<1> HIDE DEF Answered
<1> QED
  BY ONLY <1>4, <1>5, Zenon

LEMMA MemoryStep ==
  ASSUME IndInv, Next
  PROVE  Memory'
<1> USE DEF Memory
<1>a. Memory /\ cmnd_trb \in 0 .. Last
  BY RoomLeft DEF IndInv
<1>1. CASE Compose
  <2>1. UNCHANGED <<slot_id, status_addr, org_trb, ring>>
    BY <1>1 DEF Compose, answer, memory
  <2>2. /\ cur_heap_ptr' \in Nat
        /\ trb' \in [type : {"ENABLE_SLOT", "ADDRESS_DEVICE"}, param : Nat, slot : Nat]
        /\ trb'.type = "ADDRESS_DEVICE" => trb'.param > 0
    BY <1>1, <1>a, BlocksNat, HeapStart DEF Compose
  <2> QED
    BY <1>a, <2>1, <2>2
<1>2. CASE WriteFirst
  <2>1. Written(WriteOrder[1], ring[cmnd_trb]) \in Trb
    <3>1. WriteOrder[1] = "param" /\ ring[cmnd_trb] \in Trb /\ cmnd_trb_cycle \in {0, 1}
      BY <1>a DEF WriteOrder, Order, IndInv
    <3> QED
      BY <1>a, <3>1, WrittenTrb
  <2> QED
    BY <1>2, <1>a, <2>1 DEF WriteFirst, sending, answer
<1>3. CASE WriteSecond
  <2>1. Written(WriteOrder[2], ring[cmnd_trb]) \in Trb
    <3>1. WriteOrder[2] = "command" /\ ring[cmnd_trb] \in Trb /\ cmnd_trb_cycle \in {0, 1}
      BY <1>a DEF WriteOrder, Order, IndInv
    <3> QED
      BY <1>a, <3>1, WrittenTrb
  <2>2. ring' \in [0 .. Last -> Trb]
    BY <1>3, <1>a, <2>1, WriteSecondPlain
  <2>3. org_trb' \in 0 .. Last
    BY <1>3, <1>a, WriteSecondPlain
  <2> QED
    BY <1>3, <1>a, <2>2, <2>3 DEF WriteSecond, answer
<1>4. CASE CommandAnswered
  <2>1. ring[org_trb].slot \in Nat
    BY <1>a DEF Trb
  <2> QED
    BY <1>4, <1>a, <2>1, BlocksNat DEF CommandAnswered, SlotEnabled, Addressed, sending, memory
<1>5. CASE DataStage
  BY <1>5, <1>a, BlocksNat DEF DataStage, sending
<1>6. CASE Interrupt
  <2>1. ASSUME NEW i \in 0 .. Last
        PROVE  ring'[i] \in Trb
    <3>1. CASE \E k \in DOMAIN events : Marks(k, i)
      <4>1. PICK k \in DOMAIN events : /\ Completion(i) = events[k]
                                      /\ events[k].type = "command"
        BY <3>1, CompletionOf
      <4>2. Completion(i).slot \in Nat
        BY <4>1 DEF IndInv, Typed, Event
      <4>3. ring'[i] = Answered(i)
        BY <1>6, <1>a, <3>1 DEF Interrupt
      <4>4. Answered(i) \in Trb
        BY <1>a, <4>2, AnsweredTrb
      <4> QED
        BY <4>3, <4>4
    <3>2. CASE ~\E k \in DOMAIN events : Marks(k, i)
      BY <1>6, <1>a, <3>2 DEF Interrupt
    <3> QED
      BY <3>1, <3>2
  <2>2. ring' \in [0 .. Last -> Trb]
    BY <1>6, <1>a, <2>1 DEF Interrupt
  <2> QED
    BY <1>6, <1>a, <2>2 DEF Interrupt, program, sending, answer
<1>7. CASE UNCHANGED <<cur_heap_ptr, sending, answer, ring>>
  BY <1>7, <1>a DEF sending, answer
<1>8. Program => \/ Compose \/ WriteFirst \/ WriteSecond \/ CommandAnswered \/ DataStage
                 \/ UNCHANGED <<cur_heap_ptr, sending, answer, ring>>
  BY DEF Program, SkipPort, EndOfPorts, FirstReset, SecondReset, ResetPort, Doorbell,
         CommandTimeout, StatusStage, TransferAnswered, TransferTimeout, memory
<1>9. Controller => UNCHANGED <<cur_heap_ptr, sending, answer, ring>>
  BY DEF Controller, ExecuteCommand, CommandRingEmpty, ExecuteTransfer, TransferRingEmpty,
         FailTransfer, program, memory
<1> QED
  BY <1>1, <1>2, <1>3, <1>4, <1>5, <1>6, <1>7, <1>8, <1>9 DEF Next

-----------------------------------------------------------------------------
(* A command is executed only when it is on the ring as a whole. *)
LEMMA ExecutesOnlySent ==
  ASSUME IndInv, NEW ok, ExecuteCommand(ok)
  PROVE  ctrl.at \in 0 .. Last /\ ctrl.at < cmnd_trb
<1>1. cmnd_trb \in 0 .. Last /\ ctrl.at \in Nat /\ ctrl.at <= cmnd_trb
  BY RoomLeft DEF IndInv, Device
<1>2. ring[ctrl.at].cycle = 1
  BY DEF ExecuteCommand
<1>3. ring[cmnd_trb].cycle = 0
  BY DEF IndInv, Order, NoTrb, HalfTrb
<1> QED
  BY <1>1, <1>2, <1>3, Sizes

(* The handler changes nothing in TRBs that are not sent, and neither type nor
   parameter of the others. *)
LEMMA InterruptOnRing ==
  ASSUME IndInv, Interrupt, NEW i \in 0 .. Last
  PROVE  /\ ring'[i].type = ring[i].type /\ ring'[i].param = ring[i].param
         /\ i >= cmnd_trb => ring'[i] = ring[i]
         /\ ring'[i] # ring[i] => ring'[i] = Answered(i) /\ \E k \in DOMAIN events : Marks(k, i)
<1>1. ring[i] \in Trb /\ i \in DOMAIN ring
  BY DEF IndInv, Memory
<1>2. CASE \E k \in DOMAIN events : Marks(k, i)
  <2>1. PICK k \in DOMAIN events : events[k].type = "command" /\ events[k].ok /\ events[k].trb = i
    BY <1>2 DEF Marks, MarkedTrb
  <2>2. i < cmnd_trb
    BY <2>1 DEF IndInv, Agreed
  <2>3. ring'[i] = Answered(i)
    BY <1>1, <1>2 DEF Interrupt
  <2> QED
    BY <1>1, <1>2, <2>2, <2>3, RoomLeft DEF Answered, Trb, IndInv
<1>3. CASE ~\E k \in DOMAIN events : Marks(k, i)
  BY <1>1, <1>3 DEF Interrupt
<1> QED
  BY <1>2, <1>3

LEMMA OrderStep ==
  ASSUME IndInv, Next
  PROVE  Order'
<1>a. Order /\ Memory /\ cmnd_trb \in 0 .. Last /\ cmnd_trb < Last
  BY RoomLeft DEF IndInv
<1> USE DEF Order
<1>1. CASE Compose
  BY <1>1, <1>a DEF Compose, memory
<1>2. CASE WriteFirst
  <2>1. ring[cmnd_trb] = NoTrb
    BY <1>2, <1>a DEF WriteFirst
  <2>2. Written(WriteOrder[1], ring[cmnd_trb]) = HalfTrb
    <3> DEFINE w == Written(WriteOrder[1], ring[cmnd_trb])
    <3>1. w \in Trb
      BY <1>a DEF Written, WriteOrder, Trb, Memory
    <3>2. w.param = trb.param /\ w.done = FALSE
      BY <2>1 DEF Written, WriteOrder, NoTrb
    <3>3. w.type = "none" /\ w.cycle = 0 /\ w.slot = 0
      BY <2>1 DEF Written, WriteOrder, NoTrb
    <3> HIDE DEF w
    <3>4. w = HalfTrb
      BY <3>1, <3>2, <3>3 DEF Trb, HalfTrb
    <3> QED
      BY <3>4 DEF w
  <2>3. /\ ring' = [ring EXCEPT ![cmnd_trb] = HalfTrb]
        /\ pc' = "write_2" /\ UNCHANGED sending
    BY <1>2, <2>2 DEF WriteFirst
  <2>4. \A i \in 0 .. Last : i # cmnd_trb => ring'[i] = ring[i]
    BY <2>3, <1>a DEF Memory
  <2>5. ring'[cmnd_trb] = HalfTrb
    BY <2>3, <1>a DEF Memory
  <2>6. cmnd_trb' = cmnd_trb /\ trb' = trb /\ cmnd_trb_cycle' = 1
    BY <2>3, <1>a DEF sending
  <2>7. \A i \in cmnd_trb + 1 .. Last - 1 : ring'[i] = NoTrb
    BY <2>4, <1>a, Sizes
  <2>8. \A i \in 0 .. cmnd_trb - 1 : ring'[i].type = "ADDRESS_DEVICE" => ring'[i].param > 0
    BY <2>4, <1>a, Sizes
  <2> HIDE DEF Order
  <2> QED
    BY <2>3, <2>5, <2>6, <2>7, <2>8 DEF Order, HalfTrb
<1>3. CASE WriteSecond
  <2>1. /\ pc = "write_2" /\ pc' = "doorbell" /\ trb' = trb
        /\ cmnd_trb' = cmnd_trb + 1 /\ cmnd_trb' < Last /\ cmnd_trb_cycle' = 1
    BY <1>3, <1>a, WriteSecondPlain, RoomLeft DEF WriteSecond, IndInv
  <2>2. ring' = [ring EXCEPT ![cmnd_trb] = Written(WriteOrder[2], ring[cmnd_trb])]
    BY <1>3, WriteSecondPlain
  <2>3. /\ Written(WriteOrder[2], ring[cmnd_trb]).type = trb.type
        /\ Written(WriteOrder[2], ring[cmnd_trb]).param = trb.param
    BY <2>1, <1>a DEF Written, WriteOrder, HalfTrb
  <2>4. \A i \in 0 .. Last : i # cmnd_trb => ring'[i] = ring[i]
    BY <2>2, <1>a DEF Memory
  <2>5. ring'[cmnd_trb] = Written(WriteOrder[2], ring[cmnd_trb])
    BY <2>2, <1>a DEF Memory
  <2>6. \A i \in cmnd_trb' + 1 .. Last - 1 : ring'[i] = NoTrb
    BY <2>1, <2>4, <1>a, Sizes
  <2>7. ring'[cmnd_trb'] = NoTrb
    BY <2>1, <2>4, <1>a, Sizes
  <2>8. \A i \in 0 .. cmnd_trb' - 1 : ring'[i].type = "ADDRESS_DEVICE" => ring'[i].param > 0
    <3>1. trb.type = "ADDRESS_DEVICE" => trb.param > 0
      BY <1>a DEF Memory
    <3>2. \A i \in 0 .. cmnd_trb - 1 : ring'[i] = ring[i]
      BY <2>4, <1>a, Sizes
    <3>3. ring'[cmnd_trb].type = "ADDRESS_DEVICE" => ring'[cmnd_trb].param > 0
      BY <3>1, <2>3, <2>5
    <3> QED
      BY <3>2, <3>3, <2>1, <1>a, Sizes
  <2> QED
    BY <2>1, <2>6, <2>7, <2>8
<1>4. CASE Interrupt
  <2>1. UNCHANGED <<pc, sending>>
    BY <1>4 DEF Interrupt, program
  <2>2. \A i \in 0 .. Last : /\ ring'[i].type = ring[i].type /\ ring'[i].param = ring[i].param
                             /\ i >= cmnd_trb => ring'[i] = ring[i]
    BY <1>4, InterruptOnRing
  <2> QED
    BY <2>1, <2>2, <1>a, Sizes DEF sending, HalfTrb
<1>5. CASE UNCHANGED <<sending, ring>> /\ (pc = "write_2") = (pc' = "write_2")
  BY <1>5, <1>a DEF sending, HalfTrb
<1>6. Program => \/ Compose \/ WriteFirst \/ WriteSecond
                 \/ UNCHANGED <<sending, ring>> /\ (pc = "write_2") = (pc' = "write_2")
  BY DEF Program, SkipPort, EndOfPorts, FirstReset, SecondReset, ResetPort, Doorbell,
         CommandAnswered, SlotEnabled, Addressed, CommandTimeout, DataStage, StatusStage,
         TransferAnswered, TransferGood, TransferBad, TransferTimeout, NextPort, memory
<1>7. Controller => UNCHANGED <<sending, ring, pc>>
  BY DEF Controller, ExecuteCommand, CommandRingEmpty, ExecuteTransfer, TransferRingEmpty,
         FailTransfer, program, memory
<1> QED
  BY <1>1, <1>2, <1>3, <1>4, <1>5, <1>6, <1>7 DEF Next

-----------------------------------------------------------------------------
LEMMA CmndTrbGrows ==
  ASSUME IndInv, Next
  PROVE  cmnd_trb' \in Nat /\ cmnd_trb' >= cmnd_trb
<1>a. cmnd_trb \in Nat
  BY DEF IndInv, Room
<1>1. CASE WriteSecond
  BY <1>1, <1>a, WriteSecondPlain
<1>2. Next => WriteSecond \/ UNCHANGED cmnd_trb
  BY DEF Next, Program, Controller, SkipPort, EndOfPorts, FirstReset, SecondReset, ResetPort,
         Compose, WriteFirst, Doorbell, CommandAnswered, CommandTimeout, DataStage, StatusStage,
         TransferAnswered, TransferTimeout, ExecuteCommand, CommandRingEmpty, ExecuteTransfer,
         TransferRingEmpty, FailTransfer, Interrupt, program, sending
<1> QED
  BY <1>1, <1>2, <1>a

LEMMA DeviceStep ==
  ASSUME IndInv, Next
  PROVE  Device'
<1>a. /\ ctrl \in [at : Nat, running : BOOLEAN, slots : Nat] /\ ctrl.at <= cmnd_trb
      /\ cmnd_trb \in Nat /\ cmnd_trb' \in Nat /\ cmnd_trb' >= cmnd_trb
  BY CmndTrbGrows DEF IndInv, Room, Device
<1>1. CASE Doorbell
  <2>1. ctrl' = [ctrl EXCEPT !.running = TRUE]
    BY <1>1 DEF Doorbell
  <2>2. ctrl' \in [at : Nat, running : BOOLEAN, slots : Nat] /\ ctrl'.at = ctrl.at
    BY <2>1, <1>a
  <2> QED
    BY <2>2, <1>a DEF Device
<1>2. ASSUME NEW ok \in BOOLEAN, ExecuteCommand(ok)
      PROVE  Device'
  <2>1. PICK n : /\ ctrl' = [ctrl EXCEPT !.at = ctrl.at + 1, !.slots = n]
                 /\ n = ctrl.slots + 1 \/ n = ctrl.slots
    BY <1>2 DEF ExecuteCommand
  <2>3. n \in Nat /\ ctrl.at + 1 \in Nat
    BY <2>1, <1>a
  <2>4. ctrl'.at = ctrl.at + 1 /\ ctrl' \in [at : Nat, running : BOOLEAN, slots : Nat]
    BY <2>1, <2>3, <1>a
  <2>2. ctrl.at \in Nat /\ ctrl.at < cmnd_trb
    BY <1>2, <1>a, ExecutesOnlySent
  <2> QED
    BY <2>2, <2>4, <1>a DEF Device
<1>3. CASE CommandRingEmpty
  <2>1. ctrl' = [ctrl EXCEPT !.running = FALSE]
    BY <1>3 DEF CommandRingEmpty
  <2>2. ctrl' \in [at : Nat, running : BOOLEAN, slots : Nat] /\ ctrl'.at = ctrl.at
    BY <2>1, <1>a
  <2> QED
    BY <2>2, <1>a DEF Device
<1>4. CASE UNCHANGED ctrl
  BY <1>4, <1>a DEF Device
<1>5. Program => Doorbell \/ UNCHANGED ctrl
  BY DEF Program, SkipPort, EndOfPorts, FirstReset, SecondReset, ResetPort, Compose, WriteFirst,
         WriteSecond, CommandAnswered, CommandTimeout, DataStage, StatusStage, TransferAnswered,
         TransferTimeout, device
<1>6. Controller => (\E ok \in BOOLEAN : ExecuteCommand(ok)) \/ CommandRingEmpty \/ UNCHANGED ctrl
  BY DEF Controller, ExecuteTransfer, TransferRingEmpty, FailTransfer
<1>7. Interrupt => UNCHANGED ctrl
  BY DEF Interrupt
<1> QED
  BY <1>1, <1>2, <1>3, <1>4, <1>5, <1>6, <1>7 DEF Next

LEMMA AgreedStep ==
  ASSUME IndInv, Next
  PROVE  Agreed'
<1>a. /\ cmnd_trb \in 0 .. Last /\ cmnd_trb < Last
      /\ cmnd_trb' \in Nat /\ cmnd_trb' >= cmnd_trb
      /\ ring \in [0 .. Last -> Trb]
  BY RoomLeft, CmndTrbGrows DEF IndInv, Memory
<1>b. /\ \A c \in history.completed : c.trb \in Nat
      /\ Agreed
  BY DEF IndInv, Typed
<1>1. CASE WriteFirst \/ WriteSecond
  <2>1. UNCHANGED <<events, history>>
    BY <1>1 DEF WriteFirst, WriteSecond, device, ghosts
  <2>2. \A i \in 0 .. Last : i # cmnd_trb => ring'[i] = ring[i]
    BY <1>1, <1>a, WriteSecondPlain DEF WriteFirst
  <2>3. ring[cmnd_trb].done = FALSE
    BY DEF IndInv, Order, NoTrb, HalfTrb
  <2>4. ring'[cmnd_trb].done = FALSE
    <3>1. Written(WriteOrder[1], ring[cmnd_trb]).done = FALSE
      BY <1>a DEF Written, WriteOrder, Trb
    <3>2. Written(WriteOrder[2], ring[cmnd_trb]).done = FALSE
      BY <1>a, <2>3 DEF Written, WriteOrder, Trb
    <3> QED
      BY <1>1, <1>a, <3>1, <3>2, WriteSecondPlain DEF WriteFirst
  <2>5. \A c \in history.completed : c.trb \in 0 .. Last /\ c.trb # cmnd_trb
    BY <1>a, <1>b, Sizes DEF Agreed
  <2> QED
    BY <2>1, <2>2, <2>4, <2>5, <1>a, <1>b DEF Agreed
<1>2. ASSUME NEW ok \in BOOLEAN, ExecuteCommand(ok)
      PROVE  Agreed'
  <2> DEFINE new == ring[ctrl.at].type = "ENABLE_SLOT" /\ ok
             id  == IF new THEN ctrl.slots + 1 ELSE ring[ctrl.at].slot
             e   == [type |-> "command", ok |-> ok, trb |-> ctrl.at, slot |-> id]
             c   == [trb |-> ctrl.at, slot |-> id]
  <2>1. ctrl.at \in 0 .. Last /\ ctrl.at < cmnd_trb
    BY <1>2, ExecutesOnlySent
  <2>2. UNCHANGED <<ring, cmnd_trb>>
    BY <1>2 DEF ExecuteCommand, program, sending, memory
  <2>3. events' = Append(events, e)
    BY <1>2 DEF ExecuteCommand
  <2>4. ~(ring[ctrl.at].type = "ADDRESS_DEVICE" /\ ring[ctrl.at].param = 0)
    BY <2>1, <1>a DEF IndInv, Order
  <2>5. /\ history'.completed = IF ok THEN history.completed \cup {c} ELSE history.completed
        /\ history'.torn = FALSE
    BY <1>2, <1>b, <2>4 DEF ExecuteCommand, IndInv, Typed, Agreed
  <2>6. ok => ring[c.trb].type = "ENABLE_SLOT" \/ ring[c.trb].slot = c.slot
    OBVIOUS
  <2>7. c.trb = ctrl.at /\ e.trb = c.trb /\ e.slot = c.slot /\ e.ok = ok
    OBVIOUS
  <2>8. \A k \in DOMAIN events' :
          (k \in DOMAIN events /\ events'[k] = events[k]) \/ events'[k] = e
    <3> HIDE DEF e
    <3> QED
      BY <2>3 DEF IndInv, Typed
  <2>9. \A k \in DOMAIN events' :
          events'[k].type = "command" /\ events'[k].ok =>
            [trb |-> events'[k].trb, slot |-> events'[k].slot] \in history'.completed
    BY <2>5, <2>8, <1>b DEF Agreed
  <2> HIDE DEF e, c
  <2> QED
    BY <2>1, <2>2, <2>5, <2>6, <2>7, <2>9, <1>b DEF Agreed
<1>3. CASE Interrupt
  <2>1. UNCHANGED <<cmnd_trb, history>> /\ events' = <<>>
    BY <1>3 DEF Interrupt, program, sending, ghosts
  <2>2. ASSUME NEW c \in history.completed
        PROVE  c.trb < cmnd_trb /\ (ring'[c.trb].type = "ENABLE_SLOT" \/ ring'[c.trb].slot = c.slot)
    <3>1. c.trb \in 0 .. Last /\ c.trb < cmnd_trb
      BY <1>a, <1>b, Sizes DEF Agreed
    <3>2. ring[c.trb].type = "ENABLE_SLOT" \/ ring[c.trb].slot = c.slot
      BY <1>b DEF Agreed
    <3>3. ring'[c.trb].type = ring[c.trb].type
      BY <1>3, <3>1, InterruptOnRing
    <3>4. ring[c.trb].type # "ENABLE_SLOT" => ring'[c.trb].slot = ring[c.trb].slot
      <4>1. ring[c.trb].type # "ENABLE_SLOT" => Answered(c.trb).slot = ring[c.trb].slot
        BY <1>a, <3>1 DEF Answered, Trb
      <4> QED
        BY <1>3, <3>1, <4>1, InterruptOnRing
    <3> QED
      BY <3>1, <3>2, <3>3, <3>4
  <2>3. ASSUME NEW i \in 0 .. Last, ring'[i].done
        PROVE  [trb |-> i, slot |-> ring'[i].slot] \in history.completed
    <3>1. CASE ring'[i] = ring[i]
      BY <3>1, <2>3, <1>b DEF Agreed
    <3>2. CASE ring'[i] = Answered(i) /\ \E k \in DOMAIN events : Marks(k, i)
      <4>1. PICK k \in DOMAIN events : /\ Completion(i) = events[k]
                                      /\ events[k].type = "command" /\ events[k].ok
                                      /\ events[k].trb = i
        BY <3>2, CompletionOf
      <4>2. [trb |-> i, slot |-> events[k].slot] \in history.completed
        BY <4>1, <1>b DEF Agreed
      <4>3. CASE ring[i].type = "ENABLE_SLOT"
        <5>1. Answered(i).slot = events[k].slot
          BY <4>1, <4>3, <1>a DEF Answered, Trb
        <5> QED
          BY <3>2, <4>2, <5>1
      <4>4. CASE ring[i].type # "ENABLE_SLOT"
        <5>1. Answered(i).slot = ring[i].slot
          BY <4>4, <1>a DEF Answered, Trb
        <5>2. ring[i].slot = events[k].slot
          <6> DEFINE c == [trb |-> i, slot |-> events[k].slot]
          <6>1. c \in history.completed /\ c.trb = i /\ c.slot = events[k].slot
            BY <4>2
          <6> HIDE DEF c
          <6> QED
            BY <6>1, <4>4, <1>b DEF Agreed
        <5> QED
          BY <3>2, <4>2, <5>1, <5>2
      <4> QED
        BY <4>3, <4>4
    <3> QED
      BY <3>1, <3>2, <1>3, InterruptOnRing
  <2> QED
    BY <2>1, <2>2, <2>3, <1>b DEF Agreed
<1>4. ASSUME NEW s \in DOMAIN xfers,
             ExecuteTransfer(s) \/ \E told \in BOOLEAN : FailTransfer(s, told)
      PROVE  Agreed'
  <2>1. UNCHANGED <<ring, cmnd_trb>>
    BY <1>4 DEF ExecuteTransfer, FailTransfer, program, sending, memory
  <2>2. history'.completed = history.completed /\ history'.torn = history.torn
    BY <1>4 DEF ExecuteTransfer, FailTransfer, ghosts, IndInv, Typed
  <2>3. events' = events \/ \E e : e.type = "transfer" /\ events' = Append(events, e)
    BY <1>4 DEF ExecuteTransfer, FailTransfer
  <2>4. \A k \in DOMAIN events' :
          events'[k].type = "transfer" \/ (k \in DOMAIN events /\ events'[k] = events[k])
    BY <2>3 DEF IndInv, Typed
  <2> QED
    BY <2>1, <2>2, <2>4, <1>b DEF Agreed
<1>5. CASE /\ UNCHANGED <<ring, cmnd_trb, events>>
           /\ history'.completed = history.completed /\ history'.torn = history.torn
  BY <1>5, <1>b DEF Agreed
<1>6. Program => \/ WriteFirst \/ WriteSecond
                 \/ /\ UNCHANGED <<ring, cmnd_trb, events>>
                    /\ history'.completed = history.completed /\ history'.torn = history.torn
  BY DEF Program, SkipPort, EndOfPorts, FirstReset, SecondReset, ResetPort, Compose, Doorbell,
         CommandAnswered, CommandTimeout, DataStage, StatusStage, TransferAnswered, TransferGood,
         TransferBad, TransferTimeout, memory, device, sending, ghosts, IndInv, Typed
<1>7. Controller => \/ \E ok \in BOOLEAN : ExecuteCommand(ok)
                    \/ \E s \in DOMAIN xfers :
                         ExecuteTransfer(s) \/ \E told \in BOOLEAN : FailTransfer(s, told)
                    \/ UNCHANGED <<ring, cmnd_trb, events, history>>
  BY DEF Controller, CommandRingEmpty, TransferRingEmpty, program, sending, memory, ghosts
<1> QED
  BY <1>1, <1>2, <1>3, <1>4, <1>5, <1>6, <1>7 DEF Next

-----------------------------------------------------------------------------
CallTyped == <<port, step>> \in Call

LEMMA ReadingCall ==
  ASSUME IndInv, Reading
  PROVE  CallTyped
  BY DEF IndInv, Place, Call, CallTyped

LEMMA TypedDataStage ==
  ASSUME IndInv, DataStage
  PROVE  Typed'
<1>a. /\ \A s \in DOMAIN xfers : xfers[s] \in Endpoint
      /\ StatusAt \in Nat /\ <<port, step>> \in Call
  BY ReadingCall, BlocksNat DEF IndInv, Typed, Memory, DataStage, Reading, CallTyped
<1>1. UNCHANGED <<events, history>>
  BY DEF DataStage, ghosts
<1>2. CASE UNCHANGED xfers
  BY <1>1, <1>2 DEF IndInv, Typed
<1>3. CASE ~UNCHANGED xfers
  <2> DEFINE old == IF slot_id \in DOMAIN xfers THEN xfers[slot_id]
                    ELSE [queue |-> <<>>, state |-> "stopped"]
             new == [old EXCEPT !.queue = Append(old.queue, EventData("data", StatusAt))]
  <2>1. old \in Endpoint
    BY <1>a DEF Endpoint
  <2>2. EventData("data", StatusAt) \in Xfer
    BY <1>a DEF EventData, Xfer
  <2>3. new \in Endpoint
    <3> HIDE DEF old
    <3>1. Append(old.queue, EventData("data", StatusAt)) \in Seq(Xfer)
      BY <2>1, <2>2 DEF Endpoint
    <3> QED
      BY <2>1, <3>1 DEF Endpoint
  <2>4. xfers' = Put(xfers, slot_id, new)
    BY <1>3 DEF DataStage
  <2> HIDE DEF new
  <2>5. \A s \in DOMAIN xfers' : xfers'[s] \in Endpoint
    BY <2>3, <2>4, <1>a DEF Put
  <2> QED
    BY <1>1, <2>5 DEF IndInv, Typed
<1> QED
  BY <1>2, <1>3

LEMMA TypedStatusStage ==
  ASSUME IndInv, StatusStage
  PROVE  Typed'
<1>a. /\ \A s \in DOMAIN xfers : xfers[s] \in Endpoint
      /\ status_addr \in Nat /\ <<port, step>> \in Call
  BY ReadingCall DEF IndInv, Typed, Memory, StatusStage, Reading, CallTyped
<1>1. UNCHANGED <<events, history>>
  BY DEF StatusStage, ghosts
<1> DEFINE new == [queue |-> Append(xfers[slot_id].queue, EventData("status", status_addr)),
                   state |-> IF xfers[slot_id].state = "halted" THEN xfers[slot_id].state
                             ELSE "running"]
<1>2. xfers' = [xfers EXCEPT ![slot_id] = new]
  BY DEF StatusStage
<1>3. slot_id \in DOMAIN xfers => new \in Endpoint
  <2>1. EventData("status", status_addr) \in Xfer
    BY <1>a DEF EventData, Xfer
  <2> QED
    BY <2>1, <1>a DEF Endpoint
<1> HIDE DEF new
<1>4. \A s \in DOMAIN xfers' : xfers'[s] \in Endpoint
  BY <1>2, <1>3, <1>a
<1> QED
  BY <1>1, <1>4 DEF IndInv, Typed

LEMMA TypedCommand ==
  ASSUME IndInv, NEW ok \in BOOLEAN, ExecuteCommand(ok)
  PROVE  Typed'
<1> DEFINE id == IF ring[ctrl.at].type = "ENABLE_SLOT" /\ ok THEN ctrl.slots + 1
                 ELSE ring[ctrl.at].slot
           e  == [type |-> "command", ok |-> ok, trb |-> ctrl.at, slot |-> id]
           c  == [trb |-> ctrl.at, slot |-> id]
<1>1. ctrl.at \in Nat /\ ctrl.slots \in Nat /\ ring[ctrl.at].slot \in Nat
  BY ExecutesOnlySent DEF IndInv, Memory, Device, Trb
<1>2. id \in Nat
  BY <1>1
<1> HIDE DEF id
<1>3. e \in Event /\ c \in [trb : Nat, slot : Nat]
  BY <1>1, <1>2 DEF Event
<1>4. events' = Append(events, e) /\ UNCHANGED xfers
  BY DEF ExecuteCommand, id
<1> DEFINE all == IF ok THEN history.completed \cup {c} ELSE history.completed
           bad == history.torn \/ (ring[ctrl.at].type = "ADDRESS_DEVICE" /\ ring[ctrl.at].param = 0)
<1>5. history' = [history EXCEPT !.completed = all, !.torn = bad]
  BY DEF ExecuteCommand, id
<1> HIDE DEF e, c
<1>6. events' \in Seq(Event)
  BY <1>3, <1>4 DEF IndInv, Typed
<1>7. all \in SUBSET [trb : Nat, slot : Nat] /\ bad \in BOOLEAN
  BY <1>3 DEF IndInv, Typed
<1> HIDE DEF all, bad
<1>8. history' \in [completed : SUBSET [trb : Nat, slot : Nat], delivered : SUBSET Call,
                    accepted : SUBSET Call, torn : BOOLEAN]
  BY <1>5, <1>7 DEF IndInv, Typed
<1> QED
  BY <1>4, <1>6, <1>8 DEF IndInv, Typed

LEMMA TypedTransfer ==
  ASSUME IndInv, NEW s \in DOMAIN xfers,
         \/ ExecuteTransfer(s) \/ TransferRingEmpty(s)
         \/ \E told \in BOOLEAN : FailTransfer(s, told)
  PROVE  Typed'
<1>a. xfers[s] \in Endpoint /\ Typed
  BY DEF IndInv, Typed
<1> DEFINE td == Head(xfers[s].queue)
           done == [type |-> "transfer", ok |-> TRUE, addr |-> td.addr]
           error == [type |-> "transfer", ok |-> FALSE, addr |-> td.addr]
<1>1. xfers[s].queue # <<>> => td \in Xfer /\ Tail(xfers[s].queue) \in Seq(Xfer)
  BY <1>a DEF Endpoint
<1> HIDE DEF td
<1>2. xfers[s].queue # <<>> => done \in Event /\ error \in Event
  BY <1>1 DEF Event, Xfer
<1> HIDE DEF done, error
<1>3. \A f : f \in Endpoint /\ xfers' = [xfers EXCEPT ![s] = f] =>
            \A r \in DOMAIN xfers' : xfers'[r] \in Endpoint
  BY <1>a DEF Typed
<1>4. CASE ExecuteTransfer(s)
  <2>1. [xfers[s] EXCEPT !.queue = Tail(xfers[s].queue)] \in Endpoint
    BY <1>4, <1>1, <1>a DEF ExecuteTransfer, Endpoint
  <2>2. events' = Append(events, done) /\ done \in Event
    BY <1>4, <1>2 DEF ExecuteTransfer, done, td
  <2>3. history' = [history EXCEPT !.delivered = history.delivered \cup {td.call}]
          \/ history' = history
    BY <1>4 DEF ExecuteTransfer, td
  <2>4. td.call \in Call
    BY <1>4, <1>1 DEF ExecuteTransfer, Xfer
  <2>5. history' \in [completed : SUBSET [trb : Nat, slot : Nat], delivered : SUBSET Call,
                      accepted : SUBSET Call, torn : BOOLEAN]
    BY <2>3, <2>4, <1>a DEF Typed
  <2>6. \A r \in DOMAIN xfers' : xfers'[r] \in Endpoint
    BY <1>4, <1>3, <2>1 DEF ExecuteTransfer
  <2> QED
    BY <2>2, <2>5, <2>6, <1>a DEF Typed
<1>5. CASE TransferRingEmpty(s)
  <2>1. [xfers[s] EXCEPT !.state = "stopped"] \in Endpoint
    BY <1>a DEF Endpoint
  <2> QED
    BY <1>5, <1>3, <1>a, <2>1 DEF TransferRingEmpty, ghosts, Typed
<1>6. ASSUME NEW told \in BOOLEAN, FailTransfer(s, told)
      PROVE  Typed'
  <2>1. [xfers[s] EXCEPT !.state = "halted"] \in Endpoint
    BY <1>a DEF Endpoint
  <2>2. events' = events \/ (events' = Append(events, error) /\ error \in Event)
    BY <1>6, <1>2 DEF FailTransfer, error, td
  <2>3. events' \in Seq(Event)
    BY <2>2, <1>a DEF Typed
  <2> QED
    BY <1>6, <1>3, <1>a, <2>1, <2>3 DEF FailTransfer, ghosts, Typed
<1> QED
  BY <1>4, <1>5, <1>6

LEMMA TypedStep ==
  ASSUME IndInv, Next
  PROVE  Typed'
<1>a. Typed
  BY DEF IndInv
<1>1. CASE TransferAnswered
  <2>1. CallTyped
    BY <1>1, ReadingCall DEF TransferAnswered, Reading
  <2>2. UNCHANGED <<xfers, events>>
    BY <1>1 DEF TransferAnswered, device
  <2>3. \/ history' = [history EXCEPT !.accepted = history.accepted \cup {<<port, step>>}]
        \/ history' = history
    BY <1>1 DEF TransferAnswered, TransferGood, TransferBad
  <2> QED
    BY <2>1, <2>2, <2>3, <1>a DEF Typed, CallTyped
<1>2. CASE Interrupt
  BY <1>2, <1>a DEF Interrupt, ghosts, Typed
<1>3. CASE UNCHANGED <<xfers, events, history>>
  BY <1>3, <1>a DEF Typed
<1>4. Program => \/ DataStage \/ StatusStage \/ TransferAnswered
                 \/ UNCHANGED <<xfers, events, history>>
  BY DEF Program, SkipPort, EndOfPorts, FirstReset, SecondReset, ResetPort, Compose, WriteFirst,
         WriteSecond, Doorbell, CommandAnswered, CommandTimeout, TransferTimeout, device, ghosts
<1>5. Controller => \/ \E ok \in BOOLEAN : ExecuteCommand(ok)
                    \/ \E s \in DOMAIN xfers :
                         \/ ExecuteTransfer(s) \/ TransferRingEmpty(s)
                         \/ \E told \in BOOLEAN : FailTransfer(s, told)
                    \/ UNCHANGED <<xfers, events, history>>
  BY DEF Controller, CommandRingEmpty, ghosts
<1> QED
  BY <1>1, <1>2, <1>3, <1>4, <1>5, TypedDataStage, TypedStatusStage, TypedCommand, TypedTransfer
     DEF Next

-----------------------------------------------------------------------------
LEMMA Stutter ==
  ASSUME IndInv, UNCHANGED vars
  PROVE  IndInv'
<1>1. Place' /\ Room'
  BY DEF IndInv, vars, program, sending, Place, Room, Ndp, Commanding, Writing, Waiting, Reading,
         Bound
<1>2. Memory' /\ Order' /\ Device'
  BY DEF IndInv, vars, program, sending, answer, memory, device, Memory, Order, HalfTrb, Device
<1>3. Typed' /\ Agreed'
  BY DEF IndInv, vars, program, sending, memory, device, ghosts, Typed, Agreed
<1> QED
  BY <1>1, <1>2, <1>3 DEF IndInv

(* The inductive invariant: where the program is and how much of the ring it
   has used by then, what the ring holds in front of and behind its place, and
   that events, history and marks on the ring speak of the same commands. *)
THEOREM XhciInductive == Spec => []IndInv
<1>1. Init => IndInv
  BY InitInv
<1>2. IndInv /\ [Next]_vars => IndInv'
  <2>1. IndInv /\ Next => IndInv'
    BY PlaceStep, MemoryStep, OrderStep, DeviceStep, TypedStep, AgreedStep DEF IndInv
  <2> QED
    BY <2>1, Stutter
<1> QED
  BY <1>1, <1>2, PTL DEF Spec

(* The command ring is used once, from the front, and never wraps
   (xhci_send_command, for the calls process_xhci makes of it). *)
THEOREM XhciRingInOrder == Spec => []RingInOrder
<1>1. IndInv => RingInOrder
  BY RoomLeft DEF IndInv, Order, Device, RingInOrder
<1> QED
  BY <1>1, XhciInductive, PTL

(* The controller never executes a command whose parameter is not written
   (the order of the writes of xhci_send_command). *)
THEOREM XhciNeverTorn == Spec => []NeverTorn
<1>1. IndInv => NeverTorn
  BY DEF IndInv, Agreed, NeverTorn
<1> QED
  BY <1>1, XhciInductive, PTL

(* A command marked as done is one the controller executed, with the slot it
   granted (xhci_irq, whenever it comes). *)
THEOREM XhciAnswersMatch == Spec => []AnswersMatch
<1>1. IndInv => AnswersMatch
  <2> SUFFICES ASSUME IndInv, NEW i \in 0 .. Last, ring[i].done
               PROVE  \E c \in history.completed : c.trb = i /\ c.slot = ring[i].slot
    BY DEF AnswersMatch
  <2>1. [trb |-> i, slot |-> ring[i].slot] \in history.completed
    BY DEF IndInv, Agreed
  <2> QED
    BY <2>1
<1> QED
  BY <1>1, XhciInductive, PTL

-----------------------------------------------------------------------------
(* What the program takes for an answer *)

(* The program waits for a transfer, or is about to. *)
Pending == pc \in {"status", "answer"}
Here    == <<port, step>>
Below(a) == a < HEAP_START + cur_heap_ptr

(* Every address on its way is one that heap_alloc has given out. *)
Fresh ==
  /\ Pending => Below(status_addr)
  /\ \A s \in DOMAIN xfers : \A n \in DOMAIN xfers[s].queue : Below(xfers[s].queue[n].addr)
  /\ \A k \in DOMAIN events : events[k].type = "transfer" => Below(events[k].addr)

(* td is about the transfer in progress. *)
Names(td, stage) == td.addr = status_addr /\ td.stage = stage

(* On a ring the status of the transfer in progress has its data before it. *)
DataFirst(q) ==
  \A n \in DOMAIN q : Names(q[n], "status") => \E m \in 1 .. n - 1 : Names(q[m], "data")

(* Nothing that could be taken for its answer is there. *)
Unanswered ==
  /\ dword[status_addr] # "ok"
  /\ \A k \in DOMAIN events : Stores(k, status_addr) => ~events[k].ok
  /\ DataFirst(xfers[slot_id].queue)
  /\ pc = "status" => \E m \in DOMAIN xfers[slot_id].queue : Names(xfers[slot_id].queue[m], "data")

Current ==
  Pending =>
    /\ slot_id \in DOMAIN xfers /\ status_addr \in DOMAIN dword
    /\ \A s \in DOMAIN xfers : \A n \in DOMAIN xfers[s].queue :
         xfers[s].queue[n].addr = status_addr => s = slot_id /\ xfers[s].queue[n].call = Here
    /\ Here \notin history.delivered => Unanswered

ReadsInv == Fresh /\ Current /\ ReadsAreDelivered

(* A set of numbers that is not empty has a least one. *)
LEMMA LeastNat ==
  ASSUME NEW T, T \subseteq Nat, T # {}
  PROVE  \E x \in T : \A y \in T : x <= y
<1>1. IsWellFoundedOn({ss \in Nat \X Nat : ss[1] < ss[2]}, Nat)
  BY NatLessThanWellFounded DEF OpToRel
<1>2. PICK x \in T : \A y \in T : ~(<<y, x>> \in {ss \in Nat \X Nat : ss[1] < ss[2]})
  BY <1>1, WFMin
<1>3. \A y \in T : y \in Nat /\ x \in Nat /\ ~(y < x)
  BY <1>2
<1>4. \A y \in T : x <= y
  BY <1>3
<1> QED
  BY <1>4

(* The last of the events that store to a. *)
LEMMA LastOf ==
  ASSUME Typed, NEW a, \E k \in DOMAIN events : Stores(k, a)
  PROVE  \E k \in DOMAIN events : Stores(k, a) /\ LastStored(a) = events[k]
<1> DEFINE S == {k \in DOMAIN events : Stores(k, a)}
           T == {Len(events) - k : k \in S}
<1>1. events \in Seq(Event) /\ DOMAIN events = 1 .. Len(events) /\ Len(events) \in Nat
  BY DEF Typed
<1>2. T \subseteq Nat /\ T # {}
  BY <1>1
<1>3. PICK x \in T : \A y \in T : x <= y
  <2> HIDE DEF T
  <2> QED
    BY <1>2, LeastNat
<1>4. PICK k \in S : x = Len(events) - k
  BY <1>3
<1>5. \A j \in S : j <= k
  <2> TAKE j \in S
  <2>1. Len(events) - k <= Len(events) - j
    BY <1>3, <1>4
  <2> QED
    BY <2>1, <1>1
<1>6. \E m \in DOMAIN events : Stores(m, a) /\ \A j \in DOMAIN events : Stores(j, a) => j <= m
  BY <1>4, <1>5
<1>7. PICK m \in DOMAIN events :
        /\ Stores(m, a)
        /\ m = CHOOSE l \in DOMAIN events :
                 Stores(l, a) /\ \A j \in DOMAIN events : Stores(j, a) => j <= l
  BY <1>6
<1> QED
  BY <1>7 DEF LastStored

-----------------------------------------------------------------------------
(* What heap_alloc takes lies behind the pointer. *)
LEMMA BlockBehind ==
  ASSUME NEW ptr \in Nat, NEW size \in Nat, NEW alignment \in Nat \ {0}, NEW boundary \in Nat
  PROVE  /\ BlockEnd(ptr, size, alignment, boundary) \in Nat
         /\ ptr <= BlockEnd(ptr, size, alignment, boundary)
<1> DEFINE at  == BlockAt(ptr, size, alignment, boundary)
           end == BlockEnd(ptr, size, alignment, boundary)
<1>1. at \in Nat /\ end \in Nat /\ ptr <= at /\ at + size <= end
  BY BlockPlace
<1> HIDE DEF at, end
<1>2. ptr <= end
  BY <1>1
<1> QED
  BY <1>1, <1>2 DEF end

(* heap_alloc never goes back. *)
LEMMA HeapGrows ==
  ASSUME IndInv, Next
  PROVE  cur_heap_ptr \in Nat /\ cur_heap_ptr' \in Nat /\ cur_heap_ptr <= cur_heap_ptr'
<1>1. cur_heap_ptr \in Nat
  BY DEF IndInv, Memory
<1>2. ContextSize * 32 \in Nat /\ ContextSize * 2 \in Nat /\ TRBS_PER_RING * 16 \in Nat
  BY Sizes
<1>3. /\ BlockEnd(cur_heap_ptr, ContextSize * 32, 64, PageSize) \in Nat
      /\ cur_heap_ptr <= BlockEnd(cur_heap_ptr, ContextSize * 32, 64, PageSize)
  BY <1>1, <1>2, BlockBehind, Sizes
<1>4. SlotMemoryEnd \in Nat /\ cur_heap_ptr <= SlotMemoryEnd
  <2>1. ContextsEnd \in Nat /\ cur_heap_ptr <= ContextsEnd
    BY <1>1, <1>2, BlockBehind, Sizes DEF ContextsEnd
  <2>2. SlotMemoryEnd \in Nat /\ ContextsEnd <= SlotMemoryEnd
    BY <2>1, <1>2, BlockBehind, Sizes, SMT DEF SlotMemoryEnd
  <2> QED
    BY <1>1, <2>1, <2>2
<1>5. BufferEnd \in Nat /\ cur_heap_ptr <= BufferEnd
  <2>1. StatusEnd \in Nat /\ cur_heap_ptr <= StatusEnd
    BY <1>1, BlockBehind DEF StatusEnd
  <2>2. BufferEnd \in Nat /\ StatusEnd <= BufferEnd
    BY <2>1, BlockBehind DEF BufferEnd
  <2> QED
    BY <1>1, <2>1, <2>2
<1>6. Next => \/ cur_heap_ptr' = cur_heap_ptr
              \/ cur_heap_ptr' = BlockEnd(cur_heap_ptr, ContextSize * 32, 64, PageSize)
              \/ cur_heap_ptr' = SlotMemoryEnd
              \/ cur_heap_ptr' = BufferEnd
  BY DEF Next, Program, Controller, SkipPort, EndOfPorts, FirstReset, SecondReset, ResetPort,
         Compose, WriteFirst, WriteSecond, Doorbell, CommandAnswered, SlotEnabled, Addressed,
         CommandTimeout, DataStage, StatusStage, TransferAnswered, TransferTimeout,
         ExecuteCommand, CommandRingEmpty, ExecuteTransfer, TransferRingEmpty, FailTransfer,
         Interrupt, program
<1> QED
  BY <1>1, <1>3, <1>4, <1>5, <1>6

(* The status dword of a new transfer is where nothing was. *)
LEMMA NewStatus ==
  ASSUME IndInv
  PROVE  /\ StatusAt \in Nat /\ HEAP_START + cur_heap_ptr <= StatusAt
         /\ BufferEnd \in Nat /\ StatusAt < HEAP_START + BufferEnd
<1>1. cur_heap_ptr \in Nat
  BY DEF IndInv, Memory
<1> DEFINE at == BlockAt(cur_heap_ptr, 4, 16, 16)
<1>2. at \in Nat /\ StatusEnd \in Nat /\ cur_heap_ptr <= at /\ at + 4 <= StatusEnd
  BY <1>1, BlockPlace DEF StatusEnd
<1>4. StatusAt = HEAP_START + at
  BY DEF StatusAt
<1> HIDE DEF at
<1>3. BufferEnd \in Nat /\ StatusEnd <= BufferEnd
  BY <1>2, BlockBehind DEF BufferEnd
<1> QED
  BY <1>1, <1>2, <1>3, <1>4, HeapStart

LEMMA StillBelow ==
  ASSUME IndInv, Next, NEW a \in Nat, Below(a)
  PROVE  Below(a)'
  BY HeapGrows, HeapStart DEF Below

(* What is behind the head of a sequence. *)
LEMMA TailItem ==
  ASSUME NEW S, NEW q \in Seq(S), q # <<>>, NEW n \in DOMAIN Tail(q)
  PROVE  n \in Nat \ {0} /\ n + 1 \in DOMAIN q /\ Tail(q)[n] = q[n + 1]
<1>1. Len(q) \in Nat \ {0} /\ DOMAIN q = 1 .. Len(q)
  OBVIOUS
<1>2. Tail(q) \in Seq(S) /\ Len(Tail(q)) = Len(q) - 1
  BY <1>1
<1>3. n \in 1 .. Len(q) - 1
  BY <1>2
<1> QED
  BY <1>1, <1>3

(* After a step an endpoint has to do what it had to do before, and what the program
   has asked for in this step. *)
LEMMA QueueItems ==
  ASSUME IndInv, Next, NEW s \in DOMAIN xfers', NEW n \in DOMAIN xfers'[s].queue
  PROVE  LET td == xfers'[s].queue[n]
         IN  \/ s \in DOMAIN xfers /\ \E m \in DOMAIN xfers[s].queue : td = xfers[s].queue[m]
             \/ DataStage /\ status_addr' = StatusAt /\ s = slot_id /\ td = EventData("data", StatusAt)
             \/ StatusStage /\ s = slot_id /\ td = EventData("status", status_addr)
<1> DEFINE td == xfers'[s].queue[n]
           Old == s \in DOMAIN xfers /\ \E m \in DOMAIN xfers[s].queue : td = xfers[s].queue[m]
<1>a. \A r \in DOMAIN xfers : xfers[r] \in Endpoint /\ xfers[r].queue \in Seq(Xfer)
  BY DEF IndInv, Typed, Endpoint
<1>1. CASE DataStage
  <2>1. CASE UNCHANGED xfers
    BY <2>1
  <2>2. CASE ~UNCHANGED xfers
    <3> DEFINE old == IF slot_id \in DOMAIN xfers THEN xfers[slot_id]
                      ELSE [queue |-> <<>>, state |-> "stopped"]
               new == [old EXCEPT !.queue = Append(old.queue, EventData("data", StatusAt))]
    <3>1. xfers' = Put(xfers, slot_id, new) /\ status_addr' = StatusAt
      BY <1>1, <2>2 DEF DataStage
    <3>2. old.queue \in Seq(Xfer) /\ new.queue = Append(old.queue, EventData("data", StatusAt))
      BY <1>a DEF Endpoint
    <3>3. CASE s # slot_id
      <4> HIDE DEF new, old
      <4>1. s \in DOMAIN xfers /\ xfers'[s] = xfers[s]
        BY <3>1, <3>3 DEF Put
      <4> QED
        BY <4>1
    <3>4. CASE s = slot_id
      <4>1. xfers'[s].queue = Append(old.queue, EventData("data", StatusAt))
        <5> HIDE DEF old, new
        <5> QED
          BY <3>1, <3>2, <3>4 DEF Put
      <4>2. \/ n \in DOMAIN old.queue /\ td = old.queue[n]
            \/ td = EventData("data", StatusAt)
        <5> HIDE DEF old, new
        <5> QED
          BY <4>1, <3>2
      <4>3. n \in DOMAIN old.queue /\ td = old.queue[n] => Old
        BY <3>4
      <4> HIDE DEF old, new, td
      <4> QED
        BY <1>1, <3>1, <3>4, <4>2, <4>3 DEF td
    <3> QED
      BY <3>3, <3>4
  <2> QED
    BY <2>1, <2>2
<1>2. CASE StatusStage
  <2> DEFINE q == Append(xfers[slot_id].queue, EventData("status", status_addr))
             new == [queue |-> q,
                     state |-> IF xfers[slot_id].state = "halted" THEN xfers[slot_id].state
                               ELSE "running"]
  <2>1. xfers' = [xfers EXCEPT ![slot_id] = new]
    BY <1>2 DEF StatusStage
  <2>2. s \in DOMAIN xfers /\ (s # slot_id => xfers'[s] = xfers[s])
          /\ (s = slot_id => xfers'[s].queue = q)
    BY <2>1
  <2>3. CASE s # slot_id
    BY <2>2, <2>3
  <2>4. CASE s = slot_id
    <3>1. xfers[s].queue \in Seq(Xfer) /\ xfers'[s].queue = Append(xfers[s].queue, EventData("status", status_addr))
      BY <2>2, <2>4, <1>a
    <3>2. \/ n \in DOMAIN xfers[s].queue /\ td = xfers[s].queue[n]
          \/ td = EventData("status", status_addr)
      BY <3>1
    <3> QED
      BY <1>2, <2>2, <2>4, <3>2
  <2> QED
    BY <2>3, <2>4
<1>3. ASSUME NEW r \in DOMAIN xfers, ExecuteTransfer(r) PROVE Old
  <2>1. xfers' = [xfers EXCEPT ![r].queue = Tail(xfers[r].queue)] /\ xfers[r].queue # <<>>
    BY <1>3 DEF ExecuteTransfer
  <2>2. s \in DOMAIN xfers /\ (s # r => xfers'[s] = xfers[s])
          /\ (s = r => xfers'[s].queue = Tail(xfers[r].queue))
    BY <2>1, <1>a DEF Endpoint
  <2>3. CASE s # r
    BY <2>2, <2>3
  <2>4. CASE s = r
    <3>1. n + 1 \in DOMAIN xfers[s].queue /\ td = xfers[s].queue[n + 1]
      <4> DEFINE q == xfers[s].queue
      <4>1. q \in Seq(Xfer) /\ q # <<>> /\ xfers'[s].queue = Tail(q)
        BY <2>1, <2>2, <2>4, <1>a
      <4> HIDE DEF q
      <4>2. n + 1 \in DOMAIN q /\ Tail(q)[n] = q[n + 1]
        BY <4>1, TailItem
      <4> QED
        BY <4>1, <4>2 DEF q
    <3> QED
      BY <2>2, <3>1
  <2> QED
    BY <2>3, <2>4
<1>4. ASSUME NEW r \in DOMAIN xfers,
             TransferRingEmpty(r) \/ \E told \in BOOLEAN : FailTransfer(r, told)
      PROVE  Old
  <2>1. \E st : xfers' = [xfers EXCEPT ![r].state = st]
    BY <1>4 DEF TransferRingEmpty, FailTransfer
  <2>2. s \in DOMAIN xfers /\ xfers'[s].queue = xfers[s].queue
    BY <2>1, <1>a DEF Endpoint
  <2> QED
    BY <2>2
<1>5. CASE UNCHANGED xfers
  BY <1>5
<1>6. Next => \/ DataStage \/ StatusStage
              \/ \E r \in DOMAIN xfers :
                   \/ ExecuteTransfer(r) \/ TransferRingEmpty(r)
                   \/ \E told \in BOOLEAN : FailTransfer(r, told)
              \/ UNCHANGED xfers
  BY DEF Next, Program, Controller, SkipPort, EndOfPorts, FirstReset, SecondReset, ResetPort,
         Compose, WriteFirst, WriteSecond, Doorbell, CommandAnswered, CommandTimeout,
         TransferAnswered, TransferTimeout, ExecuteCommand, CommandRingEmpty, Interrupt, device
<1> HIDE DEF Old, td
<1>7. \/ DataStage /\ status_addr' = StatusAt /\ s = slot_id /\ td = EventData("data", StatusAt)
      \/ StatusStage /\ s = slot_id /\ td = EventData("status", status_addr)
      \/ Old
  BY <1>1, <1>2, <1>3, <1>4, <1>5, <1>6 DEF Old, td
<1> QED
  BY <1>7 DEF Old, td

(* A new event about a transfer is about the first one of an endpoint that runs. *)
LEMMA EventItems ==
  ASSUME IndInv, Next, NEW k \in DOMAIN events', events'[k].type = "transfer"
  PROVE  \/ k \in DOMAIN events /\ events'[k] = events[k]
         \/ \E s \in DOMAIN xfers :
              /\ xfers[s].queue # <<>> /\ events'[k].addr = Head(xfers[s].queue).addr
              /\ \/ ExecuteTransfer(s)
                 \/ ~events'[k].ok /\ \E told \in BOOLEAN : FailTransfer(s, told)
<1>a. events \in Seq(Event)
  BY DEF IndInv, Typed
<1> DEFINE Old == k \in DOMAIN events /\ events'[k] = events[k]
<1>1. ASSUME NEW e, events' = Append(events, e)
      PROVE  Old \/ events'[k] = e
  BY <1>1, <1>a
<1>2. ASSUME NEW ok \in BOOLEAN, ExecuteCommand(ok) PROVE Old
  <2>1. \E e : e.type = "command" /\ events' = Append(events, e)
    BY <1>2 DEF ExecuteCommand
  <2> QED
    BY <2>1, <1>1
<1>3. ASSUME NEW s \in DOMAIN xfers, ExecuteTransfer(s)
      PROVE  Old \/ events'[k].addr = Head(xfers[s].queue).addr
  <2>1. events' = Append(events, [type |-> "transfer", ok |-> TRUE,
                                  addr |-> Head(xfers[s].queue).addr])
    BY <1>3 DEF ExecuteTransfer
  <2> QED
    BY <2>1, <1>1
<1>4. ASSUME NEW s \in DOMAIN xfers, NEW told \in BOOLEAN, FailTransfer(s, told)
      PROVE  Old \/ (events'[k].addr = Head(xfers[s].queue).addr /\ ~events'[k].ok)
  <2>1. \/ events' = events
        \/ events' = Append(events, [type |-> "transfer", ok |-> FALSE,
                                     addr |-> Head(xfers[s].queue).addr])
    BY <1>4 DEF FailTransfer
  <2> QED
    BY <2>1, <1>1
<1>5. CASE events' = events \/ events' = <<>>
  BY <1>5
<1>6. Next => \/ \E ok \in BOOLEAN : ExecuteCommand(ok)
              \/ \E s \in DOMAIN xfers :
                   ExecuteTransfer(s) \/ \E told \in BOOLEAN : FailTransfer(s, told)
              \/ events' = events \/ events' = <<>>
  BY DEF Next, Program, Controller, SkipPort, EndOfPorts, FirstReset, SecondReset, ResetPort,
         Compose, WriteFirst, WriteSecond, Doorbell, CommandAnswered, CommandTimeout, DataStage,
         StatusStage, TransferAnswered, TransferTimeout, CommandRingEmpty, TransferRingEmpty,
         Interrupt, device
<1>7. \A s \in DOMAIN xfers :
        ExecuteTransfer(s) \/ (\E told \in BOOLEAN : FailTransfer(s, told)) =>
          xfers[s].queue # <<>>
  BY DEF ExecuteTransfer, FailTransfer
<1> QED
  BY <1>2, <1>3, <1>4, <1>5, <1>6, <1>7

(* Only the stages of a transfer begin to wait for it, or change what is waited for. *)
LEMMA PendingFrom ==
  ASSUME Next, Pending'
  PROVE  \/ DataStage /\ pc' = "status" /\ UNCHANGED <<port, step, slot_id>>
         \/ StatusStage /\ pc' = "answer" /\ UNCHANGED <<port, step, slot_id, status_addr>>
         \/ /\ (Controller /\ UNCHANGED dword) \/ Interrupt
            /\ UNCHANGED <<pc, port, step, slot_id, status_addr>>
<1>1. Program => DataStage \/ StatusStage
  BY DEF Program, Pending, SkipPort, EndOfPorts, FirstReset, SecondReset, ResetPort, Compose,
         WriteFirst, WriteSecond, Doorbell, CommandAnswered, SlotEnabled, Addressed,
         CommandTimeout, TransferAnswered, TransferGood, TransferBad, TransferTimeout, NextPort
<1>2. DataStage => pc' = "status" /\ UNCHANGED <<port, step, slot_id>>
  BY DEF DataStage, Pending
<1>3. StatusStage => pc' = "answer" /\ UNCHANGED <<port, step, slot_id, status_addr>>
  BY DEF StatusStage, answer
<1>4. Controller \/ Interrupt => UNCHANGED <<pc, port, step, slot_id, status_addr>>
  BY DEF Controller, ExecuteCommand, CommandRingEmpty, ExecuteTransfer, TransferRingEmpty,
         FailTransfer, Interrupt, program, answer
<1>5. Controller => UNCHANGED dword
  BY DEF Controller, ExecuteCommand, CommandRingEmpty, ExecuteTransfer, TransferRingEmpty,
         FailTransfer, memory
<1> QED
  BY <1>1, <1>2, <1>3, <1>4, <1>5 DEF Next

LEMMA Addresses ==
  ASSUME IndInv
  PROVE  /\ status_addr \in Nat
         /\ \A s \in DOMAIN xfers : xfers[s].queue \in Seq(Xfer)
         /\ \A s \in DOMAIN xfers : \A n \in DOMAIN xfers[s].queue : xfers[s].queue[n] \in Xfer
         /\ \A s \in DOMAIN xfers : \A n \in DOMAIN xfers[s].queue : xfers[s].queue[n].addr \in Nat
         /\ \A k \in DOMAIN events : events[k].type = "transfer" => events[k].addr \in Nat
<1>1. status_addr \in Nat
  BY DEF IndInv, Memory
<1>2. \A s \in DOMAIN xfers : xfers[s].queue \in Seq(Xfer)
  BY DEF IndInv, Typed, Endpoint
<1>3. ASSUME NEW s \in DOMAIN xfers, NEW n \in DOMAIN xfers[s].queue
      PROVE  xfers[s].queue[n] \in Xfer
  BY <1>2
<1>4. \A td \in Xfer : td.addr \in Nat
  BY DEF Xfer
<1>5. ASSUME NEW k \in DOMAIN events, events[k].type = "transfer"
      PROVE  events[k].addr \in Nat
  <2>1. events[k] \in Event
    BY DEF IndInv, Typed
  <2> QED
    BY <2>1, <1>5 DEF Event
<1> QED
  BY <1>1, <1>2, <1>3, <1>4, <1>5

LEMMA FreshStep ==
  ASSUME IndInv, Fresh, Next
  PROVE  Fresh'
<1> DEFINE end == HEAP_START + cur_heap_ptr'
<1>a. \A a \in Nat : Below(a) => a < end
  BY HeapGrows, HeapStart DEF Below
<1>b. DataStage /\ pc' = "status" => status_addr' = StatusAt /\ StatusAt < end
  <2>1. DataStage /\ pc' = "status" => status_addr' = StatusAt /\ cur_heap_ptr' = BufferEnd
    BY DEF DataStage
  <2> QED
    BY <2>1, NewStatus
<1> HIDE DEF end
<1>1. ASSUME Pending' PROVE status_addr' < end
  <2>1. CASE DataStage /\ pc' = "status"
    BY <1>b, <2>1
  <2>2. CASE status_addr' = status_addr /\ Pending
    BY <2>2, <1>a, Addresses DEF Fresh
  <2>3. StatusStage => Pending
    BY DEF StatusStage, Pending
  <2>4. pc' = pc => Pending
    BY <1>1 DEF Pending
  <2> QED
    BY <1>1, <2>1, <2>2, <2>3, <2>4, PendingFrom
<1>2. ASSUME NEW s \in DOMAIN xfers', NEW n \in DOMAIN xfers'[s].queue
      PROVE  xfers'[s].queue[n].addr < end
  <2> DEFINE td == xfers'[s].queue[n]
  <2>1. ASSUME s \in DOMAIN xfers, NEW m \in DOMAIN xfers[s].queue, td = xfers[s].queue[m]
        PROVE  td.addr < end
    <3>1. xfers[s].queue[m].addr \in Nat /\ Below(xfers[s].queue[m].addr)
      BY <2>1, Addresses DEF Fresh
    <3> QED
      BY <3>1, <2>1, <1>a
  <2>2. ASSUME DataStage, status_addr' = StatusAt, s = slot_id, td = EventData("data", StatusAt)
        PROVE  td.addr < end
    <3>1. CASE pc' = "status"
      BY <1>b, <2>2, <3>1 DEF EventData
    <3>2. CASE pc' # "status"
      <4>1. UNCHANGED xfers
        BY <2>2, <3>2 DEF DataStage
      <4> QED
        BY <4>1, <2>1
    <3> QED
      BY <3>1, <3>2
  <2>3. ASSUME StatusStage, td = EventData("status", status_addr)
        PROVE  td.addr < end
    <3>1. Below(status_addr) /\ td.addr = status_addr
      BY <2>3 DEF StatusStage, Fresh, Pending, EventData
    <3> QED
      BY <3>1, <1>a, Addresses
  <2> QED
    BY <2>1, <2>2, <2>3, QueueItems
<1>3. ASSUME NEW k \in DOMAIN events', events'[k].type = "transfer"
      PROVE  events'[k].addr < end
  <2>1. CASE k \in DOMAIN events /\ events'[k] = events[k]
    <3>1. events[k].addr \in Nat /\ Below(events[k].addr)
      BY <1>3, <2>1, Addresses DEF Fresh
    <3> QED
      BY <2>1, <3>1, <1>a
  <2>2. ASSUME NEW s \in DOMAIN xfers, xfers[s].queue # <<>>,
               events'[k].addr = Head(xfers[s].queue).addr
        PROVE  events'[k].addr < end
    <3>1. 1 \in DOMAIN xfers[s].queue /\ Head(xfers[s].queue) = xfers[s].queue[1]
      BY <2>2, Addresses
    <3>2. xfers[s].queue[1].addr \in Nat /\ Below(xfers[s].queue[1].addr)
      BY <3>1, Addresses DEF Fresh
    <3> QED
      BY <2>2, <3>1, <3>2, <1>a
  <2> QED
    BY <1>3, <2>1, <2>2, EventItems
<1> QED
  BY <1>1, <1>2, <1>3 DEF Fresh, Below, end

-----------------------------------------------------------------------------
(* What the controller has delivered stays delivered. *)
LEMMA DeliveredGrows ==
  ASSUME IndInv, Next
  PROVE  history.delivered \subseteq history'.delivered
<1>1. history \in [completed : SUBSET [trb : Nat, slot : Nat], delivered : SUBSET Call,
                   accepted : SUBSET Call, torn : BOOLEAN]
  BY DEF IndInv, Typed
<1>2. Program \/ Interrupt => history'.delivered = history.delivered
  BY <1>1 DEF Program, SkipPort, EndOfPorts, FirstReset, SecondReset, ResetPort, Compose,
         WriteFirst, WriteSecond, Doorbell, CommandAnswered, CommandTimeout, DataStage,
         StatusStage, TransferAnswered, TransferGood, TransferBad, TransferTimeout, Interrupt,
         ghosts
<1>3. Controller => history.delivered \subseteq history'.delivered
  <2>1. \A ok : ExecuteCommand(ok) => history'.delivered = history.delivered
    BY <1>1 DEF ExecuteCommand
  <2>2. \A s : ExecuteTransfer(s) => history.delivered \subseteq history'.delivered
    BY <1>1 DEF ExecuteTransfer
  <2>3. CommandRingEmpty \/ (\E s : TransferRingEmpty(s) \/ \E told : FailTransfer(s, told)) =>
          history' = history
    BY DEF CommandRingEmpty, TransferRingEmpty, FailTransfer, ghosts
  <2> QED
    BY <2>1, <2>2, <2>3 DEF Controller
<1> QED
  BY <1>2, <1>3 DEF Next

(* Nothing old is about a transfer that begins, since its status dword is new. *)
LEMMA CurrentData ==
  ASSUME IndInv, Fresh, DataStage, pc' = "status"
  PROVE  Current'
<1> DEFINE old == IF slot_id \in DOMAIN xfers THEN xfers[slot_id]
                  ELSE [queue |-> <<>>, state |-> "stopped"]
           td  == EventData("data", StatusAt)
           new == [old EXCEPT !.queue = Append(old.queue, td)]
<1>1. /\ xfers' = Put(xfers, slot_id, new) /\ status_addr' = StatusAt
      /\ dword' = Put(dword, StatusAt, "zero") /\ UNCHANGED <<events, port, step, slot_id>>
  BY DEF DataStage
<1>2. old.queue \in Seq(Xfer) /\ new.queue = Append(old.queue, td)
  BY Addresses DEF IndInv, Typed, Endpoint
<1>3. td.addr = StatusAt /\ td.stage = "data" /\ td.call = Here
  BY DEF EventData, Here
<1> HIDE DEF td
<1>4. \A a \in Nat : Below(a) => a # StatusAt
  BY NewStatus, HeapStart DEF Below, IndInv, Memory
<1>5. /\ \A s \in DOMAIN xfers : \A n \in DOMAIN xfers[s].queue : xfers[s].queue[n].addr # StatusAt
      /\ \A k \in DOMAIN events : events[k].type = "transfer" => events[k].addr # StatusAt
  BY <1>4, Addresses DEF Fresh
<1>6. \A n \in DOMAIN old.queue : old.queue[n].addr # StatusAt
  BY <1>5
<1> HIDE DEF old, new
<1>7. /\ DOMAIN xfers' = DOMAIN xfers \cup {slot_id}
      /\ \A s \in DOMAIN xfers' \ {slot_id} : s \in DOMAIN xfers /\ xfers'[s] = xfers[s]
      /\ xfers'[slot_id].queue = Append(old.queue, td)
  BY <1>1, <1>2 DEF Put
<1> DEFINE q == xfers'[slot_id].queue
<1>8. \A n \in DOMAIN q : q[n].addr = StatusAt => q[n] = td
  BY <1>2, <1>6, <1>7
<1>9. \E m \in DOMAIN q : q[m] = td
  <2>1. Len(old.queue) + 1 \in DOMAIN q /\ q[Len(old.queue) + 1] = td
    BY <1>2, <1>7
  <2> QED
    BY <2>1
<1> HIDE DEF q
<1>11. (\E m \in DOMAIN xfers[slot_id].queue : Names(xfers[slot_id].queue[m], "data"))'
  BY <1>1, <1>3, <1>9 DEF Names, q
<1>12. StatusAt \in DOMAIN dword' /\ dword'[StatusAt] = "zero"
  BY <1>1 DEF Put
<1>13. \A k \in DOMAIN events' : ~Stores(k, status_addr)'
  BY <1>1, <1>5 DEF Stores
<1>14. \A s \in DOMAIN xfers' : \A n \in DOMAIN xfers'[s].queue :
         xfers'[s].queue[n].addr = StatusAt => s = slot_id /\ xfers'[s].queue[n].call = Here
  BY <1>3, <1>5, <1>7, <1>8 DEF q
<1>15. (DataFirst(xfers[slot_id].queue))'
  BY <1>1, <1>3, <1>8 DEF DataFirst, Names, q
<1>16. Unanswered'
  BY <1>1, <1>11, <1>12, <1>13, <1>15 DEF Unanswered
<1> QED
  BY <1>1, <1>7, <1>12, <1>14, <1>16 DEF Current, Here

(* The status stage comes behind the data stage. *)
LEMMA CurrentStatus ==
  ASSUME IndInv, Current, StatusStage
  PROVE  Current'
<1> DEFINE old == xfers[slot_id].queue
           td  == EventData("status", status_addr)
           new == [queue |-> Append(old, td),
                   state |-> IF xfers[slot_id].state = "halted" THEN xfers[slot_id].state
                             ELSE "running"]
<1>1. /\ xfers' = [xfers EXCEPT ![slot_id] = new]
      /\ dword' = [dword EXCEPT ![status_addr] = "zero"] /\ pc = "status" /\ pc' = "answer"
      /\ UNCHANGED <<events, port, step, slot_id, status_addr, history>>
  BY DEF StatusStage, answer, ghosts
<1>2. /\ slot_id \in DOMAIN xfers /\ status_addr \in DOMAIN dword
      /\ \A s \in DOMAIN xfers : \A n \in DOMAIN xfers[s].queue :
           xfers[s].queue[n].addr = status_addr => s = slot_id /\ xfers[s].queue[n].call = Here
      /\ Here \notin history.delivered => Unanswered
  BY <1>1 DEF Current, Pending
<1>3. old \in Seq(Xfer)
  BY <1>2, Addresses
<1>4. td.addr = status_addr /\ td.stage = "status" /\ td.call = Here
  BY DEF EventData, Here
<1>5. /\ DOMAIN xfers' = DOMAIN xfers
      /\ \A s \in DOMAIN xfers \ {slot_id} : xfers'[s] = xfers[s]
      /\ xfers'[slot_id].queue = Append(old, td)
  BY <1>1, <1>2
<1> HIDE DEF td, new
<1> DEFINE q == xfers'[slot_id].queue
<1>6. /\ Len(old) \in Nat /\ DOMAIN old = 1 .. Len(old) /\ DOMAIN q = 1 .. Len(old) + 1
      /\ \A n \in 1 .. Len(old) : q[n] = old[n]
      /\ q[Len(old) + 1] = td
  <2> HIDE DEF old
  <2> QED
    BY <1>3, <1>5
<1>7. \A s \in DOMAIN xfers' : \A n \in DOMAIN xfers'[s].queue :
        xfers'[s].queue[n].addr = status_addr => s = slot_id /\ xfers'[s].queue[n].call = Here
  <2> TAKE s \in DOMAIN xfers'
  <2> TAKE n \in DOMAIN xfers'[s].queue
  <2>1. CASE s # slot_id
    BY <2>1, <1>2, <1>5
  <2>2. CASE s = slot_id
    BY <2>2, <1>2, <1>4, <1>6
  <2> QED
    BY <2>1, <2>2
<1>8. ASSUME Here \notin history.delivered
      PROVE  Unanswered'
  <2>1. /\ \A k \in DOMAIN events : Stores(k, status_addr) => ~events[k].ok
        /\ DataFirst(old)
        /\ \E m \in DOMAIN old : Names(old[m], "data")
    BY <1>1, <1>2, <1>8 DEF Unanswered
  <2>2. dword'[status_addr] = "zero"
    BY <1>1, <1>2
  <2>3. ASSUME NEW n \in DOMAIN q, Names(q[n], "status")
        PROVE  \E m \in 1 .. n - 1 : Names(q[m], "data")
    <3>1. CASE n = Len(old) + 1
      <4>1. PICK m \in DOMAIN old : Names(old[m], "data")
        BY <2>1
      <4>2. m \in 1 .. n - 1 /\ q[m] = old[m]
        BY <1>6, <3>1, <4>1
      <4> QED
        BY <4>1, <4>2
    <3>2. CASE n \in DOMAIN old
      <4>1. PICK m \in 1 .. n - 1 : Names(old[m], "data")
        BY <2>1, <2>3, <3>2, <1>6 DEF DataFirst
      <4>2. m \in 1 .. Len(old)
        BY <3>2, <1>6
      <4> QED
        BY <4>1, <4>2, <1>6
    <3> QED
      BY <1>6, <3>1, <3>2
  <2>4. (DataFirst(xfers[slot_id].queue))'
    BY <1>1, <2>3 DEF DataFirst, Names, q
  <2> QED
    BY <1>1, <2>1, <2>2, <2>4 DEF Unanswered, Stores
<1> QED
  BY <1>1, <1>2, <1>5, <1>7, <1>8 DEF Current, Here

(* The controller takes the first of an endpoint that runs.  If that one is about the
   transfer in progress, the data is delivered. *)
LEMMA CurrentTransfer ==
  ASSUME IndInv, Current, NEW s \in DOMAIN xfers, ExecuteTransfer(s)
  PROVE  Current'
<1> DEFINE q  == xfers[s].queue
           td == Head(q)
           e  == [type |-> "transfer", ok |-> TRUE, addr |-> td.addr]
<1>0. UNCHANGED <<pc, port, step, slot_id, status_addr, dword>>
  BY DEF ExecuteTransfer, program, answer, memory
<1> SUFFICES ASSUME Pending
             PROVE  Current'
  BY <1>0 DEF Current, Pending
<1>1. /\ slot_id \in DOMAIN xfers /\ status_addr \in DOMAIN dword
      /\ \A r \in DOMAIN xfers : \A n \in DOMAIN xfers[r].queue :
           xfers[r].queue[n].addr = status_addr => r = slot_id /\ xfers[r].queue[n].call = Here
      /\ Here \notin history.delivered => Unanswered
  BY DEF Current
<1>2. /\ q # <<>> /\ xfers' = [xfers EXCEPT ![s].queue = Tail(q)]
      /\ events' = Append(events, e)
      /\ td.stage = "data" => td.call \in history'.delivered
  <2>1. history \in [completed : SUBSET [trb : Nat, slot : Nat], delivered : SUBSET Call,
                     accepted : SUBSET Call, torn : BOOLEAN]
    BY DEF IndInv, Typed
  <2> QED
    BY <2>1 DEF ExecuteTransfer
<1>3. xfers[s] \in Endpoint /\ q \in Seq(Xfer)
  BY Addresses DEF IndInv, Typed
<1>4. /\ DOMAIN xfers' = DOMAIN xfers
      /\ \A r \in DOMAIN xfers \ {s} : xfers'[r] = xfers[r]
      /\ xfers'[s].queue = Tail(q)
  BY <1>2, <1>3 DEF Endpoint
<1>5. \A n \in DOMAIN Tail(q) : n \in Nat \ {0} /\ n + 1 \in DOMAIN q /\ Tail(q)[n] = q[n + 1]
  <2> HIDE DEF q
  <2> QED
    BY <1>2, <1>3, TailItem
<1>6. 1 \in DOMAIN q /\ td = q[1]
  <2> HIDE DEF q
  <2> QED
    BY <1>2, <1>3
<1>7. \A r \in DOMAIN xfers' : \A n \in DOMAIN xfers'[r].queue :
        xfers'[r].queue[n].addr = status_addr => r = slot_id /\ xfers'[r].queue[n].call = Here
  <2> TAKE r \in DOMAIN xfers'
  <2> TAKE n \in DOMAIN xfers'[r].queue
  <2>1. CASE r # s
    BY <2>1, <1>1, <1>4
  <2>2. CASE r = s
    <3>1. n + 1 \in DOMAIN q /\ xfers'[r].queue[n] = q[n + 1]
      BY <2>2, <1>4, <1>5
    <3> QED
      BY <3>1, <2>2, <1>1
  <2> QED
    BY <2>1, <2>2
<1>8. ASSUME Here \notin history'.delivered
      PROVE  Unanswered'
  <2>1. Unanswered /\ DataFirst(xfers[slot_id].queue)
    BY <1>1, <1>8, DeliveredGrows DEF Unanswered, Next, Controller
  <2>2. td.addr # status_addr
    <3> SUFFICES ASSUME td.addr = status_addr
                 PROVE  FALSE
      OBVIOUS
    <3>1. s = slot_id /\ td.call = Here
      BY <1>1, <1>6
    <3>2. td.stage # "data"
      BY <3>1, <1>2, <1>8
    <3>3. td.stage = "status"
      <4>1. td \in Xfer
        BY <1>3, <1>6
      <4> HIDE DEF td
      <4> QED
        BY <4>1, <3>2 DEF Xfer
    <3>4. Names(q[1], "status")
      BY <3>3, <1>6 DEF Names
    <3>5. \E m \in 1 .. 1 - 1 : Names(q[m], "data")
      BY <2>1, <3>1, <3>4, <1>6 DEF DataFirst
    <3> QED
      BY <3>5
  <2>3. \A k \in DOMAIN events' :
          events'[k].type = "transfer" /\ events'[k].addr = status_addr => ~events'[k].ok
    <3>1. events \in Seq(Event)
      BY DEF IndInv, Typed
    <3>2. \A k \in DOMAIN events' : (k \in DOMAIN events /\ events'[k] = events[k]) \/ events'[k] = e
      <4> HIDE DEF e
      <4> QED
        BY <3>1, <1>2
    <3>3. e.addr # status_addr
      BY <2>2
    <3> QED
      BY <3>2, <3>3, <2>1 DEF Unanswered, Stores
  <2>4. CASE s # slot_id
    <3>1. xfers'[slot_id].queue = xfers[slot_id].queue
      BY <2>4, <1>1, <1>4
    <3> QED
      BY <3>1, <2>1, <2>3, <1>0 DEF Unanswered, Stores, DataFirst, Names
  <2>5. CASE s = slot_id
    <3>1. DataFirst(q) /\ xfers'[slot_id].queue = Tail(q) /\ ~Names(q[1], "data")
      BY <2>1, <2>2, <2>5, <1>4, <1>6 DEF Names
    <3>2. \A m \in DOMAIN q : Names(q[m], "data") =>
            m - 1 \in DOMAIN Tail(q) /\ Names(Tail(q)[m - 1], "data") /\ m - 1 \in Nat \ {0}
      <4> HIDE DEF q
      <4> TAKE m \in DOMAIN q
      <4>1. DOMAIN q = 1 .. Len(q) /\ Len(q) \in Nat \ {0} /\ Tail(q) \in Seq(Xfer)
              /\ Len(Tail(q)) = Len(q) - 1
        BY <1>2, <1>3
      <4>2. Names(q[m], "data") => m # 1
        BY <3>1
      <4>3. m # 1 => m - 1 \in DOMAIN Tail(q) /\ m - 1 \in Nat \ {0}
        BY <4>1
      <4>4. m # 1 => Tail(q)[m - 1] = q[m]
        BY <4>1, <4>3, <1>5
      <4> QED
        BY <4>2, <4>3, <4>4
    <3>3. ASSUME NEW n \in DOMAIN Tail(q), Names(Tail(q)[n], "status")
          PROVE  \E m \in 1 .. n - 1 : Names(Tail(q)[m], "data")
      <4>1. n \in Nat \ {0} /\ n + 1 \in DOMAIN q /\ Tail(q)[n] = q[n + 1]
        BY <1>5
      <4>2. PICK m \in 1 .. n + 1 - 1 : Names(q[m], "data")
        BY <4>1, <3>1, <3>3 DEF DataFirst
      <4>3. m \in DOMAIN q
        <5> HIDE DEF q
        <5> QED
          BY <4>1, <1>3
      <4>4. m - 1 \in 1 .. n - 1
        BY <4>1, <4>3, <3>2, <4>2
      <4> QED
        BY <4>2, <4>3, <4>4, <3>2
    <3>4. pc = "status" => \E m \in DOMAIN Tail(q) : Names(Tail(q)[m], "data")
      <4>1. pc = "status" => \E m \in DOMAIN q : Names(q[m], "data")
        BY <2>1, <2>5 DEF Unanswered
      <4> HIDE DEF q
      <4> QED
        BY <4>1, <3>2
    <3>5. (DataFirst(xfers[slot_id].queue))'
      <4> DEFINE t == Tail(q)
      <4>1. xfers'[slot_id].queue = t
        BY <3>1
      <4>2. \A n \in DOMAIN t : t[n].addr = status_addr /\ t[n].stage = "status" =>
              \E m \in 1 .. n - 1 : t[m].addr = status_addr /\ t[m].stage = "data"
        BY <3>3 DEF Names
      <4> HIDE DEF t
      <4> QED
        BY <1>0, <4>1, <4>2 DEF DataFirst, Names
    <3>6. (pc = "status" => \E m \in DOMAIN xfers[slot_id].queue :
                              Names(xfers[slot_id].queue[m], "data"))'
      BY <1>0, <3>1, <3>4 DEF Names
    <3> QED
      BY <1>0, <2>1, <2>3, <3>5, <3>6 DEF Unanswered, Stores
  <2> QED
    BY <2>4, <2>5
<1> QED
  BY <1>0, <1>1, <1>4, <1>7, <1>8 DEF Current, Here

(* Nothing else the controller does is taken for an answer. *)
LEMMA CurrentQuiet ==
  ASSUME IndInv, Current, Next,
         UNCHANGED <<pc, port, step, slot_id, status_addr, dword>>,
         DOMAIN xfers' = DOMAIN xfers,
         \A s \in DOMAIN xfers : xfers'[s].queue = xfers[s].queue,
         \A k \in DOMAIN events' :
           \/ k \in DOMAIN events /\ events'[k] = events[k]
           \/ events'[k].type # "transfer"
           \/ ~events'[k].ok
  PROVE  Current'
<1> SUFFICES ASSUME Pending
             PROVE  Current'
  BY DEF Current, Pending
<1>1. /\ slot_id \in DOMAIN xfers /\ status_addr \in DOMAIN dword
      /\ \A r \in DOMAIN xfers : \A n \in DOMAIN xfers[r].queue :
           xfers[r].queue[n].addr = status_addr => r = slot_id /\ xfers[r].queue[n].call = Here
      /\ Here \notin history.delivered => Unanswered
  BY DEF Current
<1>2. \A r \in DOMAIN xfers' : \A n \in DOMAIN xfers'[r].queue :
        xfers'[r].queue[n].addr = status_addr => r = slot_id /\ xfers'[r].queue[n].call = Here
  BY <1>1
<1>3. ASSUME Here \notin history'.delivered
      PROVE  Unanswered'
  <2>1. Unanswered
    BY <1>1, <1>3, DeliveredGrows
  <2>2. xfers'[slot_id].queue = xfers[slot_id].queue
    BY <1>1
  <2>3. \A k \in DOMAIN events' :
          events'[k].type = "transfer" /\ events'[k].addr = status_addr => ~events'[k].ok
    BY <2>1 DEF Unanswered, Stores
  <2> QED
    BY <2>1, <2>2, <2>3 DEF Unanswered, Stores, DataFirst, Names
<1> QED
  BY <1>1, <1>2, <1>3 DEF Current, Here

(* The handler stores nothing but errors at the dword of a transfer whose data is not
   delivered. *)
LEMMA CurrentInterrupt ==
  ASSUME IndInv, Current, Interrupt
  PROVE  Current'
<1>1. UNCHANGED <<pc, port, step, slot_id, status_addr, xfers, history>> /\ events' = <<>>
  BY DEF Interrupt, program, answer, ghosts
<1> SUFFICES ASSUME Pending
             PROVE  Current'
  BY <1>1 DEF Current, Pending
<1>2. DOMAIN dword' = DOMAIN dword
  BY DEF Interrupt
<1>3. ASSUME Here \notin history.delivered
      PROVE  Unanswered'
  <2>1. Unanswered /\ status_addr \in DOMAIN dword
    BY <1>3 DEF Current
  <2>2. dword'[status_addr] # "ok"
    <3>1. CASE \E k \in DOMAIN events : Stores(k, status_addr)
      <4>1. PICK k \in DOMAIN events : Stores(k, status_addr) /\ LastStored(status_addr) = events[k]
        BY <3>1, LastOf DEF IndInv
      <4>2. ~LastStored(status_addr).ok
        BY <4>1, <2>1 DEF Unanswered
      <4>3. dword'[status_addr] = "error"
        BY <3>1, <4>2, <2>1 DEF Interrupt
      <4> QED
        BY <4>3
    <3>2. CASE ~ \E k \in DOMAIN events : Stores(k, status_addr)
      <4>1. dword'[status_addr] = dword[status_addr]
        BY <3>2, <2>1 DEF Interrupt
      <4> QED
        BY <4>1, <2>1 DEF Unanswered
    <3> QED
      BY <3>1, <3>2
  <2>3. DOMAIN events' = {}
    BY <1>1
  <2> QED
    BY <1>1, <2>1, <2>2, <2>3 DEF Unanswered, DataFirst, Names
<1> QED
  BY <1>1, <1>2, <1>3 DEF Current, Here

LEMMA CurrentStep ==
  ASSUME IndInv, Fresh, Current, Next
  PROVE  Current'
<1>1. CASE ~Pending'
  BY <1>1 DEF Current
<1>2. CASE DataStage /\ pc' = "status"
  BY <1>2, CurrentData
<1>3. CASE StatusStage
  BY <1>3, CurrentStatus
<1>4. CASE Interrupt
  BY <1>4, CurrentInterrupt
<1>5. ASSUME Controller, UNCHANGED <<pc, port, step, slot_id, status_addr, dword>>
      PROVE  Current'
  <2>a. events \in Seq(Event) /\ \A s \in DOMAIN xfers : xfers[s] \in Endpoint
    BY DEF IndInv, Typed
  <2>1. \A e : events' = Append(events, e) =>
          \A k \in DOMAIN events' : (k \in DOMAIN events /\ events'[k] = events[k]) \/ events'[k] = e
    BY <2>a
  <2>2. ASSUME NEW ok \in BOOLEAN, ExecuteCommand(ok) PROVE Current'
    <3>1. xfers' = xfers /\ \E e : e.type = "command" /\ events' = Append(events, e)
      BY <2>2 DEF ExecuteCommand
    <3> QED
      BY <3>1, <2>1, <1>5, CurrentQuiet
  <2>3. CASE CommandRingEmpty
    BY <2>3, <1>5, CurrentQuiet DEF CommandRingEmpty
  <2>4. ASSUME NEW s \in DOMAIN xfers, ExecuteTransfer(s) PROVE Current'
    BY <2>4, CurrentTransfer
  <2>5. ASSUME NEW s \in DOMAIN xfers, TransferRingEmpty(s) PROVE Current'
    <3>1. xfers' = [xfers EXCEPT ![s].state = "stopped"] /\ events' = events
      BY <2>5 DEF TransferRingEmpty
    <3>2. DOMAIN xfers' = DOMAIN xfers /\ \A r \in DOMAIN xfers : xfers'[r].queue = xfers[r].queue
      BY <3>1, <2>a DEF Endpoint
    <3> QED
      BY <3>1, <3>2, <1>5, CurrentQuiet
  <2>6. ASSUME NEW s \in DOMAIN xfers, NEW told \in BOOLEAN, FailTransfer(s, told) PROVE Current'
    <3>1. /\ xfers' = [xfers EXCEPT ![s].state = "halted"]
          /\ events' = events \/ \E e : ~e.ok /\ events' = Append(events, e)
      BY <2>6 DEF FailTransfer
    <3>2. DOMAIN xfers' = DOMAIN xfers /\ \A r \in DOMAIN xfers : xfers'[r].queue = xfers[r].queue
      BY <3>1, <2>a DEF Endpoint
    <3> QED
      BY <3>1, <3>2, <2>1, <1>5, CurrentQuiet
  <2> QED
    BY <1>5, <2>2, <2>3, <2>4, <2>5, <2>6 DEF Controller
<1> QED
  BY <1>1, <1>2, <1>3, <1>4, <1>5, PendingFrom

(* The program takes an answer for delivered only when it is. *)
LEMMA AcceptedStep ==
  ASSUME IndInv, Current, ReadsAreDelivered, Next
  PROVE  ReadsAreDelivered'
<1>1. CASE TransferAnswered
  <2>1. CASE TransferGood
    <3>1. pc = "answer" /\ dword[status_addr] = "ok"
      BY <1>1, <2>1 DEF TransferAnswered, TransferGood
    <3>2. Here \in history.delivered
      BY <3>1 DEF Current, Pending, Unanswered
    <3>3. /\ history'.accepted = history.accepted \cup {Here}
          /\ history'.delivered = history.delivered
      BY <2>1 DEF TransferGood, Here, IndInv, Typed
    <3> QED
      BY <3>2, <3>3 DEF ReadsAreDelivered
  <2>2. CASE TransferBad
    BY <2>2 DEF TransferBad, ReadsAreDelivered
  <2> QED
    BY <1>1, <2>1, <2>2 DEF TransferAnswered
<1>2. CASE history'.accepted = history.accepted
  BY <1>2, DeliveredGrows DEF ReadsAreDelivered
<1>3. Program \/ Interrupt => TransferAnswered \/ history' = history
  BY DEF Program, SkipPort, EndOfPorts, FirstReset, SecondReset, ResetPort, Compose,
         WriteFirst, WriteSecond, Doorbell, CommandAnswered, CommandTimeout, DataStage,
         StatusStage, TransferTimeout, Interrupt, ghosts
<1>4. Controller => history'.accepted = history.accepted
  <2>1. history \in [completed : SUBSET [trb : Nat, slot : Nat], delivered : SUBSET Call,
                     accepted : SUBSET Call, torn : BOOLEAN]
    BY DEF IndInv, Typed
  <2>2. \A ok : ExecuteCommand(ok) => history'.accepted = history.accepted
    BY <2>1 DEF ExecuteCommand
  <2>3. \A s : ExecuteTransfer(s) => history'.accepted = history.accepted
    BY <2>1 DEF ExecuteTransfer
  <2>4. CommandRingEmpty \/ (\E s : TransferRingEmpty(s) \/ \E told : FailTransfer(s, told)) =>
          history' = history
    BY DEF CommandRingEmpty, TransferRingEmpty, FailTransfer, ghosts
  <2> QED
    BY <2>2, <2>3, <2>4 DEF Controller
<1> QED
  BY <1>1, <1>2, <1>3, <1>4 DEF Next

(* What the program prints as a descriptor is what this very transfer has delivered
   (xhci_wait_for_interrupt, which looks at a dword that heap_alloc has never given out
   before, and xhci_irq, which stores there whenever an event comes). *)
THEOREM XhciReadsDelivered == Spec => []ReadsAreDelivered
<1>1. Init => ReadsInv
  BY DEF Init, ReadsInv, Fresh, Current, Pending, ReadsAreDelivered
<1>2. IndInv /\ ReadsInv /\ [Next]_vars => ReadsInv'
  <2>1. IndInv /\ ReadsInv /\ Next => ReadsInv'
    BY FreshStep, CurrentStep, AcceptedStep DEF ReadsInv
  <2>2. ReadsInv /\ UNCHANGED vars => ReadsInv'
    BY DEF vars, program, answer, memory, device, ghosts, ReadsInv, Fresh, Below, Current, Pending,
           Unanswered, DataFirst, Names, Stores, Here, ReadsAreDelivered
  <2> QED
    BY <2>1, <2>2
<1>3. ReadsInv => ReadsAreDelivered
  BY DEF ReadsInv
<1> QED
  BY <1>1, <1>2, <1>3, XhciInductive, PTL DEF Spec

-----------------------------------------------------------------------------
(* Companions *)

ListOfItems == Seq([version : {2, 3}, first : 0 .. 255, count : 0 .. 255])

(* q is found before p. *)
FoundBefore(items, q, p) ==
  \/ ItemOf(items, q) < ItemOf(items, p)
  \/ ItemOf(items, q) = ItemOf(items, p) /\ q < p

LEMMA PortOf ==
  ASSUME NEW items \in ListOfItems, NEW p \in Ports(items)
  PROVE  p \in 0 .. 255 /\ ItemOf(items, p) \in Nat /\ Version(items, p) \in {2, 3}
<1>1. p \in 0 .. 255 /\ \E k \in DOMAIN items : Covers(items[k], p)
  BY DEF Ports
<1>2. ItemOf(items, p) \in DOMAIN items
  BY <1>1 DEF ItemOf
<1> DEFINE Item == [version : {2, 3}, first : 0 .. 255, count : 0 .. 255]
<1>4. items \in Seq(Item) /\ DOMAIN items = 1 .. Len(items)
  BY DEF ListOfItems
<1>3. items[ItemOf(items, p)] \in Item /\ ItemOf(items, p) \in Nat
  <2> HIDE DEF Item
  <2> QED
    BY <1>2, <1>4
<1>5. Version(items, p) = items[ItemOf(items, p)].version
  BY DEF Version
<1> QED
  BY <1>1, <1>3, <1>5

LEMMA OffsetType ==
  ASSUME NEW items \in ListOfItems, NEW p \in Ports(items)
  PROVE  Offset(items, p) \in Nat
<1>1. IsFiniteSet(0 .. 255)
  BY FS_Interval, 0 \in Int, 255 \in Int
<1> DEFINE S == {q \in Ports(items) : Version(items, q) = Version(items, p) /\ FoundBefore(items, q, p)}
<1>2. S \in SUBSET (0 .. 255)
  BY DEF Ports
<1> HIDE DEF S
<1>3. Cardinality(S) \in Nat
  BY <1>1, <1>2, FS_Subset, FS_CardinalityType
<1> QED
  BY <1>3 DEF S, Offset, FoundBefore

(* What is found later has more in front of it. *)
LEMMA OffsetGrows ==
  ASSUME NEW items \in ListOfItems, NEW q \in Ports(items), NEW p \in Ports(items),
         Version(items, q) = Version(items, p), FoundBefore(items, q, p)
  PROVE  Offset(items, q) < Offset(items, p)
<1> DEFINE Before(r) == {s \in Ports(items) :
                           Version(items, s) = Version(items, r) /\ FoundBefore(items, s, r)}
           S == Before(q)
           T == Before(p)
<1>1. Offset(items, q) = Cardinality(S) /\ Offset(items, p) = Cardinality(T)
  BY DEF Offset, FoundBefore
<1>2. q \notin S
  BY PortOf DEF FoundBefore
<1>3. \A s \in S : s \in T
  <2> TAKE s \in S
  <2>1. s \in Ports(items) /\ Version(items, s) = Version(items, p) /\ FoundBefore(items, s, q)
    OBVIOUS
  <2>2. /\ s \in 0 .. 255 /\ q \in 0 .. 255 /\ p \in 0 .. 255
        /\ ItemOf(items, s) \in Nat /\ ItemOf(items, q) \in Nat /\ ItemOf(items, p) \in Nat
    BY <2>1, PortOf
  <2>3. FoundBefore(items, s, p)
    BY <2>1, <2>2 DEF FoundBefore
  <2> QED
    BY <2>1, <2>3
<1>4. q \in T /\ T \in SUBSET (0 .. 255)
  BY DEF Ports
<1> HIDE DEF S, T
<1>5. IsFiniteSet(T)
  <2>1. IsFiniteSet(0 .. 255)
    BY FS_Interval, 0 \in Int, 255 \in Int
  <2> QED
    BY <1>4, <2>1, FS_Subset
<1>6. IsFiniteSet(S)
  BY <1>3, <1>5, FS_Subset
<1>7. Cardinality(S \cup {q}) = Cardinality(S) + 1
  BY <1>2, <1>6, FS_AddElement
<1>8. Cardinality(S \cup {q}) <= Cardinality(T)
  BY <1>3, <1>4, <1>5, FS_Subset
<1>9. Cardinality(S) \in Nat /\ Cardinality(T) \in Nat
  BY <1>5, <1>6, FS_CardinalityType
<1> QED
  BY <1>1, <1>7, <1>8, <1>9

LEMMA OffsetNames ==
  ASSUME NEW items \in ListOfItems, NEW q \in Ports(items), NEW p \in Ports(items),
         Version(items, q) = Version(items, p), Offset(items, q) = Offset(items, p)
  PROVE  q = p
<1>1. /\ q \in 0 .. 255 /\ p \in 0 .. 255
      /\ ItemOf(items, q) \in Nat /\ ItemOf(items, p) \in Nat
  BY PortOf
<1>2. q = p \/ FoundBefore(items, q, p) \/ FoundBefore(items, p, q)
  BY <1>1 DEF FoundBefore
<1>3. Offset(items, q) \in Nat /\ Offset(items, p) \in Nat
  BY OffsetType
<1>4. ~FoundBefore(items, q, p) /\ ~FoundBefore(items, p, q)
  BY <1>3, OffsetGrows
<1> QED
  BY <1>2, <1>4

(* A port has one companion at most, and is the companion of its companion. *)
LEMMA OneCompanion ==
  ASSUME NEW items \in ListOfItems, NEW p \in Ports(items), NEW q \in Companions(items, p)
  PROVE  /\ Companions(items, p) = {q} /\ q \in Ports(items)
         /\ Companions(items, q) = {p} /\ Version(items, q) # Version(items, p)
<1>1. ASSUME NEW a \in Ports(items), NEW b \in Companions(items, a), NEW c \in Companions(items, a)
      PROVE  b = c
  <2>1. /\ b \in Ports(items) /\ c \in Ports(items)
        /\ Version(items, b) # Version(items, a) /\ Version(items, c) # Version(items, a)
        /\ Offset(items, b) = Offset(items, c)
    BY DEF Companions
  <2>2. Version(items, b) = Version(items, c)
    BY <2>1, PortOf
  <2> QED
    BY <2>1, <2>2, OffsetNames
<1>2. q \in Ports(items) /\ p \in Companions(items, q) /\ Version(items, q) # Version(items, p)
  BY DEF Companions
<1> QED
  BY <1>1, <1>2

Port == [usb3 : BOOLEAN, pair : BOOLEAN, other_port_num : Nat, active : BOOLEAN]

Usb3(p)  == port_info[p].usb3
Other(p) == port_info[p].other_port_num

(* A USB3 port has a companion, and companions are so of each other. *)
Paired ==
  /\ DOMAIN port_info = 0 .. Ndp - 1 /\ Ndp \in Nat
  /\ \A p \in DOMAIN port_info :
       /\ port_info[p] \in Port
       /\ Usb3(p) => port_info[p].pair
       /\ port_info[p].pair =>
            /\ Other(p) \in DOMAIN port_info /\ Other(Other(p)) = p
            /\ Usb3(Other(p)) # Usb3(p) /\ port_info[Other(p)].pair

LEMMA InitPaired == Init => Paired
<1> SUFFICES ASSUME Init
             PROVE  Paired
  OBVIOUS
<1>1. PICK items \in Layouts : port_info = PortInfo(items)
  BY DEF Init
<1>2. items \in ListOfItems
  BY LayoutAssumption DEF ListOfItems
<1>3. PICK n \in 1 .. 16 : Ports(items) = 0 .. n - 1
  BY LayoutAssumption
<1>4. DOMAIN port_info = 0 .. n - 1
  BY <1>1, <1>3 DEF PortInfo
<1>5. Ndp = n
  <2>1. Cardinality(0 .. n - 1) = n
    BY FS_Interval
  <2> QED
    BY <1>4, <2>1 DEF Ndp
<1>6. \A p \in DOMAIN port_info :
        /\ Usb3(p) = (Version(items, p) = 3)
        /\ port_info[p].pair = (Companions(items, p) # {})
        /\ \A q : Companions(items, p) = {q} => Other(p) = q
  <2> TAKE p \in DOMAIN port_info
  <2>1. p \in Ports(items)
    BY <1>3, <1>4
  <2>2. ASSUME NEW q, Companions(items, p) = {q}
        PROVE  Other(p) = q
    <3>1. q \in Ports(items) /\ q <= q
      BY <2>2, <1>2, PortOf DEF Companions
    <3> QED
      BY <1>1, <2>1, <2>2, <3>1 DEF PortInfo, Other
  <2> QED
    BY <1>1, <2>1, <2>2 DEF PortInfo, Usb3
<1>7. ASSUME NEW p \in DOMAIN port_info
      PROVE  /\ port_info[p] \in Port
             /\ Usb3(p) => port_info[p].pair
             /\ port_info[p].pair =>
                  /\ Other(p) \in DOMAIN port_info /\ Other(Other(p)) = p
                  /\ Usb3(Other(p)) # Usb3(p) /\ port_info[Other(p)].pair
  <2>1. p \in Ports(items)
    BY <1>3, <1>4
  <2>2. Usb3(p) => port_info[p].pair
    BY <1>6, <2>1, PairAssumption
  <2>3. ASSUME port_info[p].pair
        PROVE  /\ Other(p) \in DOMAIN port_info /\ Other(Other(p)) = p
               /\ Usb3(Other(p)) # Usb3(p) /\ port_info[Other(p)].pair
    <3>1. PICK q \in Companions(items, p) : TRUE
      BY <2>3, <1>6
    <3>2. /\ Companions(items, p) = {q} /\ q \in DOMAIN port_info
          /\ Companions(items, q) = {p} /\ Version(items, q) # Version(items, p)
      BY <1>2, <1>3, <1>4, <2>1, OneCompanion
    <3>3. Version(items, q) \in {2, 3} /\ Version(items, p) \in {2, 3}
      BY <1>2, <1>3, <1>4, <2>1, <3>2, PortOf
    <3> QED
      BY <3>2, <3>3, <1>6
  <2>4. Other(p) \in Nat
    <3>1. CASE Companions(items, p) = {}
      BY <1>1, <2>1, <3>1 DEF PortInfo, Other
    <3>2. ASSUME NEW q \in Companions(items, p)
          PROVE  Other(p) \in Nat
      <4>1. Companions(items, p) = {q} /\ q \in Nat
        BY <1>2, <2>1, <3>2, OneCompanion, PortOf
      <4> QED
        BY <4>1, <1>6
    <3> QED
      BY <3>1, <3>2
  <2>5. port_info[p] \in Port
    <3> DEFINE o == Other(p)
    <3>1. port_info[p] = [usb3 |-> Version(items, p) = 3, pair |-> Companions(items, p) # {},
                          other_port_num |-> o,
                          active |-> Version(items, p) = 3 \/ Companions(items, p) = {}]
      BY <1>1, <2>1 DEF PortInfo, Other
    <3> HIDE DEF o
    <3>2. o \in Nat
      BY <2>4 DEF o
    <3> QED
      BY <3>1, <3>2 DEF Port
  <2> QED
    BY <2>2, <2>3, <2>5
<1> QED
  BY <1>4, <1>5, <1>7 DEF Paired

Busy      == Commanding \/ Reading \/ pc = "reset"
Early     == step \in {"ENABLE_SLOT", "ADDRESS_1", "IN_8"}
Active(p) == port_info[p].active

(* The first loop visits the USB3 ports, the second the USB2 ports. *)
Passes ==
  /\ resets \in [DOMAIN port_info -> {"none"} \cup ResetOutcomes]
  /\ Busy => (Usb3(port) <=> pass = 3) /\ resets[port] # "none"
  /\ Busy /\ Early => resets[port] = "ok"
  /\ \A p \in DOMAIN port_info :
       pass = 3 /\ (~Usb3(p) \/ p > port \/ (p = port /\ pc = "loop")) => resets[p] = "none"
  /\ pc = "done" => pass = 2 /\ port = Ndp

(* A USB2 port with a companion is active if and only if that one failed, and only active
   ones are touched. *)
Handed ==
  /\ \A p \in DOMAIN port_info : Usb3(p) => (Active(Other(p)) <=> resets[p] = "failed")
  /\ \A p \in DOMAIN port_info : ~Usb3(p) /\ resets[p] # "none" => Active(p)
  /\ \A p \in DOMAIN port_info :
       pass = 2 /\ ~Usb3(p) /\ Active(p) /\ (p < port \/ (p = port /\ Busy)) => resets[p] # "none"

Sockets == Paired /\ Passes /\ Handed

(* What a reset does to the ports: the layout stays, and of the USB2 ports only the one
   that worked and the companion of the one that failed become active. *)
LEMMA ResetEffect ==
  ASSUME Paired, port \in DOMAIN port_info, NEW outcome \in ResetOutcomes, ResetPort(outcome)
  PROVE  /\ DOMAIN port_info' = DOMAIN port_info
         /\ \A p \in DOMAIN port_info :
              /\ port_info'[p] \in Port
              /\ port_info'[p].usb3 = port_info[p].usb3
              /\ port_info'[p].pair = port_info[p].pair
              /\ port_info'[p].other_port_num = port_info[p].other_port_num
              /\ ~port_info[p].usb3 =>
                   (port_info'[p].active <=>
                      \/ port_info[p].active
                      \/ port_info[port].usb3 /\ outcome = "failed"
                           /\ p = port_info[port].other_port_num
                      \/ ~port_info[port].usb3 /\ outcome = "ok" /\ p = port)
<1> DEFINE D == DOMAIN port_info
           other == port_info[port].other_port_num
<1>a. /\ \A p \in D : port_info[p] \in Port
      /\ port_info[port].pair => (port_info[other].usb3 # port_info[port].usb3 /\ other \in D)
  BY DEF Paired, Usb3, Other
<1>b. \A r \in Port, b \in BOOLEAN :
        /\ [r EXCEPT !.active = b] \in Port
        /\ [r EXCEPT !.active = b].usb3 = r.usb3
        /\ [r EXCEPT !.active = b].pair = r.pair
        /\ [r EXCEPT !.active = b].other_port_num = r.other_port_num
        /\ [r EXCEPT !.active = b].active = b
  BY DEF Port
<1>1. CASE outcome = "ok" /\ ~port_info[port].usb3
  <2> DEFINE b(q) == IF q = port THEN TRUE
                     ELSE port_info[q].active /\ ~(port_info[port].pair /\ q = other)
  <2>1. port_info' = [q \in D |-> [port_info[q] EXCEPT !.active = b(q)]]
    BY <1>1 DEF ResetPort, AfterReset
  <2>2. \A q \in D : b(q) \in BOOLEAN
    BY <1>a DEF Port
  <2>3. \A q \in D : ~port_info[q].usb3 => (b(q) <=> port_info[q].active \/ q = port)
    BY <1>a, <1>1 DEF Port
  <2> HIDE DEF b
  <2>4. DOMAIN port_info' = D
    BY <2>1
  <2>5. ASSUME NEW q \in D
        PROVE  /\ port_info'[q] \in Port
               /\ port_info'[q].usb3 = port_info[q].usb3
               /\ port_info'[q].pair = port_info[q].pair
               /\ port_info'[q].other_port_num = port_info[q].other_port_num
               /\ port_info'[q].active = b(q)
    <3>1. port_info'[q] = [port_info[q] EXCEPT !.active = b(q)]
      BY <2>1
    <3>2. port_info[q] \in Port /\ b(q) \in BOOLEAN
      BY <1>a, <2>2
    <3> QED
      BY <3>1, <3>2, <1>b
  <2>6. ASSUME NEW q \in D, ~port_info[q].usb3
        PROVE  port_info'[q].active <=> port_info[q].active \/ q = port
    BY <2>3, <2>5, <2>6
  <2> QED
    BY <1>1, <2>4, <2>5, <2>6
<1>2. CASE outcome = "failed" /\ port_info[port].usb3
  <2> DEFINE b(q) == IF q = other THEN TRUE ELSE port_info[q].active /\ q # port
  <2>1. port_info' = [q \in D |-> [port_info[q] EXCEPT !.active = b(q)]]
    BY <1>2 DEF ResetPort, AfterReset
  <2>2. \A q \in D : b(q) \in BOOLEAN
    BY <1>a DEF Port
  <2>3. \A q \in D : ~port_info[q].usb3 => (b(q) <=> port_info[q].active \/ q = other)
    BY <1>a, <1>2 DEF Port
  <2> HIDE DEF b
  <2>4. DOMAIN port_info' = D
    BY <2>1
  <2>5. ASSUME NEW q \in D
        PROVE  /\ port_info'[q] \in Port
               /\ port_info'[q].usb3 = port_info[q].usb3
               /\ port_info'[q].pair = port_info[q].pair
               /\ port_info'[q].other_port_num = port_info[q].other_port_num
               /\ port_info'[q].active = b(q)
    <3>1. port_info'[q] = [port_info[q] EXCEPT !.active = b(q)]
      BY <2>1
    <3>2. port_info[q] \in Port /\ b(q) \in BOOLEAN
      BY <1>a, <2>2
    <3> QED
      BY <3>1, <3>2, <1>b
  <2>6. ASSUME NEW q \in D, ~port_info[q].usb3
        PROVE  port_info'[q].active <=> port_info[q].active \/ q = other
    BY <2>3, <2>5, <2>6
  <2> QED
    BY <1>2, <2>4, <2>5, <2>6
<1>3. CASE ~(outcome = "ok" /\ ~port_info[port].usb3) /\ ~(outcome = "failed" /\ port_info[port].usb3)
  <2>1. port_info' = port_info
    BY <1>3 DEF ResetPort, AfterReset, ResetOutcomes
  <2> QED
    BY <1>3, <1>a, <2>1
<1> QED
  BY <1>1, <1>2, <1>3

LEMMA PairedStep ==
  ASSUME Paired, DOMAIN port_info' = DOMAIN port_info,
         \A p \in DOMAIN port_info :
           /\ port_info'[p] \in Port
           /\ port_info'[p].usb3 = port_info[p].usb3
           /\ port_info'[p].pair = port_info[p].pair
           /\ port_info'[p].other_port_num = port_info[p].other_port_num
  PROVE  Paired'
  BY NdpKept DEF Paired, Usb3, Other

(* What a step does that resets no port. *)
LEMMA OtherSteps ==
  ASSUME IndInv, Next
  PROVE  \/ \E outcome \in ResetOutcomes : FirstReset(outcome) \/ SecondReset(outcome)
         \/ /\ UNCHANGED <<port_info, resets>>
            /\ \/ SkipPort \/ EndOfPorts
               \/ UNCHANGED pass /\ Busy /\ port' = port + 1 /\ pc' = "loop"
               \/ UNCHANGED <<pass, port>> /\ Busy /\ pc' = "exit"
               \/ UNCHANGED <<pass, port>> /\ Busy /\ Busy' /\ pc' # "loop" /\ pc' # "done"
                    /\ (Early' => Early)
               \/ UNCHANGED <<pass, port, pc, step>>
<1> USE DEF Busy, Commanding, Writing, Waiting, Reading, Early
<1>1. SkipPort \/ EndOfPorts => UNCHANGED <<port_info, resets>>
  BY DEF SkipPort, EndOfPorts, ghosts
<1>2. ASSUME Compose \/ WriteFirst \/ WriteSecond \/ Doorbell \/ DataStage \/ StatusStage
      PROVE  /\ UNCHANGED <<port_info, resets, pass, port, step>> /\ Busy
             /\ pc' = "exit" \/ (Busy' /\ pc' # "loop" /\ pc' # "done")
  BY <1>2 DEF Compose, WriteFirst, WriteSecond, Doorbell, DataStage, StatusStage, ghosts
<1>3. ASSUME CommandAnswered
      PROVE  /\ UNCHANGED <<port_info, resets, pass, port>> /\ Busy
             /\ pc' = "exit" \/ (Busy' /\ pc' # "loop" /\ pc' # "done" /\ (Early' => Early))
  BY <1>3 DEF CommandAnswered, SlotEnabled, Addressed, ghosts
<1>4. ASSUME CommandTimeout \/ TransferTimeout
      PROVE  UNCHANGED <<port_info, resets, pass>> /\ Busy /\ port' = port + 1 /\ pc' = "loop"
  BY <1>4 DEF CommandTimeout, TransferTimeout, NextPort, ghosts
<1>5. ASSUME TransferAnswered
      PROVE  /\ UNCHANGED <<port_info, resets, pass>> /\ Busy
             /\ \/ port' = port + 1 /\ pc' = "loop"
                \/ UNCHANGED <<port, step>> /\ pc' = "reset"
  BY <1>5 DEF TransferAnswered, TransferGood, TransferBad, NextPort, ghosts
<1>6. Controller \/ Interrupt => UNCHANGED <<port_info, resets, pass, port, pc, step>>
  BY DEF Controller, ExecuteCommand, CommandRingEmpty, ExecuteTransfer, TransferRingEmpty,
         FailTransfer, Interrupt, program, ghosts
<1> QED
  BY <1>1, <1>2, <1>3, <1>4, <1>5, <1>6 DEF Next, Program

LEMMA SocketsReset ==
  ASSUME IndInv, Sockets, NEW outcome \in ResetOutcomes,
         FirstReset(outcome) \/ SecondReset(outcome)
  PROVE  Sockets'
<1> DEFINE D == DOMAIN port_info
<1>1. /\ ResetPort(outcome) /\ port \in Nat /\ port < Ndp /\ pass' = pass /\ pass \in {2, 3}
      /\ resets' = [resets EXCEPT ![port] = outcome] /\ outcome # "none"
  BY DEF FirstReset, SecondReset, ResetPort, IndInv, Place, ResetOutcomes
<1>2. /\ DOMAIN port_info = 0 .. Ndp - 1 /\ Ndp \in Nat /\ D \subseteq Nat
      /\ port \in D /\ \A p \in D : port_info[p] \in Port
  BY <1>1 DEF Sockets, Paired
<1>3. /\ DOMAIN port_info' = D
      /\ \A p \in D :
           /\ port_info'[p] \in Port
           /\ port_info'[p].usb3 = port_info[p].usb3
           /\ port_info'[p].pair = port_info[p].pair
           /\ port_info'[p].other_port_num = port_info[p].other_port_num
           /\ ~port_info[p].usb3 =>
                (port_info'[p].active <=>
                   \/ port_info[p].active
                   \/ port_info[port].usb3 /\ outcome = "failed"
                        /\ p = port_info[port].other_port_num
                   \/ ~port_info[port].usb3 /\ outcome = "ok" /\ p = port)
  BY <1>1, <1>2, ResetEffect DEF Sockets
<1>4. Paired'
  BY <1>3, PairedStep DEF Sockets
<1>5. /\ FirstReset(outcome) => pc = "loop" /\ (Usb3(port) <=> pass = 3) /\ Active(port)
      /\ SecondReset(outcome) => pc = "reset" /\ Busy /\ Early
  BY <1>2 DEF FirstReset, SecondReset, Selected, Usb3, Active, Port, Busy, Early, IndInv, Place
<1>6. Usb3(port) <=> pass = 3
  BY <1>5 DEF Sockets, Passes
<1>7. ~Usb3(port) => Active(port)
  BY <1>5, <1>2 DEF Sockets, Passes, Handed
<1>8. Usb3(port) => resets[port] # "failed"
  BY <1>2, <1>5, <1>6 DEF Sockets, Passes
<1>9. \A p \in D : ~Usb3(p) =>
        (port_info'[p].active <=> Active(p) \/ (Usb3(port) /\ outcome = "failed" /\ p = Other(port)))
  BY <1>3, <1>7 DEF Usb3, Active, Other
<1>10. /\ resets' \in [D -> {"none"} \cup ResetOutcomes] /\ resets'[port] = outcome
       /\ \A p \in D : p # port => resets'[p] = resets[p]
  BY <1>1, <1>2 DEF Sockets, Passes
<1>11. \/ port' = port /\ pc' = "send" /\ (step' \in {"ENABLE_SLOT", "ADDRESS_1", "IN_8"} => outcome = "ok")
       \/ port' = port + 1 /\ pc' = "loop"
  BY <1>5 DEF FirstReset, SecondReset
<1>12. \A p \in D : /\ (Usb3(p) <=> port_info'[p].usb3)
                    /\ Other(p) = port_info'[p].other_port_num
  BY <1>3 DEF Usb3, Other
<1>13. ASSUME NEW p \in D, pass = 3, ~Usb3(p) \/ p > port' \/ (p = port' /\ pc' = "loop")
       PROVE  resets'[p] = "none"
  <2>1. p \in Nat /\ (~Usb3(p) \/ p > port)
    BY <1>1, <1>2, <1>11, <1>13
  <2>2. p # port
    BY <2>1, <1>1, <1>6, <1>13
  <2>3. resets[p] = "none"
    BY <2>1, <1>13 DEF Sockets, Passes
  <2> QED
    BY <2>2, <2>3, <1>10
<1>14. Passes'
  <2>1. port' = port => (port_info'[port].usb3 <=> pass = 3)
    BY <1>2, <1>6, <1>12
  <2>2. pc' = "loop" => ~Busy'
    BY DEF Busy, Commanding, Reading, Writing, Waiting
  <2> QED
    BY <1>1, <1>3, <1>10, <1>11, <1>12, <1>13, <2>1, <2>2 DEF Passes, Usb3, Early
<1>15. ASSUME NEW p \in D, Usb3(p)
       PROVE  port_info'[Other(p)].active <=> resets'[p] = "failed"
  <2>1. Other(p) \in D /\ ~Usb3(Other(p)) /\ Other(Other(p)) = p
    BY <1>2, <1>15 DEF Sockets, Paired, Port, Usb3
  <2>2. Active(Other(p)) <=> resets[p] = "failed"
    BY <1>15 DEF Sockets, Handed
  <2>3. CASE p = port
    BY <2>1, <2>2, <2>3, <1>8, <1>9, <1>10, <1>15
  <2>4. CASE p # port
    <3>1. Usb3(port) => Other(p) # Other(port)
      <4>1. Usb3(port) => Other(Other(port)) = port
        BY <1>2 DEF Sockets, Paired
      <4> QED
        BY <4>1, <2>1, <2>4
    <3> QED
      BY <2>1, <2>2, <2>4, <3>1, <1>9, <1>10
  <2> QED
    BY <2>3, <2>4
<1>16. ASSUME NEW p \in D, ~Usb3(p), resets'[p] # "none"
       PROVE  port_info'[p].active
  <2>1. Active(p)
    BY <1>7, <1>10, <1>16 DEF Sockets, Handed
  <2> QED
    BY <2>1, <1>9, <1>16
<1>17. ASSUME NEW p \in D, pass = 2, ~Usb3(p), port_info'[p].active,
              p < port' \/ (p = port' /\ Busy')
       PROVE  resets'[p] # "none"
  <2>1. CASE p = port
    BY <2>1, <1>1, <1>10
  <2>2. CASE p # port
    <3>1. Active(p)
      BY <1>6, <1>9, <1>17
    <3>2. pc' = "loop" => ~Busy'
      BY DEF Busy, Commanding, Reading, Writing, Waiting
    <3>3. p < port
      BY <2>2, <3>2, <1>1, <1>2, <1>11, <1>17
    <3> QED
      BY <2>2, <3>1, <3>3, <1>10, <1>17 DEF Sockets, Handed
  <2> QED
    BY <2>1, <2>2
<1>18. Handed'
  BY <1>1, <1>3, <1>12, <1>15, <1>16, <1>17 DEF Handed, Usb3, Other, Active
<1> QED
  BY <1>4, <1>14, <1>18 DEF Sockets

(* The loops skip only ports that are not theirs or not active. *)
LEMMA SocketsStep ==
  ASSUME IndInv, Sockets, Next
  PROVE  Sockets'
<1>1. ASSUME NEW outcome \in ResetOutcomes, FirstReset(outcome) \/ SecondReset(outcome)
      PROVE  Sockets'
  BY <1>1, SocketsReset
<1>2. ASSUME UNCHANGED <<port_info, resets>>
      PROVE  Sockets'
  <2>0. /\ DOMAIN port_info = 0 .. Ndp - 1 /\ Ndp \in Nat /\ port \in Nat /\ port <= Ndp
        /\ \A p \in DOMAIN port_info : p \in Nat /\ port_info[p] \in Port /\ p < Ndp
    BY DEF Sockets, Paired, IndInv, Place
  <2>1. Paired'
    BY <1>2, NdpKept DEF Sockets, Paired, Usb3, Other
  <2>2. pc' = "loop" \/ pc' = "exit" => ~Busy'
    BY DEF Busy, Commanding, Reading, Writing, Waiting
  <2>3. Passes /\ Handed
    BY DEF Sockets
  <2> USE DEF Passes, Handed, Usb3, Other, Active
  <2>4. CASE SkipPort
    <3>1. /\ UNCHANGED pass /\ port' = port + 1 /\ pc = "loop" /\ pc' = "loop"
          /\ ~(Usb3(port) = (pass = 3) /\ Active(port)) /\ port < Ndp
      BY <2>4 DEF SkipPort, Selected
    <3>2. port \in DOMAIN port_info
      BY <3>1, <2>0
    <3>3. pass = 2 /\ ~Usb3(port) => ~Active(port)
      BY <3>1, <3>2, <2>0 DEF Port
    <3>4. Passes'
      BY <1>2, <2>0, <2>2, <2>3, <3>1
    <3>5. Handed'
      BY <1>2, <2>0, <2>2, <2>3, <3>1, <3>3
    <3> QED
      BY <2>1, <3>4, <3>5 DEF Sockets
  <2>5. CASE EndOfPorts
    <3>1. /\ pc = "loop" /\ port = Ndp
          /\ \/ pass = 3 /\ pass' = 2 /\ port' = 0 /\ pc' = "loop"
             \/ pass # 3 /\ pc' = "done" /\ UNCHANGED <<pass, port>>
      BY <2>5 DEF EndOfPorts
    <3>2. ~Busy' /\ pass \in {2, 3} /\ Ndp' = Ndp
      BY <1>2, <3>1, NdpKept DEF Busy, Commanding, Reading, Writing, Waiting, IndInv, Place
    <3>3. Passes'
      BY <1>2, <2>0, <2>3, <3>1, <3>2
    <3>4. Handed'
      BY <1>2, <2>0, <2>3, <3>1, <3>2
    <3> QED
      BY <2>1, <3>3, <3>4 DEF Sockets
  <2>6. CASE UNCHANGED pass /\ Busy /\ port' = port + 1 /\ pc' = "loop"
    BY <1>2, <2>0, <2>1, <2>2, <2>3, <2>6 DEF Sockets
  <2>7. CASE UNCHANGED <<pass, port>> /\ Busy /\ pc' = "exit"
    BY <1>2, <2>0, <2>1, <2>2, <2>3, <2>7 DEF Sockets
  <2>8. CASE /\ UNCHANGED <<pass, port>> /\ Busy /\ Busy' /\ pc' # "loop" /\ pc' # "done"
             /\ (Early' => Early)
    BY <1>2, <2>0, <2>1, <2>3, <2>8 DEF Sockets
  <2>9. CASE UNCHANGED <<pass, port, pc, step>>
    <3>1. Busy' = Busy /\ Early' = Early /\ Ndp' = Ndp
      BY <1>2, <2>9 DEF Busy, Early, Commanding, Reading, Writing, Waiting, Ndp
    <3> QED
      BY <1>2, <2>0, <2>1, <2>3, <2>9, <3>1 DEF Sockets
  <2>10. \/ SkipPort \/ EndOfPorts
         \/ UNCHANGED pass /\ Busy /\ port' = port + 1 /\ pc' = "loop"
         \/ UNCHANGED <<pass, port>> /\ Busy /\ pc' = "exit"
         \/ UNCHANGED <<pass, port>> /\ Busy /\ Busy' /\ pc' # "loop" /\ pc' # "done"
              /\ (Early' => Early)
         \/ UNCHANGED <<pass, port, pc, step>>
         \/ \E outcome \in ResetOutcomes : FirstReset(outcome) \/ SecondReset(outcome)
    BY OtherSteps
  <2> QED
    BY <1>1, <2>4, <2>5, <2>6, <2>7, <2>8, <2>9, <2>10
<1> QED
  BY <1>1, <1>2, OtherSteps

(* The pairs of ports stay as the capabilities say, and of a pair only one is active (the
   loops of process_xhci, and xhci_reset_port). *)
THEOREM XhciSockets == Spec => []Sockets
<1>1. Init => Sockets
  <2> SUFFICES ASSUME Init
               PROVE  Sockets
    OBVIOUS
  <2>1. Paired
    BY InitPaired
  <2>2. Passes
    BY <2>1 DEF Init, Passes, Busy, Commanding, Reading, Writing, Waiting
  <2>3. \A p \in DOMAIN port_info :
          resets[p] = "none" /\ (Active(p) <=> Usb3(p) \/ ~port_info[p].pair)
    <3>1. PICK items \in Layouts : port_info = PortInfo(items)
      BY DEF Init
    <3>2. ASSUME NEW p \in Ports(items)
          PROVE  PortInfo(items)[p].active <=>
                   PortInfo(items)[p].usb3 \/ ~PortInfo(items)[p].pair
      BY DEF PortInfo
    <3>3. DOMAIN port_info = Ports(items)
      BY <3>1 DEF PortInfo
    <3>4. \A p \in DOMAIN port_info : resets[p] = "none"
      BY DEF Init
    <3> QED
      BY <3>1, <3>2, <3>3, <3>4 DEF Active, Usb3
  <2>4. \A p \in DOMAIN port_info :
          Usb3(p) => /\ Other(p) \in DOMAIN port_info /\ ~Usb3(Other(p))
                     /\ port_info[Other(p)].pair
    BY <2>1 DEF Paired, Usb3, Port
  <2>5. Handed
    BY <2>3, <2>4 DEF Init, Handed
  <2> QED
    BY <2>1, <2>2, <2>5 DEF Sockets
<1>2. IndInv /\ Sockets /\ [Next]_vars => Sockets'
  <2>1. Sockets /\ UNCHANGED vars => Sockets'
    BY DEF vars, program, ghosts, Sockets, Paired, Passes, Handed, Ndp, Usb3, Other, Active, Busy,
           Early, Commanding, Reading, Writing, Waiting
  <2> QED
    BY <2>1, SocketsStep
<1> QED
  BY <1>1, <1>2, XhciInductive, PTL DEF Spec

(* Of two ports that are one socket only one is used, and the one that could not be reset
   hands over (the loops of process_xhci, and xhci_reset_port). *)
THEOREM XhciOneOfPair == Spec => []OneOfPair
<1>1. IndInv /\ Sockets => OneOfPair
  <2> SUFFICES ASSUME IndInv, Sockets, NEW p \in DOMAIN port_info, port_info[p].usb3
               PROVE  LET other == resets[port_info[p].other_port_num]
                      IN  /\ port_info[p].pair /\ resets[p] = "ok" /\ pass = 2 => other = "none"
                          /\ pc = "done" /\ resets[p] = "failed" => other # "none"
    BY DEF OneOfPair
  <2> DEFINE q == Other(p)
  <2>1. q \in DOMAIN port_info /\ ~Usb3(q) /\ q < Ndp
    BY DEF Sockets, Paired, Usb3, Port
  <2>2. Active(q) <=> resets[p] = "failed"
    BY DEF Sockets, Handed, Usb3
  <2>3. resets[p] = "ok" => resets[q] = "none"
    BY <2>1, <2>2 DEF Sockets, Handed
  <2>4. pc = "done" /\ resets[p] = "failed" => resets[q] # "none"
    BY <2>1, <2>2 DEF Sockets, Handed, Passes
  <2> QED
    BY <2>3, <2>4 DEF Other
<1> QED
  BY <1>1, XhciInductive, XhciSockets, PTL

-----------------------------------------------------------------------------
(* Type correctness: what IndInv and Sockets do not say.  Also a port without a companion
   names a port, and the dword the program waits for is one of those that hold a status. *)
Steps == {"none", "ENABLE_SLOT", "ADDRESS_1", "IN_8", "ADDRESS_2", "IN_18"}

Named ==
  /\ step \in Steps
  /\ \A p \in DOMAIN port_info : port_info[p].other_port_num \in DOMAIN port_info
  /\ \A a \in DOMAIN dword : dword[a] \in {"zero", "ok", "error"}

LEMMA InitNamed == Init => Named
<1> SUFFICES ASSUME Init
             PROVE  Named
  OBVIOUS
<1>1. PICK items \in Layouts : port_info = PortInfo(items)
  BY DEF Init
<1>2. PICK n \in 1 .. 16 : Ports(items) = 0 .. n - 1
  BY LayoutAssumption
<1>3. DOMAIN port_info = 0 .. n - 1 /\ 0 \in DOMAIN port_info
  BY <1>1, <1>2 DEF PortInfo
<1>4. ASSUME NEW p \in DOMAIN port_info
      PROVE  port_info[p].other_port_num \in DOMAIN port_info
  <2>1. CASE port_info[p].pair
    BY <2>1, InitPaired DEF Paired, Other
  <2>2. CASE ~port_info[p].pair
    <3>1. port_info[p].other_port_num = 0
      BY <1>1, <1>2, <1>3, <2>2 DEF PortInfo
    <3> QED
      BY <1>3, <3>1
  <2> QED
    BY <2>1, <2>2
<1>5. DOMAIN dword = {} /\ step = "none"
  BY DEF Init
<1> QED
  BY <1>4, <1>5 DEF Named, Steps

LEMMA NamedStep ==
  ASSUME IndInv, Sockets, Named, Next
  PROVE  Named'
<1>1. step' \in Steps
  <2>1. step' = step \/ step' \in Steps
    <3>1. Program => step' = step \/ step' \in Steps
      BY DEF Program, SkipPort, EndOfPorts, FirstReset, SecondReset, Compose, WriteFirst,
             WriteSecond, Doorbell, CommandAnswered, SlotEnabled, Addressed, CommandTimeout,
             DataStage, StatusStage, TransferAnswered, TransferGood, TransferBad,
             TransferTimeout, NextPort, Steps
    <3>2. Controller \/ Interrupt => step' = step
      BY DEF Controller, ExecuteCommand, CommandRingEmpty, ExecuteTransfer, TransferRingEmpty,
             FailTransfer, Interrupt, program
    <3> QED
      BY <3>1, <3>2 DEF Next
  <2> QED
    BY <2>1 DEF Named
<1>2. \A p \in DOMAIN port_info' : port_info'[p].other_port_num \in DOMAIN port_info'
  <2>1. CASE UNCHANGED port_info
    BY <2>1 DEF Named
  <2>2. ASSUME NEW outcome \in ResetOutcomes, FirstReset(outcome) \/ SecondReset(outcome)
        PROVE  \A p \in DOMAIN port_info' : port_info'[p].other_port_num \in DOMAIN port_info'
    <3>1. ResetPort(outcome)
      BY <2>2 DEF FirstReset, SecondReset
    <3>2. port \in DOMAIN port_info /\ Paired
      BY <2>2 DEF FirstReset, SecondReset, Sockets, Paired, IndInv, Place
    <3> QED
      BY <3>1, <3>2, ResetEffect DEF Named
  <2> QED
    BY <2>1, <2>2, OtherSteps
<1>3. \A a \in DOMAIN dword' : dword'[a] \in {"zero", "ok", "error"}
  <2>1. CASE DataStage
    BY <2>1 DEF DataStage, Named, Put
  <2>2. CASE StatusStage
    BY <2>2 DEF StatusStage, Named
  <2>3. CASE Interrupt
    BY <2>3 DEF Interrupt, Named
  <2>4. ~DataStage /\ ~StatusStage /\ ~Interrupt => UNCHANGED dword
    BY DEF Next, Program, SkipPort, EndOfPorts, FirstReset, SecondReset, ResetPort, Compose,
           WriteFirst, WriteSecond, Doorbell, CommandAnswered, CommandTimeout, TransferAnswered,
           TransferTimeout, Controller, ExecuteCommand, CommandRingEmpty, ExecuteTransfer,
           TransferRingEmpty, FailTransfer, memory
  <2> QED
    BY <2>1, <2>2, <2>3, <2>4 DEF Named
<1> QED
  BY <1>1, <1>2, <1>3 DEF Named

(* The variables of gd_xhci and of the controller have their values: the index of the ring
   stays on it, and every TRB is one that was written in full or in half. *)
THEOREM XhciTypes == Spec => []TypeOK
<1>1. IndInv /\ Sockets /\ Named /\ [Next]_vars => Named'
  <2>1. Named /\ UNCHANGED vars => Named'
    BY DEF vars, program, memory, Named
  <2> QED
    BY <2>1, NamedStep
<1>2. IndInv /\ Sockets /\ Named => TypeOK
  <2> SUFFICES ASSUME IndInv, Sockets, Named
               PROVE  TypeOK
    OBVIOUS
  <2>1. pc \in {"loop", "send", "write_1", "write_2", "doorbell", "wait", "data", "status",
                "answer", "reset", "done", "exit"}
    BY DEF IndInv, Place, Commanding, Writing, Waiting, Reading
  <2>2. pass \in {2, 3} /\ port \in 0 .. Ndp
    BY DEF IndInv, Place
  <2>3. ASSUME NEW p \in DOMAIN port_info
        PROVE  port_info[p] \in [usb3 : BOOLEAN, pair : BOOLEAN, active : BOOLEAN,
                                 other_port_num : DOMAIN port_info]
    <3>1. port_info[p] \in Port /\ port_info[p].other_port_num \in DOMAIN port_info
      BY DEF Sockets, Paired, Named
    <3> QED
      BY <3>1 DEF Port
  <2>4. cmnd_trb \in 0 .. Last /\ Last \in Nat
    BY RoomLeft, Sizes DEF IndInv
  <2>5. /\ cur_heap_ptr \in Nat /\ cmnd_trb_cycle \in {0, 1}
        /\ org_trb \in 0 .. Last /\ slot_id \in Nat /\ status_addr \in Nat
        /\ ring \in [0 .. Last -> Trb]
    BY DEF IndInv, Memory, Order
  <2>6. ctrl \in [at : 0 .. Last, running : BOOLEAN, slots : Nat]
    <3>1. ctrl \in [at : Nat, running : BOOLEAN, slots : Nat] /\ ctrl.at <= cmnd_trb
      BY DEF IndInv, Device
    <3>2. ctrl.at \in 0 .. Last
      BY <2>4, <3>1
    <3> QED
      BY <3>1, <3>2
  <2> QED
    BY <2>1, <2>2, <2>3, <2>4, <2>5, <2>6 DEF Named, Steps, Trb, TypeOK
<1> QED
  BY <1>1, <1>2, InitNamed, XhciInductive, XhciSockets, PTL DEF Spec
=============================================================================
