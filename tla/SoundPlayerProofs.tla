------------------------- MODULE SoundPlayerProofs -------------------------
(***************************************************************************)
(* What is heard of a file of any length, with blocks of any size: without *)
(* auto-init chunk after chunk, with it two halves of a buffer that the    *)
(* program fills while the card plays the other one.                       *)
(***************************************************************************)
EXTENDS SoundPlayer, TLAPS

(* Types, and that all that was heard was in order. *)
InOrder ==
  /\ file_len \in Nat /\ fpos \in 0 .. file_len /\ len \in 0 .. CHUNK_SIZE
  /\ cur_block \in {0, 1}
  /\ DOMAIN mem = 0 .. CHUNK_SIZE - 1 /\ DOMAIN buffer = 0 .. CHUNK_SIZE - 1
  /\ irq_fired \in BOOLEAN /\ line \in BOOLEAN /\ irr \in BOOLEAN
  /\ card \in [mode : {"off", "single", "auto", "exiting"},
               pos : Nat, size : Nat \ {0}, left : Nat]
  /\ heard \in [count : Nat, clean : BOOLEAN] /\ heard.clean

(* The interrupt at the end of a block or a chunk is on its way: noticed by the
   controller, or handled and not yet seen by the program. *)
Asked == irq_fired <=> ~irr
Quiet == ~irq_fired /\ ~irr

-----------------------------------------------------------------------------
(* Without auto-init. *)

(* A chunk is in the buffer, and what was heard ends before it. *)
Loaded ==
  /\ len > 0
  /\ \A i \in 0 .. len - 1 : buffer[i] = fpos - len + i + 1

Chunk ==
  /\ card.mode = "single" /\ Quiet /\ ~line /\ Loaded
  /\ card.size = len /\ card.pos \in 0 .. len - 1 /\ card.left = len - card.pos
  /\ heard.count = fpos - len + card.pos

(* All that was read was heard. *)
Played   == card.mode = "off" /\ heard.count = fpos
LastRead == len < CHUNK_SIZE => fpos = file_len

Single ==
  /\ sound_pc \in {"read", "start", "wait", "acknowledge", "stop", "done"}
  /\ sound_pc = "read" => Played /\ ~line /\ ~irr
  /\ sound_pc = "start" =>
       card.mode = "off" /\ Quiet /\ ~line /\ Loaded /\ LastRead /\ heard.count = fpos - len
  /\ sound_pc = "wait" => LastRead /\ (Chunk \/ (Played /\ Asked))
  /\ sound_pc = "acknowledge" => LastRead /\ Played /\ ~irr
  /\ sound_pc \in {"stop", "done"} => Played /\ fpos = file_len

-----------------------------------------------------------------------------
(* With auto-init. *)

(* The unit of the file that is due at place i of the buffer, as the card goes
   round from where it is. *)
Due(i) == IF i >= card.pos THEN heard.count + 1 + (i - card.pos)
                           ELSE heard.count + 1 + (i - card.pos) + CHUNK_SIZE

(* The units up to this one are in the buffer before the card comes to them. *)
Filled(unit) == \A i \in 0 .. CHUNK_SIZE - 1 : Due(i) <= unit => buffer[i] = Due(i)

(* The card is in the block that ends at place end of the buffer; all blocks
   before it were heard in full. *)
InBlock(end) ==
  /\ card.size = CHUNK_SIZE /\ card.left \in 1 .. BLOCK_SIZE
  /\ card.pos + card.left = end
  /\ \E k \in Nat : heard.count + card.left = k * BLOCK_SIZE

BlockEnd == heard.count + card.left

(* The half the program fills next is the one that plays, or the other one. *)
Ahead  == InBlock(IF cur_block = 0 THEN BLOCK_SIZE ELSE CHUNK_SIZE)
            /\ fpos = BlockEnd + BLOCK_SIZE
Behind == InBlock(IF cur_block = 0 THEN CHUNK_SIZE ELSE BLOCK_SIZE) /\ fpos = BlockEnd

(* The block that plays is the last that was read in full. *)
LastBlock(end) == fpos = file_len /\ end <= file_len /\ file_len < end + BLOCK_SIZE
Ending == /\ \/ InBlock(BLOCK_SIZE)
             \/ InBlock(CHUNK_SIZE)
          /\ LastBlock(BlockEnd) /\ Filled(BlockEnd) /\ Quiet /\ ~line
AllHeard == /\ card.mode = "off" /\ LastBlock(heard.count)
            /\ \E k \in Nat : heard.count = k * BLOCK_SIZE

AutoInit ==
  /\ sound_pc \in {"read", "start", "wait", "acknowledge", "refill", "exit", "last", "stop",
                   "done"}
  /\ sound_pc = "read" =>
       card.mode = "off" /\ ~line /\ ~irr /\ fpos = 0 /\ heard.count = 0
  /\ sound_pc = "start" =>
       /\ card.mode = "off" /\ Quiet /\ ~line /\ heard.count = 0
       /\ len = CHUNK_SIZE /\ fpos = CHUNK_SIZE /\ Loaded
  /\ sound_pc = "wait" =>
       /\ card.mode = "auto" /\ Filled(fpos)
       /\ \/ Quiet /\ ~line /\ Ahead
          \/ Asked /\ Behind
  /\ sound_pc = "acknowledge" => card.mode = "auto" /\ Filled(fpos) /\ Quiet /\ Behind
  /\ sound_pc = "refill" => card.mode = "auto" /\ Filled(fpos) /\ Quiet /\ ~line /\ Behind
  /\ sound_pc = "exit" => card.mode = "auto" /\ Ending
  /\ sound_pc = "last" => \/ card.mode = "exiting" /\ Ending
                          \/ AllHeard /\ Asked
  /\ sound_pc \in {"stop", "done"} => AllHeard

PlayInv ==
  /\ auto_init \in BOOLEAN
  /\ Paced => InOrder /\ (IF auto_init THEN AutoInit ELSE Single)

-----------------------------------------------------------------------------
(* Arithmetic. *)

LEMMA Step ==
  ASSUME NEW size \in Nat \ {0}, NEW pos \in 0 .. size - 1
  PROVE  (pos + 1) % size = IF pos + 1 = size THEN 0 ELSE pos + 1
<1>1. CASE pos + 1 = size
  <2>1. size % size = 0
    OBVIOUS
  <2>2. QED
    BY <1>1, <2>1
<1>2. CASE pos + 1 # size
  <2> DEFINE next == pos + 1
  <2>1. next \in 0 .. size - 1
    BY <1>2
  <2> HIDE DEF next
  <2>2. next % size = next
    BY <2>1
  <2>3. QED
    BY <1>2, <2>2 DEF next
<1>3. QED
  BY <1>1, <1>2

(* What is left of a file behind its whole blocks. *)
LEMMA Remainder ==
  ASSUME NEW b \in Nat \ {0}, NEW k \in Nat, NEW n \in Nat,
         k * b <= n, n < k * b + b
  PROVE  k * b = n - (n % b)
<1> DEFINE r == n - k * b
<1>1. k * b \in Nat
  OBVIOUS
<1>2. r \in 0 .. b - 1 /\ n = k * b + r
  BY <1>1
<1> HIDE DEF r
<1>3. (k * b + r) % b = r
  BY <1>2
<1>4. QED
  BY <1>1, <1>2, <1>3

-----------------------------------------------------------------------------
(* Helpers. *)

(* fread brings the next units of the file, and fewer only at its end. *)
LEMMA FreadBrings ==
  ASSUME InOrder, NEW n \in 1 .. CHUNK_SIZE, Fread(n)
  PROVE  \E got \in 0 .. n :
           /\ len' = got /\ fpos' = fpos + got /\ fpos + got <= file_len
           /\ got < n => fpos + got = file_len
           /\ DOMAIN mem' = 0 .. CHUNK_SIZE - 1
           /\ \A i \in 0 .. got - 1 : mem'[i] = fpos + i + 1
<1> DEFINE got == IF file_len - fpos < n THEN file_len - fpos ELSE n
<1>1. CHUNK_SIZE \in Nat /\ n \in Nat /\ n <= CHUNK_SIZE /\ n > 0
  BY SoundAssumption DEF CHUNK_SIZE
<1>2. file_len \in Nat /\ fpos \in Nat /\ fpos <= file_len
  BY DEF InOrder
<1>3. /\ len' = got /\ fpos' = fpos + got
      /\ mem' = [i \in DOMAIN mem |-> IF i < got THEN fpos + i + 1 ELSE mem[i]]
  BY DEF Fread
<1>4. /\ got \in 0 .. n /\ fpos + got <= file_len
      /\ got < n => fpos + got = file_len
  BY <1>1, <1>2
<1> HIDE DEF got
<1>5. DOMAIN mem' = 0 .. CHUNK_SIZE - 1
  BY <1>3 DEF InOrder
<1>6. ASSUME NEW i \in 0 .. got - 1 PROVE mem'[i] = fpos + i + 1
  <2>1. i \in 0 .. CHUNK_SIZE - 1 /\ i < got
    BY <1>1, <1>4
  <2>2. i \in DOMAIN mem
    BY <2>1 DEF InOrder
  <2>3. QED
    BY <1>3, <2>1, <2>2
<1>7. QED
  BY <1>3, <1>4, <1>5, <1>6

(* The copy puts these units in their places and touches nothing behind the
   block, or behind the units when they are more. *)
LEMMA CopyPuts ==
  ASSUME InOrder, NEW address \in Nat, NEW n \in Nat, CopyMemToAddr(address, n)
  PROVE  /\ DOMAIN buffer' = 0 .. CHUNK_SIZE - 1
         /\ \A i \in 0 .. CHUNK_SIZE - 1 :
              /\ i \in address .. address + n - 1 => buffer'[i] = mem'[i - address]
              /\ i \notin address .. address + n - 1
                   /\ i \notin address .. address + BLOCK_SIZE - 1 => buffer'[i] = buffer[i]
BY DEF InOrder, CopyMemToAddr

-----------------------------------------------------------------------------
(* Without auto-init, action by action. *)

LEMMA SingleRead ==
  ASSUME InOrder, Single, ReadChunk
  PROVE  InOrder' /\ Single'
<1>1. /\ sound_pc = "read" /\ Fread(CHUNK_SIZE)
      /\ UNCHANGED <<file_len, auto_init, prompt, cur_block, card, line, irr, heard>>
  BY DEF ReadChunk, choice
<1>2. CHUNK_SIZE \in 1 .. CHUNK_SIZE /\ CHUNK_SIZE \in Nat
  BY SoundAssumption DEF CHUNK_SIZE
<1>3. PICK got \in 0 .. CHUNK_SIZE :
        /\ len' = got /\ fpos' = fpos + got /\ fpos + got <= file_len
        /\ got < CHUNK_SIZE => fpos + got = file_len
        /\ DOMAIN mem' = 0 .. CHUNK_SIZE - 1
        /\ \A i \in 0 .. got - 1 : mem'[i] = fpos + i + 1
  BY <1>1, <1>2, FreadBrings
<1>4. Played /\ ~line /\ ~irr
  BY <1>1 DEF Single
<1>5. fpos \in Nat /\ file_len \in Nat /\ fpos + got \in 0 .. file_len
  BY <1>3 DEF InOrder
<1>6. CASE got = 0
  <2>1. sound_pc' = "stop" /\ UNCHANGED <<buffer, irq_fired>>
    BY <1>3, <1>6 DEF ReadChunk
  <2>2. InOrder'
    BY <1>1, <1>3, <1>5, <2>1 DEF InOrder
  <2>3. Played' /\ fpos' = file_len'
    BY <1>1, <1>2, <1>3, <1>4, <1>5, <1>6 DEF Played
  <2>4. QED
    BY <2>1, <2>2, <2>3 DEF Single
<1>7. CASE got # 0
  <2>1. sound_pc' = "start" /\ irq_fired' = FALSE /\ CopyMemToAddr(0, got)
    BY <1>3, <1>7 DEF ReadChunk
  <2>2. got \in Nat /\ got > 0
    BY <1>3, <1>7
  <2>3. /\ DOMAIN buffer' = 0 .. CHUNK_SIZE - 1
        /\ \A i \in 0 .. CHUNK_SIZE - 1 :
             i \in 0 .. 0 + got - 1 => buffer'[i] = mem'[i - 0]
    BY <2>1, <2>2, CopyPuts
  <2>4. InOrder'
    BY <1>1, <1>3, <1>5, <2>1, <2>3 DEF InOrder
  <2>5. ASSUME NEW i \in 0 .. got - 1 PROVE buffer'[i] = fpos + i + 1
    <3>1. i \in Nat /\ i - 0 = i
      BY <2>2
    <3>2. i \in 0 .. CHUNK_SIZE - 1 /\ i \in 0 .. 0 + got - 1
      BY <1>2, <1>3, <2>2
    <3>3. buffer'[i] = mem'[i]
      BY <2>3, <3>1, <3>2
    <3>4. QED
      BY <1>3, <3>3
  <2>6. fpos' - len' = fpos
    BY <1>3, <1>5
  <2>7. Loaded'
    BY <1>3, <2>2, <2>5, <2>6 DEF Loaded
  <2>8. heard'.count = fpos' - len' /\ card'.mode = "off"
    BY <1>1, <1>4, <2>6 DEF Played
  <2>9. LastRead' /\ Quiet' /\ ~line'
    BY <1>1, <1>3, <1>4, <2>1 DEF LastRead, Quiet
  <2>10. QED
    BY <2>1, <2>4, <2>7, <2>8, <2>9 DEF Single
<1>8. QED
  BY <1>6, <1>7

LEMMA SingleTransfer ==
  ASSUME InOrder, Single, ~auto_init, DspTransfer
  PROVE  InOrder' /\ Single'
<1>1. /\ sound_pc = "start" /\ sound_pc' = "wait" /\ cur_block' = 0
      /\ card' = [mode |-> "single", pos |-> 0, size |-> len, left |-> len]
      /\ UNCHANGED <<file_len, auto_init, prompt, fpos, len, mem, buffer, irq_fired, line, irr,
                     heard>>
  BY DEF DspTransfer, choice
<1>2. Quiet /\ ~line /\ Loaded /\ LastRead /\ heard.count = fpos - len
  BY <1>1 DEF Single
<1>3. len \in Nat /\ len > 0 /\ fpos \in Nat
  BY <1>2 DEF InOrder, Loaded
<1>4. InOrder'
  <2>1. card' \in [mode : {"off", "single", "auto", "exiting"},
                   pos : Nat, size : Nat \ {0}, left : Nat]
    BY <1>1, <1>3
  <2>2. QED
    BY <1>1, <2>1 DEF InOrder
<1>5. Chunk'
  <2>1. Loaded' /\ Quiet' /\ ~line'
    BY <1>1, <1>2 DEF Loaded, Quiet
  <2>2. QED
    BY <1>1, <1>2, <1>3, <2>1 DEF Chunk
<1>6. LastRead'
  BY <1>1, <1>2 DEF LastRead
<1>7. QED
  BY <1>1, <1>4, <1>5, <1>6 DEF Single

LEMMA SingleProgram ==
  ASSUME InOrder, Single, ~auto_init,
         SeeInterrupt \/ Acknowledge \/ Refill \/ ExitCommand \/ LastWait \/ Stop
  PROVE  InOrder' /\ Single'
<1>1. CASE SeeInterrupt
  <2>1. /\ sound_pc = "wait" /\ irq_fired /\ sound_pc' = "acknowledge" /\ irq_fired' = irq_fired
        /\ UNCHANGED <<file_len, auto_init, prompt, fpos, len, mem, cur_block, buffer, card, line,
                       irr, heard>>
    BY <1>1 DEF SeeInterrupt, choice, local
  <2>2. LastRead /\ Played /\ ~irr
    BY <2>1 DEF Single, Chunk, Quiet, Asked
  <2>3. QED
    BY <2>1, <2>2 DEF Single, InOrder, LastRead, Played
<1>2. CASE Acknowledge
  <2>1. /\ sound_pc = "acknowledge" /\ line' = FALSE
        /\ sound_pc' = IF len = CHUNK_SIZE THEN "read" ELSE "stop"
        /\ UNCHANGED <<file_len, auto_init, prompt, fpos, len, mem, cur_block, buffer, irq_fired,
                       card, irr, heard>>
    BY <1>2 DEF Acknowledge, choice, local
  <2>2. LastRead /\ Played /\ ~irr
    BY <2>1 DEF Single
  <2>3. len # CHUNK_SIZE => fpos = file_len
    BY <2>2, SoundAssumption DEF LastRead, InOrder, CHUNK_SIZE
  <2>4. InOrder' /\ Played' /\ ~line' /\ ~irr' /\ (len # CHUNK_SIZE => fpos' = file_len')
    BY <2>1, <2>2, <2>3 DEF InOrder, Played
  <2>5. QED
    BY <2>1, <2>4 DEF Single
<1>3. CASE Stop
  <2>1. /\ sound_pc = "stop" /\ sound_pc' = "done" /\ card' = [card EXCEPT !.mode = "off"]
        /\ line' = FALSE /\ irr' = FALSE
        /\ UNCHANGED <<file_len, auto_init, prompt, fpos, len, mem, cur_block, buffer, irq_fired,
                       heard>>
    BY <1>3 DEF Stop, choice, local
  <2>2. Played /\ fpos = file_len
    BY <2>1 DEF Single
  <2>3. InOrder'
    BY <2>1 DEF InOrder
  <2>4. Played' /\ fpos' = file_len'
    BY <2>1, <2>2 DEF Played, InOrder
  <2>5. QED
    BY <2>1, <2>3, <2>4 DEF Single
<1>4. CASE Refill \/ ExitCommand \/ LastWait
  BY <1>4 DEF Refill, ExitCommand, LastWait, Single
<1>5. QED
  BY <1>1, <1>2, <1>3, <1>4

LEMMA SinglePlays ==
  ASSUME InOrder, Single, PlayUnit
  PROVE  InOrder' /\ Single'
<1> DEFINE unit == buffer[card.pos]
           end  == card.left = 1
<1>1. /\ card.mode # "off"
      /\ heard' = IF unit = heard.count + 1
                  THEN [heard EXCEPT !.count = @ + 1] ELSE [heard EXCEPT !.clean = FALSE]
      /\ card' = [card EXCEPT
                    !.pos  = (@ + 1) % card.size,
                    !.left = IF end THEN BLOCK_SIZE ELSE @ - 1,
                    !.mode = IF end /\ @ # "auto" THEN "off" ELSE @]
      /\ line' = (line \/ end) /\ irr' = (irr \/ (end /\ ~line))
      /\ UNCHANGED <<file_len, auto_init, prompt, sound_pc, fpos, len, mem, cur_block, buffer,
                     irq_fired>>
  BY DEF PlayUnit, choice, local
<1>2. sound_pc = "wait" /\ LastRead /\ Chunk
  BY <1>1 DEF Single, Played
<1>3. /\ card.pos \in Nat /\ card.left \in Nat /\ len \in Nat /\ fpos \in Nat
      /\ len > 0 /\ BLOCK_SIZE \in Nat /\ card.size = len
      /\ card.pos \in 0 .. len - 1 /\ card.left = len - card.pos
      /\ heard.count = fpos - len + card.pos /\ heard.count \in Nat
  BY <1>2, SoundAssumption DEF InOrder, Chunk, Loaded
<1>4. unit = heard.count + 1
  <2>1. unit = fpos - len + card.pos + 1
    BY <1>2, <1>3 DEF Chunk, Loaded
  <2>2. QED
    BY <1>3, <2>1
<1> HIDE DEF unit
<1>5. heard' = [heard EXCEPT !.count = @ + 1]
  BY <1>1, <1>4
<1>6. /\ heard'.count = heard.count + 1 /\ heard'.clean = heard.clean
      /\ heard' \in [count : Nat, clean : BOOLEAN]
  <2>1. heard \in [count : Nat, clean : BOOLEAN]
    BY DEF InOrder
  <2>2. QED
    BY <1>5, <2>1
<1>7. (card.pos + 1) % card.size = IF card.pos + 1 = len THEN 0 ELSE card.pos + 1
  BY <1>3, Step
<1>8. /\ card'.pos = IF end THEN 0 ELSE card.pos + 1
      /\ card'.left = IF end THEN BLOCK_SIZE ELSE card.left - 1
      /\ card'.size = len /\ card'.mode = IF end THEN "off" ELSE "single"
      /\ card' \in [mode : {"off", "single", "auto", "exiting"},
                    pos : Nat, size : Nat \ {0}, left : Nat]
  <2>1. card \in [mode : {"off", "single", "auto", "exiting"},
                  pos : Nat, size : Nat \ {0}, left : Nat]
    BY DEF InOrder
  <2>2. (card.pos + 1) % card.size = IF end THEN 0 ELSE card.pos + 1
    BY <1>3, <1>7
  <2>3. card.mode = "single"
    BY <1>2 DEF Chunk
  <2>4. card' = [card EXCEPT !.pos  = IF end THEN 0 ELSE card.pos + 1,
                             !.left = IF end THEN BLOCK_SIZE ELSE card.left - 1,
                             !.mode = IF end THEN "off" ELSE "single"]
    BY <1>1, <2>2, <2>3
  <2>5. card.pos + 1 \in Nat /\ card.left - 1 \in Nat
    BY <1>3
  <2>6. CASE end
    BY <1>3, <2>1, <2>4, <2>6
  <2>7. CASE ~end
    BY <1>3, <2>1, <2>4, <2>5, <2>7
  <2>8. QED
    BY <2>6, <2>7
<1>9. line' \in BOOLEAN /\ irr' \in BOOLEAN
  BY <1>1 DEF InOrder
<1>10. InOrder'
  BY <1>1, <1>6, <1>8, <1>9 DEF InOrder
<1>11. LastRead'
  BY <1>1, <1>2 DEF LastRead
<1>12. CASE end
  <2>1. Played'
    BY <1>1, <1>3, <1>6, <1>8, <1>12 DEF Played
  <2>2. ~irq_fired /\ ~line
    BY <1>2 DEF Chunk, Quiet
  <2>3. Asked'
    BY <1>1, <1>12, <2>2 DEF Asked
  <2>4. QED
    BY <1>1, <1>2, <1>10, <1>11, <2>1, <2>3 DEF Single
<1>13. CASE ~end
  <2>1. Quiet' /\ ~line'
    BY <1>1, <1>2, <1>13 DEF Chunk, Quiet
  <2>2. Loaded'
    BY <1>1, <1>2 DEF Chunk, Loaded
  <2>3. /\ card'.mode = "single" /\ card'.size = len' /\ card'.pos \in 0 .. len' - 1
        /\ card'.left = len' - card'.pos /\ heard'.count = fpos' - len' + card'.pos
    BY <1>1, <1>3, <1>6, <1>8, <1>13
  <2>4. Chunk'
    BY <2>1, <2>2, <2>3 DEF Chunk
  <2>5. QED
    BY <1>1, <1>2, <1>10, <1>11, <2>4 DEF Single
<1>14. QED
  BY <1>12, <1>13

LEMMA SingleHandler ==
  ASSUME InOrder, Single, IrqHandler
  PROVE  InOrder' /\ Single'
<1>1. /\ irr /\ irr' = FALSE /\ irq_fired' = TRUE
      /\ UNCHANGED <<file_len, auto_init, prompt, sound_pc, fpos, len, mem, cur_block, buffer,
                     card, line, heard>>
  BY DEF IrqHandler, choice, local
<1>2. InOrder'
  BY <1>1 DEF InOrder
<1>3. CASE sound_pc = "wait"
  <2>1. LastRead /\ Played
    BY <1>1, <1>3 DEF Single, Chunk, Quiet
  <2>2. LastRead' /\ Played' /\ Asked'
    BY <1>1, <2>1 DEF LastRead, Played, Asked
  <2>3. QED
    BY <1>1, <1>2, <1>3, <2>2 DEF Single
<1>4. CASE sound_pc \in {"stop", "done"}
  BY <1>1, <1>2, <1>4 DEF Single, Played
<1>5. QED
  BY <1>1, <1>3, <1>4 DEF Single, Quiet

-----------------------------------------------------------------------------
(* With auto-init.  The card plays the unit that is due, and goes on. *)

LEMMA UnitPlayed ==
  ASSUME InOrder, NEW e \in {BLOCK_SIZE, CHUNK_SIZE}, InBlock(e),
         NEW unit \in Nat, Filled(unit), BlockEnd <= unit, unit <= BlockEnd + BLOCK_SIZE,
         PlayUnit
  PROVE  /\ Filled(unit)'
         /\ heard' \in [count : Nat, clean : BOOLEAN] /\ heard'.clean
         /\ heard'.count = heard.count + 1
         /\ card' \in [mode : {"off", "single", "auto", "exiting"},
                       pos : Nat, size : Nat \ {0}, left : Nat]
         /\ card.left # 1 =>
              /\ InBlock(e)' /\ BlockEnd' = BlockEnd
              /\ card'.mode = card.mode /\ line' = line /\ irr' = irr
         /\ card.left = 1 =>
              /\ InBlock(IF e = BLOCK_SIZE THEN CHUNK_SIZE ELSE BLOCK_SIZE)'
              /\ heard'.count = BlockEnd /\ BlockEnd' = BlockEnd + BLOCK_SIZE
              /\ card'.mode = IF card.mode = "auto" THEN "auto" ELSE "off"
              /\ ~line => irr'
<1> DEFINE pos  == card.pos
           left == card.left
           n    == heard.count
           end  == left = 1
           next == IF pos + 1 = CHUNK_SIZE THEN 0 ELSE pos + 1
<1>1. /\ BLOCK_SIZE \in Nat /\ BLOCK_SIZE > 0
      /\ CHUNK_SIZE \in Nat /\ CHUNK_SIZE = 2 * BLOCK_SIZE
  BY SoundAssumption DEF CHUNK_SIZE
<1>2. /\ card.size = CHUNK_SIZE /\ left \in 1 .. BLOCK_SIZE /\ pos + left = e
      /\ pos \in Nat /\ n \in Nat /\ heard.clean
      /\ card \in [mode : {"off", "single", "auto", "exiting"},
                   pos : Nat, size : Nat \ {0}, left : Nat]
      /\ heard \in [count : Nat, clean : BOOLEAN]
  BY DEF InBlock, InOrder
<1>3. PICK k \in Nat : n + left = k * BLOCK_SIZE
  BY DEF InBlock
<1>4. pos \in 0 .. CHUNK_SIZE - 1
  BY <1>1, <1>2
<1>5. buffer[pos] = n + 1
  <2>1. Due(pos) = n + 1
    BY <1>2 DEF Due
  <2>2. Due(pos) <= unit
    <3>1. n + left <= unit
      BY DEF BlockEnd
    <3>2. QED
      BY <1>1, <1>2, <2>1, <3>1
  <2>3. QED
    BY <1>4, <2>1, <2>2 DEF Filled
<1>6. heard' = [heard EXCEPT !.count = @ + 1]
  BY <1>5 DEF PlayUnit
<1>7. /\ heard' \in [count : Nat, clean : BOOLEAN] /\ heard'.clean
      /\ heard'.count = n + 1
  BY <1>2, <1>6
<1>8. (pos + 1) % card.size = next
  BY <1>1, <1>2, <1>4, Step
<1> HIDE DEF next
<1>9. /\ card' = [card EXCEPT !.pos  = next,
                              !.left = IF end THEN BLOCK_SIZE ELSE left - 1,
                              !.mode = IF end /\ card.mode # "auto" THEN "off" ELSE card.mode]
      /\ line' = (line \/ end) /\ irr' = (irr \/ (end /\ ~line))
      /\ UNCHANGED buffer
  BY <1>8 DEF PlayUnit
<1>10. next \in Nat /\ left - 1 \in Nat
  BY <1>1, <1>2, <1>4 DEF next
<1>11. /\ card'.pos = next /\ card'.size = card.size
       /\ card'.left = IF end THEN BLOCK_SIZE ELSE left - 1
       /\ card'.mode = IF end /\ card.mode # "auto" THEN "off" ELSE card.mode
  BY <1>2, <1>9
<1>12. card' \in [mode : {"off", "single", "auto", "exiting"},
                  pos : Nat, size : Nat \ {0}, left : Nat]
  <2>1. CASE end
    BY <1>1, <1>2, <1>9, <1>10, <2>1
  <2>2. CASE ~end
    BY <1>1, <1>2, <1>9, <1>10, <2>2
  <2>3. QED
    BY <2>1, <2>2
<1>13. ASSUME NEW i \in 0 .. CHUNK_SIZE - 1
       PROVE  Due(i)' = IF i = pos THEN Due(i) + CHUNK_SIZE ELSE Due(i)
  <2>1. i \in Int
    BY <1>1
  <2>2. Due(i)' = IF i >= next THEN n + 1 + 1 + (i - next)
                  ELSE n + 1 + 1 + (i - next) + CHUNK_SIZE
    BY <1>7, <1>11 DEF Due
  <2>3. Due(i) = IF i >= pos THEN n + 1 + (i - pos) ELSE n + 1 + (i - pos) + CHUNK_SIZE
    BY DEF Due
  <2>4. CASE pos + 1 = CHUNK_SIZE
    BY <1>1, <1>2, <1>4, <2>1, <2>2, <2>3, <2>4 DEF next
  <2>5. CASE pos + 1 # CHUNK_SIZE
    BY <1>1, <1>2, <1>4, <2>1, <2>2, <2>3, <2>5 DEF next
  <2>6. QED
    BY <2>4, <2>5
<1>14. Filled(unit)'
  <2> SUFFICES ASSUME NEW i \in 0 .. CHUNK_SIZE - 1, Due(i)' <= unit
               PROVE  buffer'[i] = Due(i)'
    BY DEF Filled
  <2>1. i # pos
    <3> SUFFICES ASSUME i = pos PROVE FALSE
      OBVIOUS
    <3>1. Due(i)' = n + 1 + CHUNK_SIZE
      BY <1>2, <1>13 DEF Due
    <3>2. unit <= n + left + BLOCK_SIZE
      BY DEF BlockEnd
    <3>3. QED
      BY <1>1, <1>2, <3>1, <3>2
  <2>2. Due(i)' = Due(i)
    BY <1>13, <2>1
  <2>3. QED
    BY <1>9, <2>2 DEF Filled
<1>15. CASE end
  <2>1. ~line => irr'
    BY <1>9, <1>15
  <2>2. heard'.count = BlockEnd /\ BlockEnd' = BlockEnd + BLOCK_SIZE
    BY <1>2, <1>7, <1>11, <1>15 DEF BlockEnd
  <2>3. heard'.count + card'.left = (k + 1) * BLOCK_SIZE
    BY <1>1, <1>2, <1>3, <1>7, <1>11, <1>15
  <2>4. \E j \in Nat : heard'.count + card'.left = j * BLOCK_SIZE
    BY <2>3
  <2>5. /\ card'.left \in 1 .. BLOCK_SIZE
        /\ card'.pos + card'.left = IF e = BLOCK_SIZE THEN CHUNK_SIZE ELSE BLOCK_SIZE
    BY <1>1, <1>2, <1>4, <1>11, <1>15 DEF next
  <2>6. InBlock(IF e = BLOCK_SIZE THEN CHUNK_SIZE ELSE BLOCK_SIZE)'
    BY <1>2, <1>11, <2>4, <2>5 DEF InBlock
  <2>7. QED
    BY <1>7, <1>11, <1>12, <1>14, <1>15, <2>1, <2>2, <2>6
<1>16. CASE ~end
  <2>1. BlockEnd' = BlockEnd
    BY <1>2, <1>7, <1>11, <1>16 DEF BlockEnd
  <2>2. \E j \in Nat : heard'.count + card'.left = j * BLOCK_SIZE
    BY <1>3, <2>1 DEF BlockEnd
  <2>3. card'.left \in 1 .. BLOCK_SIZE /\ card'.pos + card'.left = e
    BY <1>1, <1>2, <1>4, <1>11, <1>16 DEF next
  <2>4. InBlock(e)'
    BY <1>2, <1>11, <2>2, <2>3 DEF InBlock
  <2>5. line' = line /\ irr' = irr
    BY <1>9, <1>16 DEF InOrder
  <2>6. QED
    BY <1>7, <1>11, <1>12, <1>14, <1>16, <2>1, <2>4, <2>5
<1>17. QED
  BY <1>15, <1>16

(* A prompt program: a block ends only in its waits. *)
LEMMA AutoPlays ==
  ASSUME InOrder, AutoInit, prompt, PlayUnit
  PROVE  InOrder' /\ AutoInit'
<1> DEFINE own   == IF cur_block = 0 THEN BLOCK_SIZE ELSE CHUNK_SIZE
           other == IF cur_block = 0 THEN CHUNK_SIZE ELSE BLOCK_SIZE
           end   == card.left = 1
           Typed == /\ heard' \in [count : Nat, clean : BOOLEAN] /\ heard'.clean
                    /\ card' \in [mode : {"off", "single", "auto", "exiting"},
                                  pos : Nat, size : Nat \ {0}, left : Nat]
<1>1. /\ card.mode # "off"
      /\ end => sound_pc \in {"wait", "last"} /\ ~irq_fired /\ ~irr
      /\ UNCHANGED <<file_len, auto_init, prompt, sound_pc, fpos, len, mem, cur_block, buffer,
                     irq_fired>>
      /\ line' \in BOOLEAN /\ irr' \in BOOLEAN
  BY DEF PlayUnit, InTime, choice, local, InOrder
<1>2. /\ BLOCK_SIZE \in Nat /\ BLOCK_SIZE > 0 /\ BLOCK_SIZE # CHUNK_SIZE
      /\ own \in {BLOCK_SIZE, CHUNK_SIZE} /\ other \in {BLOCK_SIZE, CHUNK_SIZE}
      /\ (IF own = BLOCK_SIZE THEN CHUNK_SIZE ELSE BLOCK_SIZE) = other
      /\ own' = own /\ other' = other
  BY <1>1, SoundAssumption DEF CHUNK_SIZE
<1>3. heard.count \in Nat /\ card.left \in Nat /\ BlockEnd \in Nat /\ fpos \in Nat
  BY DEF InOrder, BlockEnd
<1>4. Typed => InOrder'
  BY <1>1 DEF InOrder
<1> HIDE DEF Typed
<1>5. CASE sound_pc = "wait" /\ Quiet /\ ~line /\ Ahead
  <2>1. card.mode = "auto" /\ Filled(fpos) /\ InBlock(own) /\ fpos = BlockEnd + BLOCK_SIZE
    BY <1>5 DEF AutoInit, Ahead
  <2>2. BlockEnd <= fpos /\ fpos <= BlockEnd + BLOCK_SIZE
    BY <1>2, <1>3, <2>1
  <2>3. Filled(fpos)' /\ Typed /\ card'.mode = "auto"
    <3>1. Filled(fpos)'
      BY <1>1, <1>2, <1>3, <2>1, <2>2, UnitPlayed DEF Filled
    <3>2. QED
      BY <1>2, <1>3, <2>1, <2>2, <3>1, UnitPlayed DEF Typed
  <2>4. CASE end
    <3>1. InBlock(other)' /\ BlockEnd' = BlockEnd + BLOCK_SIZE /\ irr'
      BY <1>2, <1>3, <1>5, <2>1, <2>2, <2>4, UnitPlayed
    <3>2. Behind'
      BY <1>1, <1>2, <2>1, <3>1 DEF Behind
    <3>3. Asked'
      BY <1>1, <1>5, <3>1 DEF Asked, Quiet
    <3>4. QED
      BY <1>1, <1>4, <1>5, <2>3, <3>2, <3>3 DEF AutoInit
  <2>5. CASE ~end
    <3>1. InBlock(own)' /\ BlockEnd' = BlockEnd /\ line' = line /\ irr' = irr
      BY <1>2, <1>3, <1>5, <2>1, <2>2, <2>5, UnitPlayed
    <3>2. Ahead' /\ Quiet' /\ ~line'
      BY <1>1, <1>2, <1>5, <2>1, <3>1 DEF Ahead, Quiet
    <3>3. QED
      BY <1>1, <1>4, <1>5, <2>3, <3>2 DEF AutoInit
  <2>6. QED
    BY <2>4, <2>5
<1>6. CASE /\ \/ sound_pc = "wait" /\ Asked
              \/ sound_pc = "acknowledge"
              \/ sound_pc = "refill"
           /\ Behind
  <2>1. card.mode = "auto" /\ Filled(fpos) /\ InBlock(other) /\ fpos = BlockEnd
    BY <1>6 DEF AutoInit, Behind
  <2>2. BlockEnd <= fpos /\ fpos <= BlockEnd + BLOCK_SIZE
    BY <1>2, <1>3, <2>1
  <2>3. ~end
    BY <1>1, <1>6 DEF Asked
  <2>4. Filled(fpos)' /\ Typed /\ card'.mode = "auto"
    <3>1. Filled(fpos)'
      BY <1>1, <1>2, <1>3, <2>1, <2>2, UnitPlayed DEF Filled
    <3>2. QED
      BY <1>2, <1>3, <2>1, <2>2, <2>3, <3>1, UnitPlayed DEF Typed
  <2>5. InBlock(other)' /\ BlockEnd' = BlockEnd /\ line' = line /\ irr' = irr
    BY <1>2, <1>3, <2>1, <2>2, <2>3, UnitPlayed
  <2>6. Behind'
    BY <1>1, <1>2, <2>1, <2>5 DEF Behind
  <2>7. (Quiet => Quiet') /\ (Asked => Asked') /\ (~line => ~line')
    BY <1>1, <2>5 DEF Quiet, Asked
  <2>8. QED
    BY <1>1, <1>4, <1>6, <2>4, <2>6, <2>7 DEF AutoInit
<1>7. CASE sound_pc \in {"exit", "last"} /\ Ending
  <2>1. PICK e \in {BLOCK_SIZE, CHUNK_SIZE} : InBlock(e)
    BY <1>7 DEF Ending
  <2>2. /\ LastBlock(BlockEnd) /\ Filled(BlockEnd) /\ Quiet /\ ~line
        /\ BlockEnd <= BlockEnd + BLOCK_SIZE
    BY <1>2, <1>3, <1>7 DEF Ending
  <2> PICK unit \in Nat : unit = BlockEnd
    BY <1>3
  <2>3. Filled(unit)' /\ Typed
    <3>1. Filled(unit) /\ unit <= BlockEnd + BLOCK_SIZE
      BY <1>2, <2>2
    <3>2. QED
      BY <1>2, <1>3, <2>1, <3>1, UnitPlayed DEF Typed
  <2>4. CASE end
    <3>1. sound_pc = "last" /\ card.mode = "exiting"
      BY <1>1, <1>7, <2>4 DEF AutoInit, AllHeard
    <3>2. heard'.count = BlockEnd /\ card'.mode = "off" /\ irr'
      BY <1>2, <1>3, <2>1, <2>2, <2>4, <3>1, UnitPlayed
    <3>3. \E k \in Nat : heard'.count = k * BLOCK_SIZE
      BY <2>1, <3>2 DEF InBlock, BlockEnd
    <3>4. AllHeard'
      BY <1>1, <2>2, <3>2, <3>3 DEF AllHeard, LastBlock
    <3>5. Asked'
      BY <1>1, <2>2, <3>2 DEF Asked, Quiet
    <3>6. QED
      BY <1>1, <1>4, <2>3, <3>1, <3>4, <3>5 DEF AutoInit
  <2>5. CASE ~end
    <3>1. InBlock(e)' /\ BlockEnd' = BlockEnd /\ card'.mode = card.mode
          /\ line' = line /\ irr' = irr
      BY <1>2, <1>3, <2>1, <2>2, <2>5, UnitPlayed
    <3>2. LastBlock(BlockEnd)' /\ Quiet' /\ ~line'
      BY <1>1, <2>2, <3>1 DEF LastBlock, Quiet
    <3>3. Filled(BlockEnd)'
      BY <2>3, <3>1 DEF Filled
    <3>4. Ending'
      BY <2>1, <3>1, <3>2, <3>3 DEF Ending
    <3>5. QED
      BY <1>1, <1>4, <1>7, <2>3, <3>1, <3>4 DEF AutoInit, AllHeard
  <2>6. QED
    BY <2>4, <2>5
<1>8. QED
  BY <1>1, <1>5, <1>6, <1>7 DEF AutoInit, AllHeard

LEMMA AutoRead ==
  ASSUME InOrder, AutoInit, file_len >= CHUNK_SIZE, ReadChunk
  PROVE  InOrder' /\ AutoInit'
<1>1. /\ sound_pc = "read" /\ Fread(CHUNK_SIZE)
      /\ UNCHANGED <<file_len, auto_init, prompt, cur_block, card, line, irr, heard>>
  BY DEF ReadChunk, choice
<1>2. CHUNK_SIZE \in 1 .. CHUNK_SIZE /\ CHUNK_SIZE \in Nat
  BY SoundAssumption DEF CHUNK_SIZE
<1>3. card.mode = "off" /\ ~line /\ ~irr /\ fpos = 0 /\ heard.count = 0 /\ file_len \in Nat
  BY <1>1 DEF AutoInit, InOrder
<1>4. PICK got \in 0 .. CHUNK_SIZE :
        /\ len' = got /\ fpos' = fpos + got /\ fpos + got <= file_len
        /\ got < CHUNK_SIZE => fpos + got = file_len
        /\ DOMAIN mem' = 0 .. CHUNK_SIZE - 1
        /\ \A i \in 0 .. got - 1 : mem'[i] = fpos + i + 1
  BY <1>1, <1>2, FreadBrings
<1>5. got = CHUNK_SIZE
  BY <1>2, <1>3, <1>4
<1>6. sound_pc' = "start" /\ irq_fired' = FALSE /\ CopyMemToAddr(0, CHUNK_SIZE)
  BY <1>2, <1>4, <1>5 DEF ReadChunk
<1>7. /\ DOMAIN buffer' = 0 .. CHUNK_SIZE - 1
      /\ \A i \in 0 .. CHUNK_SIZE - 1 :
           i \in 0 .. 0 + CHUNK_SIZE - 1 => buffer'[i] = mem'[i - 0]
  BY <1>2, <1>6, CopyPuts
<1>8. ASSUME NEW i \in 0 .. CHUNK_SIZE - 1 PROVE buffer'[i] = i + 1
  <2>1. i \in Nat /\ i - 0 = i /\ i \in 0 .. 0 + CHUNK_SIZE - 1
    BY <1>2
  <2>2. buffer'[i] = mem'[i]
    BY <1>7, <2>1
  <2>3. QED
    BY <1>3, <1>4, <1>5, <2>1, <2>2
<1>9. /\ fpos' = CHUNK_SIZE /\ len' = CHUNK_SIZE
      /\ CHUNK_SIZE \in 0 .. file_len /\ CHUNK_SIZE \in 0 .. CHUNK_SIZE
  BY <1>2, <1>3, <1>4, <1>5
<1>10. Loaded'
  <2>1. ASSUME NEW i \in 0 .. CHUNK_SIZE - 1
        PROVE  buffer'[i] = CHUNK_SIZE - CHUNK_SIZE + i + 1
    BY <1>2, <1>8
  <2>2. QED
    BY <1>2, <1>9, <2>1 DEF Loaded
<1>11. InOrder'
  BY <1>1, <1>4, <1>6, <1>7, <1>9 DEF InOrder
<1>12. QED
  BY <1>1, <1>3, <1>6, <1>9, <1>10, <1>11 DEF AutoInit, Quiet

LEMMA AutoTransfer ==
  ASSUME InOrder, AutoInit, auto_init, DspTransfer
  PROVE  InOrder' /\ AutoInit'
<1>1. /\ sound_pc = "start" /\ sound_pc' = "wait" /\ cur_block' = 0
      /\ card' = [mode |-> "auto", pos |-> 0, size |-> len, left |-> BLOCK_SIZE]
      /\ UNCHANGED <<file_len, auto_init, prompt, fpos, len, mem, buffer, irq_fired, line, irr,
                     heard>>
  BY DEF DspTransfer, choice
<1>2. /\ Quiet /\ ~line /\ heard.count = 0
      /\ len = CHUNK_SIZE /\ fpos = CHUNK_SIZE /\ Loaded
  BY <1>1 DEF AutoInit
<1>3. /\ BLOCK_SIZE \in Nat /\ BLOCK_SIZE > 0
      /\ CHUNK_SIZE \in Nat \ {0} /\ CHUNK_SIZE = 2 * BLOCK_SIZE
  BY SoundAssumption DEF CHUNK_SIZE
<1>4. InOrder'
  <2>1. card' \in [mode : {"off", "single", "auto", "exiting"},
                   pos : Nat, size : Nat \ {0}, left : Nat]
    BY <1>1, <1>2, <1>3
  <2>2. QED
    BY <1>1, <2>1 DEF InOrder
<1>5. /\ card'.pos = 0 /\ card'.size = CHUNK_SIZE /\ card'.left = BLOCK_SIZE
      /\ card'.mode = "auto" /\ heard'.count = 0
  BY <1>1, <1>2
<1>6. Filled(fpos)'
  <2> SUFFICES ASSUME NEW i \in 0 .. CHUNK_SIZE - 1 PROVE buffer'[i] = Due(i)'
    BY DEF Filled
  <2>1. i \in Nat
    BY <1>3
  <2>2. buffer[i] = CHUNK_SIZE - CHUNK_SIZE + i + 1
    BY <1>2 DEF Loaded
  <2>3. Due(i)' = 0 + 1 + (i - 0)
    BY <1>5, <2>1 DEF Due
  <2>4. QED
    BY <1>1, <1>3, <2>1, <2>2, <2>3
<1>7. InBlock(BLOCK_SIZE)' /\ BlockEnd' = BLOCK_SIZE
  <2>1. heard'.count + card'.left = 1 * BLOCK_SIZE
    BY <1>3, <1>5
  <2>2. \E k \in Nat : heard'.count + card'.left = k * BLOCK_SIZE
    BY <2>1
  <2>3. QED
    BY <1>3, <1>5, <2>2 DEF InBlock, BlockEnd
<1>8. Ahead'
  <2>1. fpos' = BLOCK_SIZE + BLOCK_SIZE
    BY <1>1, <1>2, <1>3
  <2>2. QED
    BY <1>1, <1>7, <2>1 DEF Ahead
<1>9. Quiet' /\ ~line'
  BY <1>1, <1>2 DEF Quiet
<1>10. QED
  BY <1>1, <1>4, <1>5, <1>6, <1>8, <1>9 DEF AutoInit

(* The half that was played gets the next block, while the card is in the
   other one; and if the file has no whole block left, the block that plays is
   the last. *)
LEMMA AutoRefill ==
  ASSUME InOrder, AutoInit, Refill
  PROVE  InOrder' /\ AutoInit'
<1> DEFINE address == cur_block * BLOCK_SIZE
           own     == IF cur_block = 0 THEN BLOCK_SIZE ELSE CHUNK_SIZE
           other   == IF cur_block = 0 THEN CHUNK_SIZE ELSE BLOCK_SIZE
<1>1. /\ sound_pc = "refill" /\ Fread(BLOCK_SIZE)
      /\ cur_block' = 1 - cur_block
      /\ IF len' > 0 THEN CopyMemToAddr(address, BLOCK_SIZE) ELSE UNCHANGED buffer
      /\ sound_pc' = IF len' < BLOCK_SIZE THEN "exit" ELSE "wait"
      /\ UNCHANGED <<file_len, auto_init, prompt, irq_fired, card, line, irr, heard>>
  BY DEF Refill, choice
<1>2. /\ BLOCK_SIZE \in Nat /\ BLOCK_SIZE > 0 /\ BLOCK_SIZE \in 1 .. CHUNK_SIZE
      /\ CHUNK_SIZE \in Nat /\ CHUNK_SIZE = 2 * BLOCK_SIZE
  BY SoundAssumption DEF CHUNK_SIZE
<1>3. card.mode = "auto" /\ Filled(fpos) /\ Quiet /\ ~line /\ InBlock(other) /\ fpos = BlockEnd
  BY <1>1 DEF AutoInit, Behind
<1> PICK e \in {BLOCK_SIZE, CHUNK_SIZE} : e = other
  OBVIOUS
<1>4. PICK got \in 0 .. BLOCK_SIZE :
        /\ len' = got /\ fpos' = fpos + got /\ fpos + got <= file_len
        /\ got < BLOCK_SIZE => fpos + got = file_len
        /\ DOMAIN mem' = 0 .. CHUNK_SIZE - 1
        /\ \A i \in 0 .. got - 1 : mem'[i] = fpos + i + 1
  BY <1>1, <1>2, FreadBrings
<1>5. /\ fpos \in Nat /\ file_len \in Nat /\ cur_block \in {0, 1}
      /\ heard.count \in Nat /\ card.pos \in Nat /\ card.left \in 1 .. BLOCK_SIZE
      /\ card.pos + card.left = e /\ fpos = heard.count + card.left
  BY <1>3 DEF InOrder, InBlock, BlockEnd
<1>6. address = (IF cur_block = 0 THEN 0 ELSE BLOCK_SIZE) /\ address \in Nat
  BY <1>2, <1>5
<1> HIDE DEF address
<1>7. /\ DOMAIN buffer' = 0 .. CHUNK_SIZE - 1
      /\ \A i \in 0 .. CHUNK_SIZE - 1 :
           /\ got > 0 /\ i \in address .. address + BLOCK_SIZE - 1
                => buffer'[i] = mem'[i - address]
           /\ i \notin address .. address + BLOCK_SIZE - 1 => buffer'[i] = buffer[i]
  <2>1. CASE got > 0
    <3>1. CopyMemToAddr(address, BLOCK_SIZE)
      BY <1>1, <1>4, <2>1
    <3>2. QED
      BY <1>2, <1>6, <3>1, CopyPuts
  <2>2. CASE ~(got > 0)
    BY <1>1, <1>4, <2>2 DEF InOrder
  <2>3. QED
    BY <2>1, <2>2
<1>8. ASSUME NEW i \in 0 .. CHUNK_SIZE - 1, Due(i) <= fpos + got
      PROVE  buffer'[i] = Due(i)
  <2>1. i \in Nat /\ i < CHUNK_SIZE
    BY <1>2
  <2>2. Due(i) = IF i >= card.pos THEN heard.count + 1 + (i - card.pos)
                 ELSE heard.count + 1 + (i - card.pos) + CHUNK_SIZE
    BY DEF Due
  <2>3. CASE i \in address .. address + BLOCK_SIZE - 1
    <3>1. Due(i) = fpos + 1 + (i - address)
      <4>1. CASE cur_block = 0
        BY <1>2, <1>5, <1>6, <2>1, <2>2, <2>3, <4>1
      <4>2. CASE cur_block = 1
        BY <1>2, <1>5, <1>6, <2>1, <2>2, <2>3, <4>2
      <4>3. QED
        BY <1>5, <4>1, <4>2
    <3>2. i - address \in 0 .. got - 1 /\ got > 0
      BY <1>2, <1>5, <1>6, <1>8, <2>1, <2>3, <3>1
    <3>3. buffer'[i] = mem'[i - address]
      BY <1>7, <2>3, <3>2
    <3>4. mem'[i - address] = fpos + (i - address) + 1
      BY <1>4, <3>2
    <3>5. QED
      BY <1>5, <1>6, <2>1, <3>1, <3>3, <3>4
  <2>4. CASE i \notin address .. address + BLOCK_SIZE - 1
    <3>1. Due(i) <= fpos
      <4>1. CASE cur_block = 0
        BY <1>2, <1>5, <1>6, <1>8, <2>1, <2>2, <2>4, <4>1
      <4>2. CASE cur_block = 1
        BY <1>2, <1>5, <1>6, <1>8, <2>1, <2>2, <2>4, <4>2
      <4>3. QED
        BY <1>5, <4>1, <4>2
    <3>2. QED
      BY <1>3, <1>7, <2>4, <3>1 DEF Filled
  <2>5. QED
    BY <2>3, <2>4
<1>9. ASSUME NEW i \in 0 .. CHUNK_SIZE - 1 PROVE Due(i)' = Due(i)
  BY <1>1 DEF Due
<1>10. /\ cur_block' \in {0, 1} /\ BlockEnd' = BlockEnd /\ InBlock(e)'
       /\ Quiet' /\ ~line' /\ card'.mode = "auto"
  <2>1. cur_block' \in {0, 1}
    BY <1>1, <1>5
  <2>2. InBlock(e)'
    BY <1>1, <1>3 DEF InBlock
  <2>3. QED
    BY <1>1, <1>3, <2>1, <2>2 DEF BlockEnd, Quiet
<1>11. InOrder'
  <2>1. fpos + got \in 0 .. file_len /\ got \in 0 .. CHUNK_SIZE
    BY <1>2, <1>4, <1>5
  <2>2. QED
    BY <1>1, <1>4, <1>7, <1>10, <2>1 DEF InOrder
<1>12. CASE got = BLOCK_SIZE
  <2>1. sound_pc' = "wait" /\ fpos' = BlockEnd' + BLOCK_SIZE
    BY <1>1, <1>2, <1>3, <1>4, <1>10, <1>12
  <2>2. Filled(fpos)'
    BY <1>4, <1>8, <1>9 DEF Filled
  <2>3. e = IF cur_block' = 0 THEN BLOCK_SIZE ELSE CHUNK_SIZE
    BY <1>1, <1>5
  <2>4. Ahead'
    BY <1>10, <2>1, <2>3 DEF Ahead
  <2>5. QED
    BY <1>10, <1>11, <2>1, <2>2, <2>4 DEF AutoInit
<1>13. CASE got < BLOCK_SIZE
  <2>1. sound_pc' = "exit"
    BY <1>1, <1>4, <1>13
  <2>2. LastBlock(BlockEnd)'
    <3>1. fpos + got = file_len /\ BlockEnd <= file_len /\ file_len < BlockEnd + BLOCK_SIZE
      BY <1>2, <1>3, <1>4, <1>5, <1>13
    <3>2. QED
      BY <1>1, <1>4, <1>10, <3>1 DEF LastBlock
  <2>3. Filled(BlockEnd)'
    <3> SUFFICES ASSUME NEW i \in 0 .. CHUNK_SIZE - 1, Due(i)' <= BlockEnd'
                 PROVE  buffer'[i] = Due(i)'
      BY DEF Filled
    <3>1. Due(i) <= fpos
      BY <1>3, <1>9, <1>10
    <3>2. Due(i) \in Int
      BY <1>2, <1>5 DEF Due
    <3>3. Due(i) <= fpos + got
      BY <1>4, <1>5, <3>1, <3>2
    <3>4. QED
      BY <1>8, <1>9, <3>3
  <2>4. Ending'
    BY <1>10, <2>2, <2>3 DEF Ending
  <2>5. QED
    BY <1>10, <1>11, <2>1, <2>4 DEF AutoInit
<1>14. QED
  BY <1>2, <1>4, <1>12, <1>13

LEMMA AutoProgram ==
  ASSUME InOrder, AutoInit, auto_init,
         SeeInterrupt \/ Acknowledge \/ ExitCommand \/ LastWait \/ Stop
  PROVE  InOrder' /\ AutoInit'
<1> DEFINE Others == <<file_len, auto_init, prompt, fpos, len, mem, cur_block, buffer, heard>>
<1>1. CASE SeeInterrupt
  <2>1. /\ sound_pc = "wait" /\ irq_fired /\ sound_pc' = "acknowledge" /\ irq_fired' = FALSE
        /\ UNCHANGED <<Others, card, line, irr>>
    BY <1>1 DEF SeeInterrupt, choice, local
  <2>2. card.mode = "auto" /\ Filled(fpos) /\ Asked /\ Behind
    BY <2>1 DEF AutoInit, Quiet
  <2>3. Filled(fpos)' /\ Behind' /\ Quiet'
    BY <2>1, <2>2 DEF Filled, Due, Behind, InBlock, BlockEnd, Asked, Quiet
  <2>4. QED
    BY <2>1, <2>2, <2>3 DEF AutoInit, InOrder
<1>2. CASE Acknowledge
  <2>1. /\ sound_pc = "acknowledge" /\ line' = FALSE /\ sound_pc' = "refill"
        /\ UNCHANGED <<Others, card, irq_fired, irr>>
    BY <1>2 DEF Acknowledge, choice, local
  <2>2. card.mode = "auto" /\ Filled(fpos) /\ Quiet /\ Behind
    BY <2>1 DEF AutoInit
  <2>3. Filled(fpos)' /\ Behind' /\ Quiet'
    BY <2>1, <2>2 DEF Filled, Due, Behind, InBlock, BlockEnd, Quiet
  <2>4. QED
    BY <2>1, <2>2, <2>3 DEF AutoInit, InOrder
<1>3. CASE ExitCommand
  <2>1. /\ sound_pc = "exit" /\ sound_pc' = "last"
        /\ card' = [card EXCEPT !.mode = "exiting"]
        /\ UNCHANGED <<Others, irq_fired, line, irr>>
    BY <1>3 DEF ExitCommand, choice, local
  <2>2. /\ card \in [mode : {"off", "single", "auto", "exiting"},
                     pos : Nat, size : Nat \ {0}, left : Nat]
        /\ Ending
    BY <2>1 DEF AutoInit, InOrder
  <2>3. /\ card'.mode = "exiting" /\ card'.pos = card.pos /\ card'.size = card.size
        /\ card'.left = card.left
        /\ card' \in [mode : {"off", "single", "auto", "exiting"},
                      pos : Nat, size : Nat \ {0}, left : Nat]
    BY <2>1, <2>2
  <2>4. BlockEnd' = BlockEnd
    BY <2>1, <2>3 DEF BlockEnd
  <2>5. Filled(BlockEnd)'
    BY <2>1, <2>2, <2>3, <2>4 DEF Ending, Filled, Due
  <2>6. InBlock(BLOCK_SIZE)' \/ InBlock(CHUNK_SIZE)'
    BY <2>1, <2>2, <2>3 DEF Ending, InBlock
  <2>7. LastBlock(BlockEnd)' /\ Quiet' /\ ~line'
    BY <2>1, <2>2, <2>4 DEF Ending, LastBlock, Quiet
  <2>8. Ending'
    BY <2>5, <2>6, <2>7 DEF Ending
  <2>9. QED
    BY <2>1, <2>3, <2>8 DEF AutoInit, InOrder
<1>4. CASE LastWait
  <2>1. /\ sound_pc = "last" /\ irq_fired /\ sound_pc' = "stop"
        /\ UNCHANGED <<Others, card, irq_fired, line, irr>>
    BY <1>4 DEF LastWait, choice, local
  <2>2. AllHeard
    BY <2>1 DEF AutoInit, Ending, Quiet
  <2>3. AllHeard'
    BY <2>1, <2>2 DEF AllHeard, LastBlock
  <2>4. QED
    BY <2>1, <2>3 DEF AutoInit, InOrder
<1>5. CASE Stop
  <2>1. /\ sound_pc = "stop" /\ sound_pc' = "done" /\ card' = [card EXCEPT !.mode = "off"]
        /\ line' = FALSE /\ irr' = FALSE /\ UNCHANGED <<Others, irq_fired>>
    BY <1>5 DEF Stop, choice, local
  <2>2. AllHeard
    BY <2>1 DEF AutoInit
  <2>3. /\ card'.mode = "off"
        /\ card' \in [mode : {"off", "single", "auto", "exiting"},
                      pos : Nat, size : Nat \ {0}, left : Nat]
    BY <2>1 DEF InOrder
  <2>4. AllHeard'
    BY <2>1, <2>2, <2>3 DEF AllHeard, LastBlock
  <2>5. QED
    BY <2>1, <2>3, <2>4 DEF AutoInit, InOrder
<1>6. QED
  BY <1>1, <1>2, <1>3, <1>4, <1>5

LEMMA AutoHandler ==
  ASSUME InOrder, AutoInit, IrqHandler
  PROVE  InOrder' /\ AutoInit'
<1>1. /\ irr /\ irr' = FALSE /\ irq_fired' = TRUE
      /\ UNCHANGED <<file_len, auto_init, prompt, sound_pc, fpos, len, mem, cur_block, buffer,
                     card, line, heard>>
  BY DEF IrqHandler, choice, local
<1>2. InOrder'
  BY <1>1 DEF InOrder
<1>3. CASE sound_pc = "wait"
  <2>1. card.mode = "auto" /\ Filled(fpos) /\ Behind
    BY <1>1, <1>3 DEF AutoInit, Quiet
  <2>2. Filled(fpos)' /\ Behind' /\ Asked'
    BY <1>1, <2>1 DEF Filled, Due, Behind, InBlock, BlockEnd, Asked
  <2>3. QED
    BY <1>1, <1>2, <1>3, <2>1, <2>2 DEF AutoInit
<1>4. CASE sound_pc \in {"last", "stop", "done"}
  <2>1. AllHeard
    BY <1>1, <1>4 DEF AutoInit, Ending, Quiet
  <2>2. AllHeard' /\ Asked'
    BY <1>1, <2>1 DEF AllHeard, LastBlock, Asked
  <2>3. QED
    BY <1>1, <1>2, <1>4, <2>2 DEF AutoInit
<1>5. QED
  BY <1>1, <1>3, <1>4 DEF AutoInit, Quiet, Ending

-----------------------------------------------------------------------------
LEMMA PlayInit ==
  ASSUME Init
  PROVE  PlayInv
<1>1. file_len \in Nat /\ auto_init \in BOOLEAN
  BY SoundAssumption DEF Init
<1>2. BLOCK_SIZE \in Nat /\ CHUNK_SIZE \in Nat
  BY SoundAssumption DEF CHUNK_SIZE
<1>3. InOrder
  <2>1. /\ card \in [mode : {"off", "single", "auto", "exiting"},
                     pos : Nat, size : Nat \ {0}, left : Nat]
        /\ heard \in [count : Nat, clean : BOOLEAN] /\ heard.clean
    BY DEF Init
  <2>2. 0 \in 0 .. file_len /\ 0 \in 0 .. CHUNK_SIZE
    BY <1>1, <1>2
  <2>3. QED
    BY <1>1, <2>1, <2>2 DEF InOrder, Init
<1>4. AutoInit /\ Single
  BY DEF AutoInit, Single, Played, Init
<1>5. QED
  BY <1>1, <1>3, <1>4 DEF PlayInv

LEMMA PlayStep ==
  ASSUME PlayInv, [Next]_vars
  PROVE  PlayInv'
<1>1. CASE UNCHANGED vars
  <2>1. UNCHANGED <<file_len, auto_init, prompt, sound_pc, fpos, len, mem, cur_block, buffer,
                    irq_fired, card, line, irr, heard>>
    BY <1>1 DEF vars, choice, local
  <2>2. InOrder => InOrder'
    BY <2>1 DEF InOrder
  <2>3. Single => Single'
    BY <2>1 DEF Single, Played, LastRead, Loaded, Chunk, Quiet, Asked
  <2>4. AutoInit => AutoInit'
    <3>1. /\ Quiet' = Quiet /\ Asked' = Asked /\ Loaded' = Loaded
          /\ Ahead' = Ahead /\ Behind' = Behind /\ AllHeard' = AllHeard
      BY <2>1 DEF Quiet, Asked, Loaded, Ahead, Behind, InBlock, BlockEnd, AllHeard, LastBlock
    <3>2. Filled(fpos)' = Filled(fpos) /\ Filled(BlockEnd)' = Filled(BlockEnd)
      BY <2>1 DEF Filled, Due, BlockEnd
    <3>3. Ending' = Ending
      BY <2>1, <3>1, <3>2 DEF Ending, InBlock, BlockEnd, LastBlock
    <3>4. QED
      BY <2>1, <3>1, <3>2, <3>3 DEF AutoInit
  <2>5. QED
    BY <2>1, <2>2, <2>3, <2>4 DEF PlayInv, Paced
<1>2. CASE Next
  <2>1. UNCHANGED choice
    BY <1>2 DEF Next, Program, ReadChunk, DspTransfer, SeeInterrupt, Acknowledge, Refill,
                ExitCommand, LastWait, Stop, PlayUnit, IrqHandler
  <2>2. auto_init' = auto_init /\ Paced' = Paced
    BY <2>1 DEF choice, Paced
  <2>3. SUFFICES ASSUME Paced
                 PROVE  InOrder' /\ (IF auto_init THEN AutoInit' ELSE Single')
    BY <2>2 DEF PlayInv
  <2>4. InOrder /\ (IF auto_init THEN AutoInit ELSE Single)
    BY <2>3 DEF PlayInv
  <2>5. CASE ~auto_init
    BY <1>2, <2>4, <2>5, SingleRead, SingleTransfer, SingleProgram, SinglePlays, SingleHandler
       DEF Next, Program
  <2>6. CASE auto_init
    <3>1. prompt /\ file_len >= CHUNK_SIZE
      BY <2>3, <2>6 DEF Paced
    <3>2. QED
      BY <1>2, <2>4, <2>6, <3>1, AutoRead, AutoTransfer, AutoRefill, AutoProgram, AutoPlays,
         AutoHandler DEF Next, Program
  <2>7. QED
    BY <2>5, <2>6
<1>3. QED
  BY <1>1, <1>2

(* What is heard is the file from its start, without a gap, a repetition or the
   remains of another block: for every block size and length of file, without
   auto-init whatever the timing, and with it if the program keeps up. *)
THEOREM PlayerInOrder == Spec => []PlaysInOrder
<1>1. Init => PlayInv
  BY PlayInit
<1>2. PlayInv /\ [Next]_vars => PlayInv'
  BY PlayStep
<1>3. PlayInv => PlaysInOrder
  BY DEF PlayInv, InOrder, PlaysInOrder
<1>4. QED
  BY <1>1, <1>2, <1>3, PTL DEF Spec

(* When the player is done, all of the file was heard, or with auto-init all its
   whole blocks: it stops the card only behind the last block it read in full. *)
THEOREM PlayerToTheEnd == Spec => []PlaysToTheEnd
<1>1. Init => PlayInv
  BY PlayInit
<1>2. PlayInv /\ [Next]_vars => PlayInv'
  BY PlayStep
<1>3. ASSUME PlayInv PROVE PlaysToTheEnd
  <2> SUFFICES ASSUME sound_pc = "done", Paced
               PROVE  heard.count = IF auto_init THEN file_len - (file_len % BLOCK_SIZE)
                                    ELSE file_len
    BY DEF PlaysToTheEnd
  <2>1. CASE ~auto_init
    BY <1>3, <2>1 DEF PlayInv, Single, Played
  <2>2. CASE auto_init
    <3>1. AllHeard /\ file_len \in Nat /\ BLOCK_SIZE \in Nat \ {0}
      BY <1>3, <2>2, SoundAssumption DEF PlayInv, AutoInit, InOrder
    <3>2. PICK k \in Nat : heard.count = k * BLOCK_SIZE
      BY <3>1 DEF AllHeard
    <3>3. k * BLOCK_SIZE <= file_len /\ file_len < k * BLOCK_SIZE + BLOCK_SIZE
      BY <3>1, <3>2 DEF AllHeard, LastBlock
    <3>4. QED
      BY <2>2, <3>1, <3>2, <3>3, Remainder
  <2>3. QED
    BY <2>1, <2>2
<1>4. QED
  BY <1>1, <1>2, <1>3, PTL DEF Spec

-----------------------------------------------------------------------------
(* Type correctness, with and without auto-init, however late the program is. *)
Units == Garbage .. file_len

SoundPCs ==
  {"read", "start", "wait", "acknowledge", "refill", "exit", "last", "stop", "done"}

Chosen == file_len \in Nat /\ auto_init \in BOOLEAN

(* What is transferred is not empty, and not more than the buffer. *)
ReadTyped ==
  /\ sound_pc \in SoundPCs
  /\ fpos \in 0 .. file_len /\ len \in 0 .. CHUNK_SIZE /\ cur_block \in {0, 1}
  /\ sound_pc = "start" => len > 0
  /\ mem \in [0 .. CHUNK_SIZE - 1 -> Units]
  /\ buffer \in [0 .. CHUNK_SIZE - 1 -> Units]

CardTyped ==
  /\ DOMAIN card = {"mode", "pos", "size", "left"}
  /\ card.mode \in {"off", "single", "auto", "exiting"}
  /\ card.size \in 1 .. CHUNK_SIZE /\ card.pos \in 0 .. card.size - 1

SignalsTyped ==
  /\ irq_fired \in BOOLEAN /\ line \in BOOLEAN /\ irr \in BOOLEAN
  /\ heard \in [count : 0 .. file_len, clean : BOOLEAN]

SoundTyped == Chosen /\ ReadTyped /\ CardTyped /\ SignalsTyped

LEMMA ChunkSize == BLOCK_SIZE \in Nat /\ CHUNK_SIZE \in Nat /\ BLOCK_SIZE > 0 /\ CHUNK_SIZE > 1
                   /\ BLOCK_SIZE <= CHUNK_SIZE
  BY SoundAssumption DEF CHUNK_SIZE

LEMMA FreadTyped ==
  ASSUME SoundTyped, NEW n \in 1 .. CHUNK_SIZE, Fread(n)
  PROVE  /\ len' \in 0 .. n /\ fpos' \in 0 .. file_len
         /\ mem' \in [0 .. CHUNK_SIZE - 1 -> Units]
<1> DEFINE got == IF file_len - fpos < n THEN file_len - fpos ELSE n
<1>1. fpos \in 0 .. file_len /\ file_len \in Nat /\ CHUNK_SIZE \in Nat
  BY ChunkSize DEF SoundTyped, Chosen, ReadTyped
<1>2. got \in 0 .. n /\ fpos + got \in 0 .. file_len
  BY <1>1
<1>3. /\ len' = got /\ fpos' = fpos + got
      /\ mem' = [i \in DOMAIN mem |-> IF i < got THEN fpos + i + 1 ELSE mem[i]]
  BY DEF Fread
<1> HIDE DEF got
<1>4. \A i \in 0 .. CHUNK_SIZE - 1 : i < got => fpos + i + 1 \in Units
  BY <1>1, <1>2 DEF Units, Garbage
<1>5. mem \in [0 .. CHUNK_SIZE - 1 -> Units]
  BY DEF SoundTyped, ReadTyped
<1> QED
  BY <1>2, <1>3, <1>4, <1>5

LEMMA CopyTyped ==
  ASSUME SoundTyped, mem' \in [0 .. CHUNK_SIZE - 1 -> Units], NEW address \in Nat, NEW n \in Nat,
         n <= CHUNK_SIZE, CopyMemToAddr(address, n)
  PROVE  buffer' \in [0 .. CHUNK_SIZE - 1 -> Units]
<1>1. /\ buffer \in [0 .. CHUNK_SIZE - 1 -> Units] /\ CHUNK_SIZE \in Nat /\ BLOCK_SIZE \in Nat
      /\ file_len \in Nat
  BY ChunkSize DEF SoundTyped, Chosen, ReadTyped
<1>2. Null \in Units
  BY <1>1 DEF Units, Null, Garbage
<1>3. \A i \in 0 .. CHUNK_SIZE - 1 : i \in address .. address + n - 1 => mem'[i - address] \in Units
  <2> SUFFICES ASSUME NEW i \in 0 .. CHUNK_SIZE - 1, i \in address .. address + n - 1
               PROVE  mem'[i - address] \in Units
    OBVIOUS
  <2>1. i - address \in 0 .. CHUNK_SIZE - 1
    BY <1>1
  <2> QED
    BY <2>1
<1>4. buffer' = [i \in DOMAIN buffer |->
                  IF i \in address .. address + n - 1 THEN mem'[i - address]
                  ELSE IF i \in address .. address + BLOCK_SIZE - 1 THEN Null
                  ELSE buffer[i]]
  BY DEF CopyMemToAddr
<1> HIDE DEF Units
<1> QED
  BY <1>1, <1>2, <1>3, <1>4

LEMMA ReadChunkTyped ==
  ASSUME SoundTyped, ReadChunk
  PROVE  SoundTyped'
<1>1. CHUNK_SIZE \in 1 .. CHUNK_SIZE /\ CHUNK_SIZE \in Nat
  BY ChunkSize
<1>2. /\ len' \in 0 .. CHUNK_SIZE /\ fpos' \in 0 .. file_len
      /\ mem' \in [0 .. CHUNK_SIZE - 1 -> Units]
  BY <1>1, FreadTyped DEF ReadChunk
<1>3. /\ UNCHANGED <<file_len, auto_init, cur_block, card, line, irr, heard>>
      /\ irq_fired' \in BOOLEAN
  BY DEF ReadChunk, choice, SoundTyped, SignalsTyped
<1>4. Units' = Units
  BY <1>3 DEF Units
<1>5. CASE len' = 0
  BY <1>2, <1>3, <1>4, <1>5
     DEF ReadChunk, SoundTyped, Chosen, ReadTyped, CardTyped, SignalsTyped, SoundPCs
<1>6. CASE len' # 0
  <2>1. sound_pc' = "start" /\ CopyMemToAddr(0, len') /\ len' > 0 /\ len' \in Nat
    BY <1>1, <1>2, <1>6 DEF ReadChunk
  <2>2. buffer' \in [0 .. CHUNK_SIZE - 1 -> Units]
    BY <1>1, <1>2, <2>1, CopyTyped
  <2> QED
    BY <1>2, <1>3, <1>4, <2>1, <2>2
       DEF SoundTyped, Chosen, ReadTyped, CardTyped, SignalsTyped, SoundPCs
<1> QED
  BY <1>5, <1>6

LEMMA RefillTyped ==
  ASSUME SoundTyped, Refill
  PROVE  SoundTyped'
<1>1. BLOCK_SIZE \in 1 .. CHUNK_SIZE /\ CHUNK_SIZE \in Nat /\ BLOCK_SIZE \in Nat
  BY ChunkSize
<1>2. /\ len' \in 0 .. BLOCK_SIZE /\ fpos' \in 0 .. file_len
      /\ mem' \in [0 .. CHUNK_SIZE - 1 -> Units]
  BY <1>1, FreadTyped DEF Refill
<1>3. /\ UNCHANGED <<file_len, auto_init, irq_fired, card, line, irr, heard>>
      /\ cur_block' = 1 - cur_block /\ sound_pc' \in {"exit", "wait"}
  BY DEF Refill, choice
<1>4. Units' = Units /\ cur_block \in {0, 1}
  BY <1>3 DEF Units, SoundTyped, ReadTyped
<1>5. buffer' \in [0 .. CHUNK_SIZE - 1 -> Units]
  <2>1. CASE len' > 0
    <3>1. CopyMemToAddr(cur_block * BLOCK_SIZE, len') \/ CopyMemToAddr(cur_block * BLOCK_SIZE, BLOCK_SIZE)
      BY <2>1 DEF Refill
    <3>2. cur_block * BLOCK_SIZE \in Nat /\ len' \in Nat /\ len' <= CHUNK_SIZE
      BY <1>1, <1>2, <1>4
    <3> QED
      BY <1>1, <1>2, <3>1, <3>2, CopyTyped
  <2>2. CASE ~(len' > 0)
    BY <2>2 DEF Refill, SoundTyped, ReadTyped
  <2> QED
    BY <2>1, <2>2
<1>6. len' \in 0 .. CHUNK_SIZE /\ cur_block' \in {0, 1}
  BY <1>1, <1>2, <1>3, <1>4
<1>7. Chosen' /\ CardTyped' /\ SignalsTyped'
  BY <1>3 DEF SoundTyped, Chosen, CardTyped, SignalsTyped
<1>8. ReadTyped'
  BY <1>2, <1>3, <1>4, <1>5, <1>6 DEF ReadTyped, SoundPCs
<1> QED
  BY <1>7, <1>8 DEF SoundTyped

LEMMA DspTransferTyped ==
  ASSUME SoundTyped, DspTransfer
  PROVE  SoundTyped'
<1>1. /\ sound_pc = "start" /\ sound_pc' = "wait" /\ cur_block' = 0
      /\ UNCHANGED <<file_len, auto_init, fpos, len, mem, buffer, irq_fired, line, irr, heard>>
  BY DEF DspTransfer, choice
<1>2. len \in 1 .. CHUNK_SIZE /\ CHUNK_SIZE \in Nat
  BY <1>1, ChunkSize DEF SoundTyped, ReadTyped
<1>3. \E mode \in {"auto", "single"}, left \in {BLOCK_SIZE, len} :
        card' = [mode |-> mode, pos |-> 0, size |-> len, left |-> left]
  BY DEF DspTransfer
<1>4. CardTyped'
  BY <1>2, <1>3 DEF CardTyped
<1>5. ReadTyped'
  BY <1>1 DEF SoundTyped, ReadTyped, SoundPCs, Units
<1> QED
  BY <1>1, <1>4, <1>5 DEF SoundTyped, Chosen, SignalsTyped

(* The steps that read nothing and start nothing. *)
LEMMA ProgramTyped ==
  ASSUME SoundTyped, SeeInterrupt \/ Acknowledge \/ ExitCommand \/ LastWait \/ Stop
  PROVE  SoundTyped'
<1>1. /\ UNCHANGED <<file_len, auto_init, fpos, len, mem, cur_block, buffer, heard>>
      /\ sound_pc' \in SoundPCs \ {"start"}
  BY DEF SeeInterrupt, Acknowledge, ExitCommand, LastWait, Stop, choice, local, SoundPCs
<1>2. irq_fired' \in BOOLEAN /\ line' \in BOOLEAN /\ irr' \in BOOLEAN
  BY DEF SeeInterrupt, Acknowledge, ExitCommand, LastWait, Stop, SoundTyped, SignalsTyped
<1>3. \/ card' = card
      \/ \E mode \in {"exiting", "off"} : card' = [card EXCEPT !.mode = mode]
  BY DEF SeeInterrupt, Acknowledge, ExitCommand, LastWait, Stop
<1>4. CardTyped'
  BY <1>3 DEF SoundTyped, CardTyped
<1>5. ReadTyped'
  BY <1>1 DEF SoundTyped, ReadTyped, SoundPCs, Units
<1> QED
  BY <1>1, <1>2, <1>4, <1>5 DEF SoundTyped, Chosen, SignalsTyped

(* A unit is counted only if it is the next one of the file. *)
LEMMA PlayUnitTyped ==
  ASSUME SoundTyped, PlayUnit
  PROVE  SoundTyped'
<1> DEFINE unit == buffer[card.pos]
           end  == card.left = 1
<1>1. /\ UNCHANGED <<file_len, auto_init, sound_pc, fpos, len, mem, cur_block, buffer, irq_fired>>
      /\ heard' = IF unit = heard.count + 1
                  THEN [heard EXCEPT !.count = @ + 1] ELSE [heard EXCEPT !.clean = FALSE]
      /\ line' = (line \/ end) /\ irr' = (irr \/ (end /\ ~line))
      /\ card' = [card EXCEPT
                    !.pos  = (@ + 1) % card.size,
                    !.left = IF end THEN BLOCK_SIZE ELSE @ - 1,
                    !.mode = IF end /\ @ # "auto" THEN "off" ELSE @]
  BY DEF PlayUnit, choice, local
<1>2. /\ card.size \in 1 .. CHUNK_SIZE /\ card.pos \in 0 .. card.size - 1 /\ CHUNK_SIZE \in Nat
      /\ DOMAIN card = {"mode", "pos", "size", "left"}
      /\ card.mode \in {"off", "single", "auto", "exiting"}
  BY ChunkSize DEF SoundTyped, CardTyped
<1>3. unit \in Units
  <2>1. card.pos \in 0 .. CHUNK_SIZE - 1
    BY <1>2
  <2> QED
    BY <2>1 DEF SoundTyped, ReadTyped
<1> HIDE DEF unit, end
<1>4. CardTyped'
  <2>1. (card.pos + 1) % card.size \in 0 .. card.size - 1
    BY <1>2, Step
  <2>2. /\ DOMAIN card' = {"mode", "pos", "size", "left"} /\ card'.size = card.size
        /\ card'.pos = (card.pos + 1) % card.size
        /\ card'.mode \in {"off", "single", "auto", "exiting"}
    BY <1>1, <1>2
  <2> QED
    BY <1>2, <2>1, <2>2 DEF CardTyped
<1>5. SignalsTyped'
  <2>1. heard \in [count : 0 .. file_len, clean : BOOLEAN] /\ file_len \in Nat
    BY DEF SoundTyped, Chosen, SignalsTyped
  <2>2. heard' \in [count : 0 .. file_len, clean : BOOLEAN]
    <3>1. CASE unit = heard.count + 1
      <4>1. heard.count + 1 \in 0 .. file_len /\ heard' = [heard EXCEPT !.count = @ + 1]
        BY <1>1, <1>3, <2>1, <3>1 DEF Units
      <4> QED
        BY <2>1, <4>1
    <3>2. CASE unit # heard.count + 1
      BY <1>1, <2>1, <3>2
    <3> QED
      BY <3>1, <3>2
  <2>3. line' \in BOOLEAN /\ irr' \in BOOLEAN
    BY <1>1
  <2> QED
    BY <1>1, <2>2, <2>3 DEF SoundTyped, SignalsTyped
<1> QED
  BY <1>1, <1>4, <1>5 DEF SoundTyped, Chosen, ReadTyped, Units

LEMMA InitSound ==
  ASSUME Init
  PROVE  SoundTyped
<1>1. file_len \in Nat /\ CHUNK_SIZE \in Nat /\ CHUNK_SIZE > 1
  BY SoundAssumption, ChunkSize DEF Init
<1>2. Garbage \in Units
  BY <1>1 DEF Units, Garbage
<1>3. ReadTyped
  BY <1>1, <1>2 DEF Init, ReadTyped, SoundPCs
<1>4. CardTyped
  <2>1. card = [mode |-> "off", pos |-> 0, size |-> 1, left |-> 0]
    BY DEF Init
  <2> QED
    BY <1>1, <2>1 DEF CardTyped
<1>5. SignalsTyped /\ Chosen
  <2>1. heard = [count |-> 0, clean |-> TRUE] /\ 0 \in 0 .. file_len
    BY <1>1 DEF Init
  <2>2. heard \in [count : 0 .. file_len, clean : BOOLEAN]
    BY <2>1
  <2> QED
    BY <1>1, <2>2 DEF Init, SignalsTyped, Chosen
<1> QED
  BY <1>3, <1>4, <1>5 DEF SoundTyped

(* The variables of play_wav_file, of the card and of the handler have their
   values, also when the program does not keep up: what is put in the buffer are
   units of the file, and the DMA stays in it. *)
THEOREM PlayerTypes == Spec => []TypeOK
<1>1. Init => SoundTyped
  BY InitSound
<1>2. SoundTyped /\ [Next]_vars => SoundTyped'
  <2>1. SoundTyped /\ UNCHANGED vars => SoundTyped'
    BY DEF vars, choice, local, SoundTyped, Chosen, ReadTyped, CardTyped, SignalsTyped, Units
  <2>2. SoundTyped /\ IrqHandler => SoundTyped'
    BY DEF IrqHandler, choice, local, SoundTyped, Chosen, ReadTyped, CardTyped, SignalsTyped, Units
  <2> QED
    BY <2>1, <2>2, ReadChunkTyped, RefillTyped, DspTransferTyped, ProgramTyped, PlayUnitTyped
       DEF Next, Program
<1>3. SoundTyped => TypeOK
  <2> SUFFICES ASSUME SoundTyped
               PROVE  TypeOK
    OBVIOUS
  <2>1. /\ \A i \in 0 .. CHUNK_SIZE - 1 : mem[i] \in Units /\ buffer[i] \in Units
        /\ heard.count \in 0 .. file_len /\ heard.clean \in BOOLEAN
    BY DEF SoundTyped, ReadTyped, SignalsTyped
  <2> QED
    BY <2>1 DEF SoundTyped, ReadTyped, CardTyped, SignalsTyped, SoundPCs, Units, TypeOK
<1>4. QED
  BY <1>1, <1>2, <1>3, PTL DEF Spec
=============================================================================
