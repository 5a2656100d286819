---------------------------- MODULE SoundPlayer ----------------------------
(***************************************************************************)
(* play_wav_file of sblaster.c: a WAV file is played chunk by chunk from a *)
(* buffer the card reads by DMA.  Three actors: the program, the card,     *)
(* which plays unit after unit and asks for an interrupt at the end of a   *)
(* block, and the interrupt handler, whose only word is irq_fired.  The    *)
(* line of the interrupt is edge triggered: while the program has not      *)
(* acknowledged one, the next is not noticed.                              *)
(***************************************************************************)
EXTENDS SoundState

choice   == <<file_len, auto_init, prompt>>
local    == <<fpos, len, mem, cur_block>>
vars     == <<choice, sound_pc, local, buffer, irq_fired, card, line, irr, heard>>

(* The unit after i units of the file is i + 1. *)
Null    == 0
Garbage == -1

Init ==
  /\ file_len \in FileLengths /\ auto_init \in BOOLEAN /\ prompt \in BOOLEAN
  /\ sound_pc = "read"
  /\ fpos = 0 /\ len = 0 /\ cur_block = 0
  /\ mem = [i \in 0 .. CHUNK_SIZE - 1 |-> Garbage]
  /\ buffer = mem
  /\ irq_fired = FALSE /\ line = FALSE /\ irr = FALSE
  /\ card = [mode |-> "off", pos |-> 0, size |-> 1, left |-> 0]
  /\ heard = [count |-> 0, clean |-> TRUE]

-----------------------------------------------------------------------------
(* fread leaves what it does not fill. *)
Fread(n) ==
  LET got == IF file_len - fpos < n THEN file_len - fpos ELSE n
  IN  /\ len' = got
      /\ fpos' = fpos + got
      /\ mem' = [i \in DOMAIN mem |-> IF i < got THEN fpos + i + 1 ELSE mem[i]]

(* copy_mem_to_addr: n units from mem, and nulls up to the end of a block. *)
CopyMemToAddr(address, n) ==
  buffer' = [i \in DOMAIN buffer |->
    IF i \in address .. address + n - 1 THEN mem'[i - address]
    ELSE IF i \in address .. address + BLOCK_SIZE - 1 THEN Null
    ELSE buffer[i]]

(* The first chunk, and every chunk without auto-init. *)
ReadChunk ==
  /\ sound_pc = "read"
  /\ Fread(CHUNK_SIZE)
  /\ IF len' = 0
     THEN sound_pc' = "stop" /\ UNCHANGED <<buffer, irq_fired>>
     ELSE /\ sound_pc' = "start"
          /\ CopyMemToAddr(0, len')
          /\ irq_fired' = FALSE
  /\ UNCHANGED <<choice, cur_block, card, line, irr, heard>>

(* With auto-init the DMA goes round the first chunk as it was read, and the
   card asks for an interrupt every block. *)
DspTransfer ==
  /\ sound_pc = "start"
  /\ sound_pc' = "wait"
  /\ card' = IF auto_init
             THEN [mode |-> "auto", pos |-> 0, size |-> len, left |-> BLOCK_SIZE]
             ELSE [mode |-> "single", pos |-> 0, size |-> len, left |-> len]
  /\ cur_block' = 0
  /\ UNCHANGED <<choice, fpos, len, mem, buffer, irq_fired, line, irr, heard>>

SeeInterrupt ==
  /\ sound_pc = "wait" /\ irq_fired
  /\ sound_pc' = "acknowledge"
  /\ irq_fired' = IF auto_init THEN FALSE ELSE irq_fired
  /\ UNCHANGED <<choice, local, buffer, card, line, irr, heard>>

(* The mixer of a DSP 4 reports the 8-bit transfer, the only one there is. *)
Acknowledge ==
  /\ sound_pc = "acknowledge"
  /\ line' = FALSE
  /\ sound_pc' = IF auto_init THEN "refill" ELSE IF len = CHUNK_SIZE THEN "read" ELSE "stop"
  /\ UNCHANGED <<choice, local, buffer, irq_fired, card, irr, heard>>

(* The next block goes to the half that was played, all of it even when less
   was read. *)
Slip_Refill ==
  /\ sound_pc = "refill"
  /\ Fread(BLOCK_SIZE)
  /\ cur_block' = 1 - cur_block
  /\ IF len' > 0 THEN CopyMemToAddr(cur_block' * BLOCK_SIZE, BLOCK_SIZE) ELSE UNCHANGED buffer
  /\ sound_pc' = IF len' < BLOCK_SIZE THEN "exit" ELSE "wait"
  /\ UNCHANGED <<choice, irq_fired, card, line, irr, heard>>
Refill ==
  /\ sound_pc = "refill"
  /\ Fread(BLOCK_SIZE)
  /\ IF len' > 0 THEN CopyMemToAddr(cur_block * BLOCK_SIZE, BLOCK_SIZE) ELSE UNCHANGED buffer
  /\ cur_block' = 1 - cur_block
  /\ sound_pc' = IF len' < BLOCK_SIZE THEN "exit" ELSE "wait"
  /\ UNCHANGED <<choice, irq_fired, card, line, irr, heard>>

(* Command 0xDA: the card stops at the end of the block it plays. *)
Slip_ExitCommand ==
  /\ sound_pc = "exit"
  /\ sound_pc' = "stop"
  /\ card' = [card EXCEPT !.mode = "exiting"]
  /\ UNCHANGED <<choice, local, buffer, irq_fired, line, irr, heard>>
ExitCommand ==
  /\ sound_pc = "exit"
  /\ sound_pc' = "last"
  /\ card' = [card EXCEPT !.mode = "exiting"]
  /\ UNCHANGED <<choice, local, buffer, irq_fired, line, irr, heard>>

LastWait ==
  /\ sound_pc = "last" /\ irq_fired
  /\ sound_pc' = "stop"
  /\ UNCHANGED <<choice, local, buffer, irq_fired, card, line, irr, heard>>

(* stop_dsp resets the card; the interrupt is masked. *)
Stop ==
  /\ sound_pc = "stop"
  /\ sound_pc' = "done"
  /\ card' = [card EXCEPT !.mode = "off"]
  /\ line' = FALSE /\ irr' = FALSE
  /\ UNCHANGED <<choice, local, buffer, irq_fired, heard>>

-----------------------------------------------------------------------------
(* The card plays the next unit.  A prompt program is back in its wait, and
   has seen the last interrupt, before the block ends. *)
InTime == sound_pc \in {"wait", "last"} /\ ~irq_fired /\ ~irr

PlayUnit ==
  LET unit == buffer[card.pos]
      end  == card.left = 1
  IN  /\ card.mode # "off"
      /\ prompt /\ end => InTime
      /\ heard' = IF unit = heard.count + 1
                  THEN [heard EXCEPT !.count = @ + 1] ELSE [heard EXCEPT !.clean = FALSE]
      /\ card' = [card EXCEPT
                    !.pos  = (@ + 1) % card.size,
                    !.left = IF end THEN BLOCK_SIZE ELSE @ - 1,
                    !.mode = IF end /\ @ # "auto" THEN "off" ELSE @]
      /\ line' = (line \/ end)
      /\ irr' = (irr \/ (end /\ ~line))
      /\ UNCHANGED <<choice, sound_pc, local, buffer, irq_fired>>

IrqHandler ==
  /\ irr
  /\ irr' = FALSE
  /\ irq_fired' = TRUE
  /\ UNCHANGED <<choice, sound_pc, local, buffer, card, line, heard>>

-----------------------------------------------------------------------------
Program ==
  \/ ReadChunk \/ DspTransfer \/ SeeInterrupt \/ Acknowledge \/ Refill \/ ExitCommand
  \/ LastWait \/ Stop

Next == Program \/ PlayUnit \/ IrqHandler

(* The program runs, the card plays and the processor takes interrupts. *)
Spec == Init /\ [][Next]_vars /\ WF_vars(Program) /\ WF_vars(PlayUnit) /\ WF_vars(IrqHandler)

-----------------------------------------------------------------------------
\* The variables have these values.
TypeOK ==
  /\ sound_pc \in {"read", "start", "wait", "acknowledge", "refill", "exit", "last", "stop",
                   "done"}
  /\ fpos \in 0 .. file_len /\ len \in 0 .. CHUNK_SIZE /\ cur_block \in {0, 1}
  /\ {mem[i] : i \in 0 .. CHUNK_SIZE - 1} \subseteq Garbage .. file_len
  /\ {buffer[i] : i \in 0 .. CHUNK_SIZE - 1} \subseteq Garbage .. file_len
  /\ card.mode \in {"off", "single", "auto", "exiting"} /\ card.pos \in 0 .. card.size - 1
  /\ {irq_fired, line, irr, heard.clean} \subseteq BOOLEAN
  /\ heard.count \in 0 .. file_len

(* However late the program reads a block, it comes to its end: an interrupt
   that is missed because the last one was not acknowledged is not the one it
   waits for. *)
Ends == <>(sound_pc = "done")
=============================================================================
