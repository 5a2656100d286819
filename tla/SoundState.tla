----------------------------- MODULE SoundState -----------------------------
(***************************************************************************)
(* The state of play_wav_file and of the sound card, and what is promised  *)
(* of what is heard.                                                       *)
(***************************************************************************)
EXTENDS Integers

CONSTANTS
  BLOCK_SIZE,   \* units in each half of the buffer
  FileLengths   \* lengths of the files to play, in units

ASSUME SoundAssumption == BLOCK_SIZE \in Nat \ {0} /\ FileLengths \subseteq Nat

VARIABLES
  file_len,
  auto_init,    \* -auto was given
  prompt,       \* the program is always done before the card ends a block
  sound_pc,     \* what the program does next
  fpos,         \* units read from the file
  len,
  mem,          \* the local buffer of fread
  buffer,       \* the buffer of the DMA, two blocks
  cur_block,
  irq_fired,
  card,         \* the DSP and the DMA controller
  line,         \* the card asks for an interrupt, and was not acknowledged
  irr,          \* the interrupt controller has noticed
  heard         \* history: units heard in order, and whether that was all

CHUNK_SIZE == 2 * BLOCK_SIZE

-----------------------------------------------------------------------------
Paced == ~auto_init \/ (prompt /\ file_len >= CHUNK_SIZE)

(* What is heard is the file from its start, nothing twice and no remains of
   another block: without auto-init always, with it when the program keeps up
   with the card and the file fills the buffer once ("uninterrupted audio"). *)
PlaysInOrder == Paced => heard.clean

(* At the end the whole file was heard without auto-init, and every full block
   of it with auto-init: the program does not stop the card under a block it
   has read in full. *)
PlaysToTheEnd ==
  sound_pc = "done" /\ Paced =>
    heard.count = IF auto_init THEN file_len - (file_len % BLOCK_SIZE) ELSE file_len
=============================================================================
