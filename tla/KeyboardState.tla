--------------------------- MODULE KeyboardState ---------------------------
(***************************************************************************)
(* The state of the keyboard, its controller and ps2key.c, and what is     *)
(* promised of the modifiers and the LEDs.                                 *)
(***************************************************************************)
EXTENDS Integers, Sequences, FiniteSets

CONSTANTS
  KEY_BUFFER_SIZE,
  Keys,          \* the keys of the user
  MaxKeyEvents   \* bound: presses, repeats and releases

VARIABLES
  scan_set,
  held,          \* keys that are down
  key_events,    \* number of presses, repeats and releases
  queue,         \* bytes the keyboard has to send
  led_command,   \* the keyboard waits for the state of the LEDs
  leds,
  output,        \* the output buffer of the controller, one byte
  clock,         \* the controller lets the keyboard send
  masked,        \* the interrupt is masked
  key_buffer, key_buff_us, key_buff_irq,
  scan_buffer, is_break, key_flags,
  key_pc,        \* what the program does next
  bit,           \* the lock key being handled
  lost           \* history: a byte was lost, or taken for something else

-----------------------------------------------------------------------------
(* The flag of a key's row in the tables of sets 1 and 2. *)
ShiftFlag ==
  [LSHIFT |-> "LSHIFTBIT", RSHIFT |-> "RSHIFTBIT", LCTRL |-> "CTRLBIT", RCTRL |-> "CTRLBIT",
   LALT |-> "ALTBIT", RALT |-> "ALTBIT", CAPSLCK |-> "CAPSLCKBIT", SCROLL |-> "SCROLLBIT",
   NUMLCK |-> "NUMLOCKBIT", INSERT |-> "INSERTBIT", ESC |-> "none", UP |-> "none",
   FAKE |-> "ignored"]

Modifiers == {"LSHIFTBIT", "RSHIFTBIT", "CTRLBIT", "ALTBIT"}
Locks   == {"CAPSLCKBIT", "SCROLLBIT", "NUMLOCKBIT"}

(* The ring has a place, and the user's keys are in the tables. *)
ASSUME KeyboardAssumption == KEY_BUFFER_SIZE \in Nat \ {0} /\ Keys \subseteq DOMAIN ShiftFlag

-----------------------------------------------------------------------------
(* All bytes are translated. *)
Quiet ==
  key_pc = "loop" /\ queue = <<>> /\ output = <<>> /\ key_buff_us = key_buff_irq

Keyed(flag) == {key \in held : ShiftFlag[key] = flag}

(* Unless a byte was lost, no modifier is on for which no key is down once all
   bytes are translated, and the translator is ready for a new key: a lock key
   that was handled in the middle, with the interrupt masked, makes no
   difference. *)
NoStuckModifier ==
  Quiet /\ ~lost =>
    /\ \A flag \in key_flags \cap Modifiers : Keyed(flag) # {}
    /\ scan_buffer = <<>> /\ ~is_break

(* Unless a byte was lost, the LEDs show the locks, once the first of them was
   toggled (all are turned on at the start). *)
LedsFollow == Quiet /\ ~lost => leds = Locks \/ leds = key_flags \cap Locks
=============================================================================
