------------------------------ MODULE Keyboard ------------------------------
(***************************************************************************)
(* ps2key.c with ps2share.c: the interrupt handler puts the bytes of the   *)
(* keyboard in a ring, the main loop takes them out and translates them    *)
(* with the tables of scancode.h.  For a lock key the translator talks to  *)
(* the keyboard itself, with the interrupt masked, to set the LEDs.        *)
(***************************************************************************)
EXTENDS KeyboardState

keyboard   == <<held, key_events, queue, led_command, leds>>
controller == <<output, clock, masked>>
fifo       == <<key_buffer, key_buff_us, key_buff_irq>>
translator == <<scan_buffer, is_break, key_flags>>
vars == <<scan_set, keyboard, controller, fifo, translator, key_pc, bit, lost>>

(* The codes of a key in the tables of sets 1 and 2. *)
Sequence ==
  [LSHIFT |-> <<"LSHIFT">>, RSHIFT |-> <<"RSHIFT">>, LCTRL |-> <<"CTRL">>,
   RCTRL |-> <<"E0", "CTRL">>, LALT |-> <<"ALT">>, RALT |-> <<"E0", "ALT">>,
   CAPSLCK |-> <<"CAPSLCK">>, SCROLL |-> <<"SCROLL">>, NUMLCK |-> <<"NUMLCK">>,
   INSERT |-> <<"E0", "INSERT">>, ESC |-> <<"ESC">>, UP |-> <<"E0", "UP">>,
   FAKE |-> <<"E0", "LSHIFT">>]

Byte(c) == [code |-> c, up |-> FALSE]
Ack     == Byte("ACK")

Init ==
  /\ scan_set \in {1, 2}
  /\ held = {} /\ key_events = 0 /\ queue = <<>> /\ led_command = FALSE
  /\ leds = Locks
  /\ output = <<>> /\ clock = TRUE /\ masked = FALSE
  /\ key_buffer = [i \in 0 .. KEY_BUFFER_SIZE - 1 |-> Byte("none")]
  /\ key_buff_us = 0 /\ key_buff_irq = 0
  /\ scan_buffer = <<>> /\ is_break = FALSE /\ key_flags = {}
  /\ key_pc = "loop" /\ bit = "none"
  /\ lost = FALSE

-----------------------------------------------------------------------------
(* The keyboard.  In set 1 the last byte of a released key has bit 7 set, in
   set 2 it comes behind an F0. *)
Made(key) == [i \in DOMAIN Sequence[key] |-> Byte(Sequence[key][i])]

Broken(key) ==
  LET n == Len(Sequence[key])
  IN  IF scan_set = 1
      THEN [Made(key) EXCEPT ![n].up = TRUE]
      ELSE SubSeq(Made(key), 1, n - 1) \o <<Byte("F0"), Made(key)[n]>>

(* Under a left shift, these keys release the shift for a moment. *)
Fakes(key) == key \in {"UP", "INSERT"} /\ "LSHIFT" \in held

Sends(bytes) ==
  /\ key_events < MaxKeyEvents /\ key_events' = key_events + 1
  /\ queue' = queue \o bytes
  /\ UNCHANGED <<scan_set, led_command, leds, controller, fifo, translator, key_pc, bit, lost>>

Press(key) ==
  /\ Sends((IF Fakes(key) THEN Broken("FAKE") ELSE <<>>) \o Made(key))
  /\ held' = held \cup {key}

Release(key) ==
  /\ key \in held
  /\ Sends(Broken(key) \o (IF Fakes(key) THEN Made("FAKE") ELSE <<>>))
  /\ held' = held \ {key}

(* Between the command and its argument it sends nothing but its answer. *)
SendByte ==
  /\ queue # <<>> /\ output = <<>> /\ clock
  /\ led_command => Head(queue) = Ack
  /\ output' = <<Head(queue)>>
  /\ queue' = Tail(queue)
  /\ UNCHANGED <<scan_set, held, key_events, led_command, leds, clock, masked, fifo, translator,
                 key_pc, bit, lost>>

(* If the argument does not come, it goes on after a while. *)
Resume ==
  /\ led_command /\ key_pc \notin {"ack_1", "led_2"}
  /\ led_command' = FALSE
  /\ UNCHANGED <<scan_set, held, key_events, queue, leds, controller, fifo, translator, key_pc,
                 bit, lost>>

-----------------------------------------------------------------------------
(* ps2_key_irq: the ring is not checked, so that the byte that fills it makes
   it look empty. *)
Following(i) == IF i + 1 = KEY_BUFFER_SIZE THEN 0 ELSE i + 1

Ps2KeyIrq ==
  /\ output # <<>> /\ ~masked
  /\ key_buffer' = [key_buffer EXCEPT ![key_buff_irq] = output[1]]
  /\ key_buff_irq' = Following(key_buff_irq)
  /\ output' = <<>>
  /\ lost' = (lost \/ key_buff_irq' = key_buff_us)
  /\ UNCHANGED <<scan_set, keyboard, clock, masked, key_buff_us, translator, key_pc, bit>>

-----------------------------------------------------------------------------
(* key_set_flags, but for the locks. *)
SetFlags(flag, break_code) ==
  CASE flag \in {"LSHIFTBIT", "RSHIFTBIT"} /\ break_code -> key_flags \ {"LSHIFTBIT", "RSHIFTBIT"}
    [] flag \in Modifiers /\ ~break_code -> key_flags \cup {flag}
    [] flag \in {"CTRLBIT", "ALTBIT"} /\ break_code -> key_flags \ {flag}
    [] flag = "INSERTBIT" /\ break_code ->
         IF flag \in key_flags THEN key_flags \ {flag} ELSE key_flags \cup {flag}
    [] OTHER -> key_flags

(* Caps Lock toggles when it is pressed, the other locks when they are
   released. *)
Toggles(flag, break_code) ==
  \/ flag = "CAPSLCKBIT" /\ ~break_code
  \/ flag \in {"SCROLLBIT", "NUMLOCKBIT"} /\ break_code

Slip_ClearBuffers == scan_buffer' = <<>> /\ UNCHANGED is_break
ClearBuffers == scan_buffer' = <<>> /\ is_break' = FALSE

(* The main loop ends on 0x011B, which ESC gives unless only ALT is on: then it
   gives 0x0100. *)
AltCode ==
  "ALTBIT" \in key_flags /\ key_flags \cap {"LSHIFTBIT", "RSHIFTBIT", "CAPSLCKBIT", "CTRLBIT"} = {}

(* key_translate.  The byte stays in the ring until it returns. *)
Translate ==
  LET byte  == key_buffer[key_buff_us]
      last  == ~(scan_set = 2 /\ byte.code = "F0")
      codes == IF last THEN Append(scan_buffer, byte.code) ELSE scan_buffer
      break_code == is_break \/ byte.up \/ ~last
      found == {key \in DOMAIN Sequence : last /\ Sequence[key] = codes}
  IN  /\ key_pc = "loop" /\ key_buff_us # key_buff_irq
      /\ \/ /\ found = {}
            /\ scan_buffer' = codes /\ is_break' = break_code
            /\ key_pc' = "next"
            /\ UNCHANGED <<key_flags, bit>>
         \/ \E key \in found :
              IF Toggles(ShiftFlag[key], break_code)
              THEN /\ bit' = ShiftFlag[key]
                   /\ scan_buffer' = codes /\ is_break' = break_code
                   /\ key_pc' = "mask"
                   /\ UNCHANGED key_flags
              ELSE /\ key_flags' = SetFlags(ShiftFlag[key], break_code)
                   /\ ClearBuffers
                   /\ key_pc' = IF key = "ESC" /\ ~break_code /\ ~AltCode THEN "quit" ELSE "next"
                   /\ UNCHANGED bit
      /\ UNCHANGED <<scan_set, keyboard, controller, fifo, lost>>

NextByte ==
  /\ key_pc = "next"
  /\ key_pc' = "loop"
  /\ key_buff_us' = Following(key_buff_us)
  /\ UNCHANGED <<scan_set, keyboard, controller, key_buffer, key_buff_irq, translator, bit, lost>>

-----------------------------------------------------------------------------
(* keyboard_toggle_led.  A command to the keyboard opens its clock again. *)
Mask ==
  /\ key_pc = "mask" /\ key_pc' = "disable"
  /\ masked' = TRUE
  /\ UNCHANGED <<scan_set, keyboard, output, clock, fifo, translator, bit, lost>>

DisablePort ==
  /\ key_pc = "disable" /\ key_pc' = "led_1"
  /\ clock' = FALSE
  /\ UNCHANGED <<scan_set, keyboard, output, masked, fifo, translator, bit, lost>>

LedCommand ==
  /\ key_pc = "led_1" /\ key_pc' = "ack_1"
  /\ led_command' = TRUE
  /\ queue' = <<Ack>> \o queue
  /\ clock' = TRUE
  /\ UNCHANGED <<scan_set, held, key_events, leds, output, masked, fifo, translator, bit, lost>>

(* The flag itself changes after the call. *)
Flipped(flags) == IF bit \in flags THEN flags \ {bit} ELSE flags \cup {bit}
Slip_CurBits == key_flags \cap Locks
CurBits == Flipped(key_flags \cap Locks)

LedArgument ==
  /\ key_pc = "led_2" /\ key_pc' = "ack_2"
  /\ leds' = CurBits /\ led_command' = FALSE /\ queue' = <<Ack>> \o queue
  /\ clock' = TRUE
  /\ UNCHANGED <<scan_set, held, key_events, output, masked, fifo, translator, bit, lost>>

(* keyboard_read returns the byte that is there, whatever it is, or an error
   when none comes in time; what is not an ACK ends the conversation. *)
ReadAck ==
  /\ key_pc \in {"ack_1", "ack_2"} /\ output # <<>>
  /\ LET answered == output[1] = Ack
     IN  /\ key_pc' = IF key_pc = "ack_1" /\ answered THEN "led_2" ELSE "enable"
         /\ lost' = (lost \/ ~answered)
  /\ output' = <<>>
  /\ UNCHANGED <<scan_set, keyboard, clock, masked, fifo, translator, bit>>

ReadTimeout ==
  /\ key_pc \in {"ack_1", "ack_2"} /\ output = <<>>
  /\ key_pc' = "enable"
  /\ lost' = TRUE
  /\ UNCHANGED <<scan_set, keyboard, controller, fifo, translator, bit>>

EnablePort ==
  /\ key_pc = "enable" /\ key_pc' = "unmask"
  /\ clock' = TRUE
  /\ UNCHANGED <<scan_set, keyboard, output, masked, fifo, translator, bit, lost>>

(* Back in key_set_flags and key_translate. *)
Slip_Unmask ==
  /\ key_pc = "unmask" /\ key_pc' = "next"
  /\ key_flags' = Flipped(key_flags)
  /\ ClearBuffers
  /\ UNCHANGED <<scan_set, keyboard, controller, fifo, bit, lost>>
Unmask ==
  /\ key_pc = "unmask" /\ key_pc' = "next"
  /\ masked' = FALSE
  /\ key_flags' = Flipped(key_flags)
  /\ ClearBuffers
  /\ UNCHANGED <<scan_set, keyboard, output, clock, fifo, bit, lost>>

-----------------------------------------------------------------------------
Program ==
  \/ Translate \/ NextByte \/ Mask \/ DisablePort \/ LedCommand \/ LedArgument
  \/ ReadAck \/ ReadTimeout \/ EnablePort \/ Unmask

User   == \E key \in Keys : Press(key) \/ Release(key)
Device == SendByte \/ Resume

Next == Program \/ Ps2KeyIrq \/ Device \/ User

(* The program runs, the processor takes interrupts and the keyboard sends;
   the user may stop at any time. *)
Spec == Init /\ [][Next]_vars /\ WF_vars(Program) /\ WF_vars(Ps2KeyIrq) /\ WF_vars(Device)

-----------------------------------------------------------------------------
\* The variables have these values.
TypeOK ==
  /\ scan_set \in {1, 2} /\ held \subseteq Keys /\ leds \subseteq Locks /\ Len(output) <= 1
  /\ {led_command, clock, masked, is_break, lost} \subseteq BOOLEAN
  /\ {key_buff_us, key_buff_irq} \subseteq 0 .. KEY_BUFFER_SIZE - 1
  /\ key_flags \subseteq Locks \cup Modifiers \cup {"INSERTBIT"}
  /\ key_pc \in {"loop", "next", "mask", "disable", "led_1", "ack_1", "led_2", "ack_2", "enable",
                 "unmask", "quit"}

(* Whatever is lost, the bytes the keyboard sends are taken: the interrupt does
   not stay masked, and the program does not wait for ever for an answer. *)
KeysArrive == <>[](Quiet \/ key_pc = "quit")
=============================================================================
