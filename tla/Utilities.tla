----------------------------- MODULE Utilities -----------------------------
(***************************************************************************)
(* The utilities that drive a device have the machine to themselves: under *)
(* DOS one program runs, with the devices and the handlers of its own      *)
(* interrupts; and while the loader runs there is nothing else.  A         *)
(* behaviour is a run of one of them; the variables of the others stay as  *)
(* they are.                                                               *)
(***************************************************************************)
EXTENDS XhciReaderProperties, LoaderList, SoundState, KeyboardState, SerialState

CONSTANTS
  MaxHeld,
  m_clusters_in_data_area, SLOTS, ROOT_SLOTS, FOLDER_CLUSTERS, Host, MaxEntries

(* A long name takes a slot at least besides its short name. *)
ASSUME ImageAssumption ==
  /\ {m_clusters_in_data_area, SLOTS, ROOT_SLOTS, FOLDER_CLUSTERS, MaxEntries} \subseteq Nat \ {0}
  /\ \A n \in DOMAIN Host :
       /\ Host[n].folder \in BOOLEAN /\ Host[n].clusters \in Nat /\ Host[n].slots \in Nat \ {0, 1}
       /\ Host[n].inside \in Seq(DOMAIN Host)

VARIABLES
  utility,   \* the program that runs
  call, moving, vector2,
  fat32, fat, fat_file, data, m_free_clusters, stack, made, kept, orphans, spoiled

Sound  == INSTANCE SoundPlayer
Keybd  == INSTANCE Keyboard
Mouse  == INSTANCE SerialMouse
Loader == INSTANCE LoaderHeap
Image  == INSTANCE FatImage

xhciVars  == vars
soundVars == <<file_len, auto_init, prompt, sound_pc, fpos, len, mem, buffer, cur_block,
               irq_fired, card, line, irr, heard>>
keybdVars == <<scan_set, held, key_events, queue, led_command, leds, output, clock, masked,
               key_buffer, key_buff_us, key_buff_irq, scan_buffer, is_break, key_flags, key_pc,
               bit, lost>>
mouseVars == <<to_send, packets, receive, cur_byte, ser_x, ser_y, ser_buttons, info, packet,
               before, whole>>
loaderVars == <<mcb, live, call, moving, vector2>>
imageVars == <<fat32, fat, fat_file, data, m_free_clusters, stack, made, kept, orphans, spoiled>>
all       == <<utility, xhciVars, soundVars, keybdVars, mouseVars, loaderVars, imageVars>>

(* What a program that does not run would start with makes no difference. *)
Machine ==
  /\ utility \in {"gd_xhci", "sblaster", "ps2key", "serial", "loader", "ultimate"}
  /\ Init /\ Sound!Init /\ Keybd!Init /\ Mouse!Init /\ Loader!Init /\ Image!Init
  /\ utility # "gd_xhci" => port_info = PortInfo(CHOOSE items \in Layouts : TRUE)
  /\ utility # "sblaster" => file_len = 0 /\ ~auto_init /\ ~prompt
  /\ utility # "ps2key" => scan_set = 1
  /\ utility # "serial" => to_send = <<>>
  /\ utility # "ultimate" => ~fat32

OnlyXhci   == UNCHANGED <<utility, soundVars, keybdVars, mouseVars, loaderVars, imageVars>>
OnlySound  == UNCHANGED <<utility, xhciVars, keybdVars, mouseVars, loaderVars, imageVars>>
OnlyKeybd  == UNCHANGED <<utility, xhciVars, soundVars, mouseVars, loaderVars, imageVars>>
OnlyMouse  == UNCHANGED <<utility, xhciVars, soundVars, keybdVars, loaderVars, imageVars>>
OnlyLoader == UNCHANGED <<utility, xhciVars, soundVars, keybdVars, mouseVars, imageVars>>
OnlyImage  == UNCHANGED <<utility, xhciVars, soundVars, keybdVars, mouseVars, loaderVars>>

Programs ==
  \/ utility = "gd_xhci" /\ Program /\ OnlyXhci
  \/ utility = "sblaster" /\ Sound!Program /\ OnlySound
  \/ utility = "ps2key" /\ Keybd!Program /\ OnlyKeybd

Devices ==
  \/ utility = "sblaster" /\ Sound!PlayUnit /\ OnlySound
  \/ utility = "ps2key" /\ Keybd!Device /\ OnlyKeybd

Handlers ==
  \/ utility = "sblaster" /\ Sound!IrqHandler /\ OnlySound
  \/ utility = "ps2key" /\ Keybd!Ps2KeyIrq /\ OnlyKeybd

(* What nothing obliges to happen. *)
Others ==
  \/ utility = "gd_xhci" /\ (Controller \/ Interrupt) /\ OnlyXhci
  \/ utility = "ps2key" /\ Keybd!User /\ OnlyKeybd
  \/ utility = "serial" /\ Mouse!Next /\ OnlyMouse
  \/ utility = "loader" /\ Loader!Next /\ OnlyLoader
  \/ utility = "ultimate" /\ Image!Next /\ OnlyImage

Step == Programs \/ Devices \/ Handlers \/ Others

(* The program that runs is not stopped; the card plays, the keyboard sends and
   the processor takes interrupts.  Of the xHCI controller nothing is assumed. *)
Behaviour ==
  /\ Machine /\ [][Step]_all
  /\ WF_all(Programs) /\ WF_all(Devices) /\ WF_all(Handlers)

-----------------------------------------------------------------------------
\* The variables of every program have their values.
MachineTypeOK == TypeOK /\ Sound!TypeOK /\ Keybd!TypeOK /\ Mouse!TypeOK /\ Loader!TypeOK /\
                 Image!TypeOK

(* The volume of the image editor shows and holds what was inserted and not
   deleted, until something is deleted that has no clusters of its own. *)
FilesIntact == Image!FilesIntact

(* Of that volume no cluster is lost but those of entries that found their folder
   full, and the count of free ones is one that can be relied on. *)
SpaceAccounted == Image!SpaceAccounted

(* gd_xhci comes to its end whatever the controller does or does not do, for
   every wait has a time-out; and the player comes to its end although its waits
   have none. *)
UtilityEnds ==
  /\ utility = "gd_xhci" => Ends
  /\ utility = "sblaster" => Sound!Ends

(* The bytes of the keyboard are taken, and the translator comes back to its
   loop or quits. *)
KeysArrive == utility = "ps2key" => Keybd!KeysArrive
=============================================================================
