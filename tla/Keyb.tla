-------------------------------- MODULE Keyb --------------------------------
(***************************************************************************)
(* The keyboard controller and the BIOS keyboard service of                *)
(* src/src/devices/keyb.c: one byte holds the newest scan code, bit 7 set  *)
(* for a release.  The host calls KeyDown and KeyUp, a guest handler reads *)
(* port 60h, INT 16h reads and clears the same byte.                       *)
(***************************************************************************)
EXTENDS Pic

VARIABLES
  lastscancode,      \* uint8_t
  shiftpressed

keybVars == <<lastscancode, shiftpressed>>

Release == 128                   \* bit 7
Shifts == {42, 54}               \* 2Ah, 36h
Code(b) == b % Release           \* b & 0x7F
IsRelease(b) == b >= Release     \* b & 0x80, for a byte

KeybTypeOK ==
  /\ lastscancode \in 0..255
  /\ shiftpressed \in {0, 1}

KeybInit ==
  /\ lastscancode = Release
  /\ shiftpressed = 0

Bug_KeyDown(scancode) ==
  \/ scancode = 0 /\ UNCHANGED <<keybVars, picVars>>
  \/ /\ scancode # 0
     /\ lastscancode' = scancode % 256
     /\ shiftpressed' = IF lastscancode' \in Shifts THEN 1 ELSE shiftpressed
     /\ UNCHANGED picVars

\* The scan code is cut to a byte; 0 stands for a key without a code.
KeyDown(scancode) ==
  \/ scancode = 0 /\ UNCHANGED <<keybVars, picVars>>
  \/ /\ scancode # 0
     /\ lastscancode' = scancode % 256
     /\ shiftpressed' = IF lastscancode' \in Shifts THEN 1 ELSE shiftpressed
     /\ PIC_trigger(1)

Bug_KeyUp(scancode) ==
  \/ scancode = 0 /\ UNCHANGED <<keybVars, picVars>>
  \/ /\ scancode # 0
     /\ shiftpressed' = IF lastscancode \in Shifts THEN 0 ELSE shiftpressed
     /\ lastscancode' = lastscancode + Release
     /\ PIC_trigger(1)

Bug_KeyUpAsDown(scancode) ==
  \/ scancode = 0 /\ UNCHANGED <<keybVars, picVars>>
  \/ /\ scancode # 0
     /\ shiftpressed' = IF lastscancode \in Shifts THEN 0 ELSE shiftpressed
     /\ lastscancode' = Code(scancode)
     /\ PIC_trigger(1)

\* The shift test looks at the previous scan code, not at the released key.
KeyUp(scancode) ==
  \/ scancode = 0 /\ UNCHANGED <<keybVars, picVars>>
  \/ /\ scancode # 0
     /\ shiftpressed' = IF lastscancode \in Shifts THEN 0 ELSE shiftpressed
     /\ lastscancode' = Code(scancode) + Release
     /\ PIC_trigger(1)

\* A read of port 60h; the byte stays.
Keyb_in == lastscancode

\* The letters, digits and shifted digits of getASCII, as scan code and case;
\* its argument is ignored, the newest scan code is looked up.
AsciiKeys == (2..11) \cup (16..25) \cup (30..38) \cup (44..50)
getASCII ==
  IF Code(lastscancode) \in AsciiKeys
  THEN [key |-> Code(lastscancode), shifted |-> shiftpressed = 1]
  ELSE [key |-> 0, shifted |-> FALSE]

Bug_ReadKey == UNCHANGED lastscancode

Bug_ReadKeyCode == lastscancode

\* INT 16h, ah = 0: the key code is taken from the byte whatever its release
\* bit says, and the byte is emptied.  (A byte of 0 would be exit_or_restart(1);
\* KeyDown and KeyUp never leave 0 for a code below 100h.)
ReadKeyCode == Code(lastscancode)
ReadKey == lastscancode' = Release

\* INT 16h, ah = 1: a key is reported while the release bit is clear.
KeyReported == ~IsRelease(lastscancode)

=============================================================================
