-------------------------------- MODULE Vga --------------------------------
(***************************************************************************)
(* The video adapter, src/src/devices/vga.c: the video BIOS (INT 10h), the *)
(* ports, the accesses of the processor to A0000h..BFFFFh and what         *)
(* VGA_Draw puts on the screen.                                            *)
(*                                                                         *)
(* There is one video memory for all modes.  In modes 0Dh and 10h a byte   *)
(* of it is one pixel, a window address stands for eight of them, and a    *)
(* store paints the set/reset colour whatever is stored; in all other      *)
(* modes it is the window itself.  A register or a cell is the set of its  *)
(* bits, so that & and | are \cap and \cup; a cell not in vgaram is 0.     *)
(*                                                                         *)
(* Three guests use the adapter in the ways the games do: one paints in    *)
(* the 16-colour modes, one writes text, one programs modes through every  *)
(* interface there is.  Stored and never used by the code, and left out:   *)
(* the sequencer registers, the function register, ports 3B4h to 3B5h,     *)
(* 3C0h, 3C8h, 3C9h and 3D9h, the mode number at 449h.                     *)
(***************************************************************************)
EXTENDS Integers, FiniteSets

CONSTANTS
  Bytes,             \* the window addresses the painting guest uses
  Programs,          \* the registers and values it programs: <<register, bits>>
  PortRegisters,     \* those it programs with two byte writes
  PaintModes,        \* the modes it sets
  Pages,             \* and the pages it shows: CRT register 0Ch
  TextModes,         \* modes of the writing guest
  Chars,             \* what it writes
  Places,            \* where it sets the cursor: <<row, column>>
  Stored,            \* where it stores a character itself: 80 * row + column
  Written,           \* bounds: the places it writes to,
  MaxTyped,          \* and how many of them
  BiosModes,         \* arguments of INT 10h/00h of the third guest,
  VesaModes,         \* of INT 10h/4F02h,
  ColorModes,        \* and of the mode ports 3D8h
  MonoModes,         \* and 3B8h,
  Starts             \* and CRT register 0Ch

VARIABLES
  guest,             \* "paints", "writes" or "modes"
  vidmode, vidmemory,
  monochrome_mode,
  ega,               \* the graphics controller, with active_ega_reg as index
  active_crt_reg,
  cursor,            \* cursor_row and cursor_column
  vgaram,
  moderegister,
  exited,
  caret, typed       \* history of the writing guest: where the next character
                     \* belongs, and the text of each window

machine == <<vidmode, vidmemory, monochrome_mode, ega, active_crt_reg, cursor,
             vgaram, moderegister, exited>>
vars == <<guest, machine, caret, typed>>

Size == 16 * (64 * 1024 + 1)
B8000 == 96 * 1024       \* offsets in the window
B0000 == 64 * 1024

EgaModes == {13, 16}
CharModes == {0, 2, 3, 7}
InEga == vidmode \in EgaModes

cell(a) == IF a \in DOMAIN vgaram THEN vgaram[a] ELSE {}

VGA_Init ==
  /\ vidmode = 3
  /\ vidmemory = B8000
  /\ monochrome_mode = {}
  /\ ega = [index |-> 0, setreset |-> 0..7, enable |-> {}, compare |-> {}, map |-> {},
            mode |-> {}, care |-> {}, bitmask |-> 0..7]
  /\ active_crt_reg = 0
  /\ cursor = [row |-> 0, column |-> 0]
  /\ vgaram = [a \in {} |-> {}]
  /\ moderegister = {}
  /\ exited = FALSE

exit_or_restart(rest) == exited' = TRUE /\ UNCHANGED rest

-----------------------------------------------------------------------------
\* The window of the processor.

Bug_Pixels(addr) == {8 * addr + i : i \in ega.bitmask}

\* The bit mask counts from the right, the pixels from the left.
Pixels(addr) == {8 * addr + 7 - i : i \in ega.bitmask}

Painted(c) == ((c \cap (0..3)) \ ega.enable) \cup ega.setreset

VGA_write(addr, value) ==
  vgaram' =
    IF InEga
    THEN [a \in DOMAIN vgaram \cup Pixels(addr) |->
            IF a \in Pixels(addr) THEN Painted(cell(a)) ELSE cell(a)]
    ELSE [a \in DOMAIN vgaram \cup {addr} |-> IF a = addr THEN value ELSE cell(a)]

CpuStore(addr, value) ==
  /\ VGA_write(addr, value)
  /\ UNCHANGED <<vidmode, vidmemory, monochrome_mode, ega, active_crt_reg, cursor,
                 moderegister, exited>>

\* 1 << ega_read_map_select: the whole byte is the shift count, so that a plane of 4
\* and more is in no pixel.  C leaves counts of 32 and more open; both the browser and
\* the PC take the low five bits.
ReadPlane ==
  LET Bit(i) == IF i \in ega.map THEN 2^i ELSE 0
  IN  Bit(0) + Bit(1) + Bit(2) + Bit(3) + Bit(4)

\* A colour is compared as a whole byte; don't care is all planes or none.
VGA_read(addr) ==
  CASE ~InEga -> cell(addr)
    [] InEga /\ 3 \in ega.mode /\ ega.care = {} -> 0..7
    [] InEga /\ 3 \in ega.mode /\ ega.care # {} ->
         {i \in 0..7 : cell(8 * addr + 7 - i) = ega.compare}
    [] OTHER -> {i \in 0..7 : ReadPlane \in cell(8 * addr + 7 - i)}

-----------------------------------------------------------------------------
\* Ports.  Register 6 of the graphics controller ends the machine.
GraphicsRegister ==
  [r \in {0, 1, 2, 4, 5, 7, 8} |->
     CASE r = 0 -> "setreset" [] r = 1 -> "enable" [] r = 2 -> "compare"
       [] r = 4 -> "map" [] r = 5 -> "mode" [] r = 7 -> "care" [] r = 8 -> "bitmask"]

SetGraphics(r, v) ==
  /\ ega' = IF r \in DOMAIN GraphicsRegister
            THEN [ega EXCEPT !.index = r, ![GraphicsRegister[r]] = v]
            ELSE [ega EXCEPT !.index = r]
  /\ exited' = (r = 6)
  /\ UNCHANGED <<vidmode, vidmemory, monochrome_mode, active_crt_reg, cursor, vgaram,
                 moderegister>>

Out3CE(r) ==
  /\ ega' = [ega EXCEPT !.index = r]
  /\ UNCHANGED <<vidmode, vidmemory, monochrome_mode, active_crt_reg, cursor, vgaram,
                 moderegister, exited>>

Out3CF(v) == SetGraphics(ega.index, v)
OutWord3CE(r, v) == SetGraphics(r, v)

\* The CRT controller.  A byte write ignores registers 0..0Fh except 0Ch, a
\* word write knows 0Ch alone.
OutCrt ==
  <<vidmode, monochrome_mode, ega, cursor, vgaram, moderegister>>

Out3D4(r) ==
  /\ active_crt_reg' = r
  /\ UNCHANGED <<OutCrt, vidmemory, exited>>

Bug_Shifted(v) == v * 8192
Shifted(v) == v * 2048

Out3D5(v) ==
  /\ vidmemory' = IF active_crt_reg = 12 THEN Shifted(v) ELSE vidmemory
  /\ exited' = (active_crt_reg \notin 0..15)
  /\ UNCHANGED <<OutCrt, active_crt_reg>>

OutWord3D4(r, v) ==
  /\ active_crt_reg' = r
  /\ vidmemory' = IF r = 12 THEN Shifted(v) ELSE vidmemory
  /\ exited' = (r # 12)
  /\ UNCHANGED OutCrt

OtherThanMode == <<ega, active_crt_reg, cursor, vgaram, moderegister>>

\* Port 3B8h: bit 1 is graphics, bit 7 the page.
Out3B8(v) ==
  /\ monochrome_mode' = v
  /\ vidmode' = IF 1 \in v THEN 20 ELSE vidmode
  /\ UNCHANGED <<OtherThanMode, vidmemory, exited>>

ColorMode ==
  [v \in {4, 14, 26, 30, 40, 46} |->
     CASE v \in {4, 14, 46} -> 4 [] v \in {26, 30} -> 6 [] v = 40 -> 1]

Out3D8(v) ==
  \/ /\ v = 0
     /\ UNCHANGED machine
  \/ /\ v \in DOMAIN ColorMode
     /\ vidmode' = ColorMode[v]
     /\ vidmemory' = B8000
     /\ UNCHANGED <<OtherThanMode, monochrome_mode, exited>>
  \/ /\ v \notin DOMAIN ColorMode \cup {0}
     /\ exit_or_restart(<<OtherThanMode, vidmode, vidmemory, monochrome_mode>>)

\* Port 3DAh: every read sees the other value of the retrace bit.
In3DA ==
  /\ moderegister' = {3} \ moderegister
  /\ UNCHANGED <<vidmode, vidmemory, monochrome_mode, ega, active_crt_reg, cursor,
                 vgaram, exited>>

-----------------------------------------------------------------------------
\* The video BIOS.

\* INT 10h/00h.  The mode is assigned before it is known to exist.  Nothing is
\* cleared.
FirstByte ==
  [al \in {0, 2, 3, 4, 5, 6, 7, 13, 16, 19} |->
     CASE al \in {0, 2, 3, 4, 5, 6, 13} -> B8000
       [] al = 7 -> B0000
       [] al \in {16, 19} -> 0]

SetVideoMode(al) ==
  /\ vidmode' = al
  /\ vidmemory' = IF al \in DOMAIN FirstByte THEN FirstByte[al] ELSE vidmemory
  /\ exited' = (al \notin DOMAIN FirstByte)
  /\ UNCHANGED <<OtherThanMode, monochrome_mode>>

\* INT 10h/4F02h: any number is taken.
SetVesaMode(bx) ==
  /\ vidmode' = bx
  /\ UNCHANGED <<OtherThanMode, vidmemory, monochrome_mode, exited>>

SetCursor(row, column) ==
  /\ cursor' = [row |-> row, column |-> column]
  /\ UNCHANGED <<vidmode, vidmemory, monochrome_mode, ega, active_crt_reg, vgaram,
                 moderegister, exited>>

CR == {0, 2, 3}
LF == {1, 3}
Printable(c) == c \cap {5, 6, 7} # {}

Bug_Advanced ==
  IF cursor.column + 1 >= 80 THEN [cursor EXCEPT !.column = 0]
  ELSE [cursor EXCEPT !.column = @ + 1]

\* At the end of a line the cursor goes to the next one; there is no last line.
Advanced ==
  IF cursor.column + 1 >= 80 THEN [row |-> cursor.row + 1, column |-> 0]
  ELSE [cursor EXCEPT !.column = @ + 1]

CursorCell == vidmemory + cursor.row * 160 + cursor.column * 2

Teletype(c) ==
  /\ cursor' = CASE c = CR -> [cursor EXCEPT !.column = 0]
                 [] c = LF -> [cursor EXCEPT !.row = @ + 1]
                 [] Printable(c) -> Advanced
                 [] OTHER -> cursor
  /\ vgaram' = IF Printable(c)
               THEN [a \in DOMAIN vgaram \cup {CursorCell} |->
                       IF a = CursorCell THEN c ELSE cell(a)]
               ELSE vgaram
  /\ UNCHANGED <<vidmode, vidmemory, monochrome_mode, ega, active_crt_reg, moderegister,
                 exited>>

-----------------------------------------------------------------------------
\* The screen.  Modes 4 to 6 and 100h do not look at vidmemory.
Drawable == {0, 1, 2, 3, 4, 5, 6, 7, 13, 16, 19, 20, 256}

HerculesPage == 704 * 1024 + (IF 7 \in monochrome_mode THEN 32 * 1024 ELSE 0)

FirstDrawn ==
  CASE vidmode \in {4, 5, 6} -> B8000
    [] vidmode = 20 -> HerculesPage
    [] vidmode = 256 -> 0
    [] OTHER -> vidmemory

\* How much of the memory a picture reads.
Extent ==
  CASE vidmode \in CharModes -> 24 * 160 + 79 * 2 + 1
    [] vidmode = 1 -> 24 * 80 + 39 * 2 + 1
    [] vidmode \in {4, 5, 6} -> 8 * 1024 + 99 * 80 + 80
    [] vidmode \in {13, 19} -> 320 * 200
    [] vidmode = 16 -> 640 * 350
    [] vidmode = 20 -> 3 * 8 * 1024 + 86 * 90 + 90
    [] vidmode = 256 -> 640 * 400

VGA_Draw ==
  /\ vidmemory' = IF vidmode = 20 THEN HerculesPage ELSE vidmemory
  /\ exited' = (vidmode \notin Drawable)
  /\ UNCHANGED <<OtherThanMode, vidmode, monochrome_mode>>

\* The palette index of a pixel of mode 0Dh or 10h, and a character.
PixelAt(n) == IF vidmode = 13 THEN cell(vidmemory + n) \cap (0..3) ELSE cell(vidmemory + n)
CharAt(row, column) == cell(vidmemory + row * 160 + column * 2)

-----------------------------------------------------------------------------
\* What the guests ask for.
WindowSize == 128 * 1024
Byte == 0..255

\* A colour has four bits, and VGA_read knows don't care for all planes or none.
ASSUME PaintAssumption ==
  /\ \A addr \in Bytes : addr \in Nat /\ addr < WindowSize
  /\ PaintModes \subseteq EgaModes
  /\ Pages \subseteq Byte
  /\ Programs \subseteq Byte \X SUBSET (0..7)
  /\ \A program \in Programs :
       /\ program[1] = 2 => program[2] \subseteq 0..3
       /\ program[1] = 7 => program[2] \in {{}, 0..3}
  /\ PortRegisters \subseteq Byte

\* The writing guest stops a line before the end of the memory.  Behind B8000h
\* both text buffers have the same bytes: it uses one only as the same place.
ASSUME WriteAssumption ==
  /\ TextModes \subseteq CharModes
  /\ Chars \subseteq SUBSET (0..7)
  /\ Places \subseteq Byte \X (0..79)
  /\ \A place \in Stored : place \in Nat /\ B8000 + 2 * place < WindowSize
  /\ \A place \in Written : place \in Nat /\ B8000 + 2 * (place + 80) < Size
  /\ 7 \in TextModes =>
       \A high, low \in Written \cup Stored : B0000 + 2 * high # B8000 + 2 * low

ASSUME ModeAssumption ==
  /\ VesaModes \subseteq Drawable
  /\ Starts \subseteq Byte

-----------------------------------------------------------------------------
\* A guest that paints enables set/reset in all planes and sets a colour first;
\* it switches modes only to begin.
MayPaint == InEga /\ ega.enable = 0..3 /\ ega.setreset \subseteq 0..3

Acts(who) ==
  /\ guest = who
  /\ ~exited
  /\ UNCHANGED guest

Paints == Acts("paints") /\ UNCHANGED <<caret, typed>>

PaintNext ==
  \/ Paints /\ vidmode = 3 /\ \E al \in PaintModes : SetVideoMode(al)
  \/ Paints /\ InEga /\ \E program \in Programs :
       program[1] \notin PortRegisters /\ OutWord3CE(program[1], program[2])
  \/ Paints /\ InEga /\ \E r \in PortRegisters : Out3CE(r)
  \/ Paints /\ InEga /\ \E program \in Programs :
       program[1] = ega.index /\ program[1] \in PortRegisters /\ Out3CF(program[2])
  \/ Paints /\ InEga /\ \E v \in Pages : OutWord3D4(12, v)
  \/ Paints /\ MayPaint /\ \E addr \in Bytes : CpuStore(addr, {})

\* Where the buffer of a text mode is on a PC, and the text with one more
\* character.
Window == IF vidmode = 7 THEN B0000 ELSE B8000

Types(place, c) ==
  /\ typed' = [at \in DOMAIN typed \cup {<<Window, place>>} |->
                 IF at = <<Window, place>> THEN c ELSE typed[at]]
  /\ Cardinality(DOMAIN typed') <= MaxTyped

CaretAfter(c) ==
  CASE c = CR -> caret - (caret % 80)
    [] c = LF -> caret + 80
    [] Printable(c) -> caret + 1
    [] OTHER -> caret

WriteNext ==
  \/ /\ Acts("writes")
     /\ \E al \in TextModes \ {vidmode} : SetVideoMode(al)
     /\ UNCHANGED <<caret, typed>>
  \/ /\ Acts("writes")
     /\ \E place \in Places : SetCursor(place[1], place[2]) /\ caret' = 80 * place[1] + place[2]
     /\ UNCHANGED typed
  \/ /\ Acts("writes")
     /\ caret \in Written
     /\ \E c \in Chars :
          /\ Teletype(c)
          /\ caret' = CaretAfter(c)
          /\ IF Printable(c) THEN Types(caret, c) ELSE UNCHANGED typed
  \/ /\ Acts("writes")
     /\ \E place \in Stored, c \in {c \in Chars : Printable(c)} :
          CpuStore(Window + 2 * place, c) /\ Types(place, c)
     /\ UNCHANGED caret

Programming == Acts("modes") /\ UNCHANGED <<caret, typed>>

ModeNext ==
  \/ Programming /\ \E al \in BiosModes : SetVideoMode(al)
  \/ Programming /\ \E bx \in VesaModes : SetVesaMode(bx)
  \/ Programming /\ \E v \in MonoModes : Out3B8(v)
  \/ Programming /\ \E v \in ColorModes : Out3D8(v)
  \/ Programming /\ \E r \in {1, 12, 16} : Out3D4(r)
  \/ Programming /\ \E v \in Starts : Out3D5(v)
  \/ Programming /\ \E r \in {1, 12}, v \in Starts : OutWord3D4(r, v)
  \/ Programming /\ \E r \in {3, 6} : Out3CE(r)
  \/ Programming /\ Out3CF({})
  \/ Programming /\ In3DA
  \/ Programming /\ VGA_Draw

Init ==
  /\ VGA_Init
  /\ guest \in {"paints", "writes", "modes"}
  /\ caret = 0
  /\ typed = [at \in {} |-> {}]

Next == PaintNext \/ WriteNext \/ ModeNext

Spec == Init /\ [][Next]_vars

-----------------------------------------------------------------------------
\* Every picture is drawn from inside the video memory, every store and every
\* character of the guests falls inside it, and while the machine runs it is
\* in a mode that can be drawn: a mode that cannot ends the program at the
\* next picture, in a call the guest did not make.
MemoryOK ==
  /\ DOMAIN vgaram \subseteq 0..(Size - 1)
  /\ vgaram \in [DOMAIN vgaram -> SUBSET (0..7)]
  /\ cursor \in [row : Nat, column : 0..79]
  /\ CursorCell \in 0..(Size - 1)
  /\ ~exited => vidmode \in Drawable /\ FirstDrawn + Extent <= Size

\* Text is where it was written: a character that went through the teletype
\* function or was stored in the text buffer is on the screen in its row and
\* column, and a load from the buffer returns it, also after other text modes
\* were set.  Rows below the last one are written and never scrolled up.
TextIsShown ==
  guest = "writes" =>
    \A at \in DOMAIN typed :
      at[1] = Window =>
        /\ VGA_read(Window + 2 * at[2]) = typed[at]
        /\ at[2] < 2000 => CharAt(at[2] \div 80, at[2] % 80) = typed[at]

\* The pixel arithmetic gives the painting guest what EgaContract promises:
\* masks, colours, plane and colour reads and page flips agree with each other
\* and with the picture, in both 16-colour modes.
Painting == guest = "paints"

Ega == INSTANCE EgaContract WITH
  Planes <- 0..3,
  on <- Painting /\ InEga,
  pixels <- [at \in Bytes \X (0..7) |-> IF Painting THEN cell(8 * at[1] + at[2]) ELSE {}],
  regs <- [mask |-> {7 - i : i \in ega.bitmask}, color |-> ega.setreset,
           comparing |-> 3 \in ega.mode, plane |-> ReadPlane,
           compare |-> ega.compare, care |-> ega.care],
  start <- vidmemory \div 8,
  loads <- [a \in Bytes |-> {7 - i : i \in VGA_read(a)}],
  picture <- [i \in 0..7 |-> PixelAt(i)]

EgaContractSpec == Ega!Spec

=============================================================================
