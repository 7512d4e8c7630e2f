----------------------------- MODULE VgaProofs -----------------------------
(***************************************************************************)
(* Proofs about the video adapter.  The invariant has a part for each of   *)
(* the three guests: what a painter, a writer and a mode setter can make   *)
(* of the registers, the memory and the cursor.                            *)
(***************************************************************************)
EXTENDS Vga, TLAPS

EgaRegisters ==
  [index : Byte, setreset : SUBSET (0..7), enable : SUBSET (0..7),
   compare : SUBSET (0..7), map : SUBSET (0..7), mode : SUBSET (0..7),
   care : SUBSET (0..7), bitmask : SUBSET (0..7)]

\* The highest first byte: the second page of the Hercules mode.
MaxFirst == 736 * 1024

RegistersOK ==
  /\ ega \in EgaRegisters
  /\ vidmemory \in Nat
  /\ vidmemory <= MaxFirst
  /\ cursor \in [row : Nat, column : 0..79]
  /\ exited \in BOOLEAN
  /\ caret \in Nat
  /\ ~exited => vidmode \in Drawable

RamOK ==
  /\ DOMAIN vgaram \subseteq 0..(Size - 1)
  /\ vgaram \in [DOMAIN vgaram -> SUBSET (0..7)]

Home == cursor = [row |-> 0, column |-> 0]

\* A painter is in mode 3 or a 16-colour mode; its pictures begin with a whole
\* byte of the window, its pixels and the colour compared with have four bits.
PainterOK ==
  guest = "paints" =>
    /\ Home
    /\ vidmode \in {3} \cup EgaModes
    /\ vidmemory % 8 = 0
    /\ ega.compare \subseteq 0..3
    /\ ega.care \in {{}, 0..3}
    /\ \A a \in DOMAIN vgaram : vgaram[a] \subseteq 0..3

\* A writer is in a mode of characters whose buffer is the one drawn; the cursor
\* is where the next character belongs, and what it typed is in the memory.
Windows == IF 7 \in TextModes THEN {B0000, B8000} ELSE {B8000}

WriterOK ==
  guest = "writes" =>
    /\ vidmode \in CharModes
    /\ vidmode \in {3} \cup TextModes
    /\ vidmemory = Window
    /\ caret = 80 * cursor.row + cursor.column
    /\ B8000 + 2 * caret < Size
    /\ DOMAIN typed \subseteq Windows \X (Written \cup Stored)
    /\ \A at \in DOMAIN typed : cell(at[1] + 2 * at[2]) = typed[at]

SetterOK == guest = "modes" => Home

IInv ==
  /\ guest \in {"paints", "writes", "modes"}
  /\ RegistersOK
  /\ RamOK
  /\ PainterOK
  /\ WriterOK
  /\ SetterOK

-----------------------------------------------------------------------------
LEMMA RegisterNames ==
  /\ DOMAIN GraphicsRegister = {0, 1, 2, 4, 5, 7, 8}
  /\ GraphicsRegister[0] = "setreset"
  /\ GraphicsRegister[1] = "enable"
  /\ GraphicsRegister[2] = "compare"
  /\ GraphicsRegister[4] = "map"
  /\ GraphicsRegister[5] = "mode"
  /\ GraphicsRegister[7] = "care"
  /\ GraphicsRegister[8] = "bitmask"
BY DEF GraphicsRegister

LEMMA IndexSet ==
  ASSUME NEW e \in EgaRegisters, NEW r \in Byte, NEW d, d = [e EXCEPT !.index = r]
  PROVE  /\ d \in EgaRegisters
         /\ d.index = r
         /\ d.setreset = e.setreset
         /\ d.enable = e.enable
         /\ d.compare = e.compare
         /\ d.map = e.map
         /\ d.mode = e.mode
         /\ d.care = e.care
         /\ d.bitmask = e.bitmask
BY SMTT(30) DEF EgaRegisters

\* One write of the graphics controller, field by field.
LEMMA Programmed ==
  ASSUME ega \in EgaRegisters, NEW r \in Byte, NEW v \in SUBSET (0..7),
         SetGraphics(r, v)
  PROVE  /\ ega' \in EgaRegisters
         /\ ega'.index = r
         /\ ega'.setreset = IF r = 0 THEN v ELSE ega.setreset
         /\ ega'.enable = IF r = 1 THEN v ELSE ega.enable
         /\ ega'.compare = IF r = 2 THEN v ELSE ega.compare
         /\ ega'.map = IF r = 4 THEN v ELSE ega.map
         /\ ega'.mode = IF r = 5 THEN v ELSE ega.mode
         /\ ega'.care = IF r = 7 THEN v ELSE ega.care
         /\ ega'.bitmask = IF r = 8 THEN v ELSE ega.bitmask
<1> DEFINE d == [ega EXCEPT !.index = r]
<1>0. /\ d \in EgaRegisters
      /\ d.index = r
      /\ d.setreset = ega.setreset
      /\ d.enable = ega.enable
      /\ d.compare = ega.compare
      /\ d.map = ega.map
      /\ d.mode = ega.mode
      /\ d.care = ega.care
      /\ d.bitmask = ega.bitmask
  BY IndexSet
<1>1. CASE r = 0
  <2>1. ega' = [d EXCEPT !.setreset = v]
    BY <1>1, RegisterNames DEF SetGraphics
  <2> HIDE DEF d
  <2> QED
    BY <1>0, <1>1, <2>1, SMTT(30) DEF EgaRegisters
<1>2. CASE r = 1
  <2>1. ega' = [d EXCEPT !.enable = v]
    BY <1>2, RegisterNames DEF SetGraphics
  <2> HIDE DEF d
  <2> QED
    BY <1>0, <1>2, <2>1, SMTT(30) DEF EgaRegisters
<1>3. CASE r = 2
  <2>1. ega' = [d EXCEPT !.compare = v]
    BY <1>3, RegisterNames DEF SetGraphics
  <2> HIDE DEF d
  <2> QED
    BY <1>0, <1>3, <2>1, SMTT(30) DEF EgaRegisters
<1>4. CASE r = 4
  <2>1. ega' = [d EXCEPT !.map = v]
    BY <1>4, RegisterNames DEF SetGraphics
  <2> HIDE DEF d
  <2> QED
    BY <1>0, <1>4, <2>1, SMTT(30) DEF EgaRegisters
<1>5. CASE r = 5
  <2>1. ega' = [d EXCEPT !.mode = v]
    BY <1>5, RegisterNames DEF SetGraphics
  <2> HIDE DEF d
  <2> QED
    BY <1>0, <1>5, <2>1, SMTT(30) DEF EgaRegisters
<1>6. CASE r = 7
  <2>1. ega' = [d EXCEPT !.care = v]
    BY <1>6, RegisterNames DEF SetGraphics
  <2> HIDE DEF d
  <2> QED
    BY <1>0, <1>6, <2>1, SMTT(30) DEF EgaRegisters
<1>7. CASE r = 8
  <2>1. ega' = [d EXCEPT !.bitmask = v]
    BY <1>7, RegisterNames DEF SetGraphics
  <2> HIDE DEF d
  <2> QED
    BY <1>0, <1>7, <2>1, SMTT(30) DEF EgaRegisters
<1>8. CASE r \notin {0, 1, 2, 4, 5, 7, 8}
  <2>1. ega' = d
    BY <1>8, RegisterNames DEF SetGraphics
  <2> QED
    BY <1>0, <1>8, <2>1
<1> QED
  BY <1>1, <1>2, <1>3, <1>4, <1>5, <1>6, <1>7, <1>8

\* Stores in a set of bytes keep the memory well formed and no other byte changes.
LEMMA StoreOK ==
  ASSUME RamOK, NEW S \in SUBSET (0..(Size - 1)),
         NEW f \in [S -> SUBSET (0..7)],
         vgaram' = [a \in DOMAIN vgaram \cup S |-> IF a \in S THEN f[a] ELSE cell(a)]
  PROVE  /\ RamOK'
         /\ \A a : cell(a)' = IF a \in S THEN f[a] ELSE cell(a)
<1>1. DOMAIN vgaram' = DOMAIN vgaram \cup S
  OBVIOUS
<1>2. \A a \in DOMAIN vgaram' : vgaram'[a] = IF a \in S THEN f[a] ELSE cell(a)
  BY <1>1
<1>3. \A a : cell(a) \in SUBSET (0..7)
  BY DEF RamOK, cell
<1>4. \A a \in DOMAIN vgaram' : vgaram'[a] \in SUBSET (0..7)
  BY <1>2, <1>3
<1>5. vgaram' = [a \in DOMAIN vgaram' |-> vgaram'[a]]
  BY <1>1
<1>6. RamOK'
  <2>1. vgaram' \in [DOMAIN vgaram' -> SUBSET (0..7)]
    BY <1>4, <1>5
  <2>2. DOMAIN vgaram' \subseteq 0..(Size - 1)
    BY <1>1 DEF RamOK
  <2> QED
    BY <2>1, <2>2 DEF RamOK
<1>7. ASSUME NEW a PROVE cell(a)' = IF a \in S THEN f[a] ELSE cell(a)
  <2>1. CASE a \in DOMAIN vgaram'
    BY <2>1, <1>2 DEF cell
  <2>2. CASE a \notin DOMAIN vgaram'
    BY <2>2, <1>1 DEF cell
  <2> QED
    BY <2>1, <2>2
<1> QED
  BY <1>6, <1>7

\* Where the modes of INT 10h/00h begin.
LEMMA FirstBytes ==
  /\ DOMAIN FirstByte = {0, 2, 3, 4, 5, 6, 7, 13, 16, 19}
  /\ \A al \in {0, 2, 3, 4, 5, 6, 13} : FirstByte[al] = B8000
  /\ FirstByte[7] = B0000
  /\ FirstByte[16] = 0
  /\ FirstByte[19] = 0
BY DEF FirstByte

LEMMA SetVideoModeOK ==
  ASSUME RegistersOK, NEW al, SetVideoMode(al), ~exited, UNCHANGED caret
  PROVE  RegistersOK'
<1>1. vidmemory' \in Nat /\ vidmemory' <= MaxFirst
  BY FirstBytes, SMT DEF SetVideoMode, RegistersOK, MaxFirst, B8000, B0000
<1>2. exited' \in BOOLEAN
  BY DEF SetVideoMode
<1>3. ~exited' => vidmode' \in Drawable
  BY FirstBytes DEF SetVideoMode, Drawable
<1> QED
  BY <1>1, <1>2, <1>3 DEF SetVideoMode, OtherThanMode, RegistersOK

LEMMA InitOK == Init => IInv
<1> SUFFICES ASSUME Init PROVE IInv
  OBVIOUS
<1> USE DEF Init, VGA_Init
<1>1. RegistersOK
  <2>1. 0 \in Byte
    BY DEF Byte
  <2>2. ega \in EgaRegisters
    BY <2>1, SMTT(30) DEF EgaRegisters
  <2>3. /\ vidmemory \in Nat
        /\ vidmemory <= MaxFirst
    BY SMT DEF B8000, MaxFirst
  <2>4. vidmode \in Drawable
    BY DEF Drawable
  <2>5. exited \in BOOLEAN
    OBVIOUS
  <2> QED
    BY <2>2, <2>3, <2>4, <2>5 DEF RegistersOK
<1>2. RamOK
  BY DEF RamOK
<1>3. PainterOK
  BY SMT DEF PainterOK, Home, B8000
<1>4. WriterOK
  BY SMT DEF WriterOK, Window, B8000, Size, CharModes
<1>5. SetterOK
  BY DEF SetterOK, Home
<1> QED
  BY <1>1, <1>2, <1>3, <1>4, <1>5 DEF IInv

-----------------------------------------------------------------------------
\* The steps of the painter.
LEMMA PaintProgramOK ==
  ASSUME IInv, Paints, NEW program \in Programs, SetGraphics(program[1], program[2])
  PROVE  IInv'
<1>1. /\ program[1] \in Byte
      /\ program[2] \in SUBSET (0..7)
  BY PaintAssumption
<1>2. /\ ega' \in EgaRegisters
      /\ ega'.compare = IF program[1] = 2 THEN program[2] ELSE ega.compare
      /\ ega'.care = IF program[1] = 7 THEN program[2] ELSE ega.care
  BY <1>1, Programmed DEF IInv, RegistersOK
<1>3. exited' \in BOOLEAN
  BY DEF SetGraphics
<1>4. RegistersOK'
  BY <1>2, <1>3 DEF IInv, RegistersOK, SetGraphics, Paints, Acts
<1>5. RamOK'
  BY DEF IInv, RamOK, SetGraphics
<1>6. PainterOK'
  BY <1>2, PaintAssumption DEF IInv, PainterOK, Home, SetGraphics, Paints, Acts
<1> QED
  BY <1>4, <1>5, <1>6 DEF IInv, WriterOK, SetterOK, Paints, Acts

\* The pixels of a window address are in the memory.
LEMMA PixelsInside ==
  ASSUME RegistersOK, NEW addr \in Bytes
  PROVE  Pixels(addr) \in SUBSET (0..(Size - 1))
<1>1. addr \in Nat /\ addr < WindowSize
  BY PaintAssumption
<1>2. ega.bitmask \in SUBSET (0..7)
  BY DEF RegistersOK, EgaRegisters
<1>3. Size \in Nat
  BY DEF Size
<1>4. 8 * addr + 7 < Size
  BY <1>1, SMT DEF Size, WindowSize
<1>5. ASSUME NEW i \in 0..7 PROVE 8 * addr + 7 - i \in 0..(Size - 1)
  BY <1>1, <1>3, <1>4
<1> QED
  BY <1>2, <1>5 DEF Pixels

\* A store of a guest that may paint gives the pixels of the mask the colour.
LEMMA PaintedPixels ==
  ASSUME RegistersOK, RamOK, MayPaint, NEW addr \in Bytes, CpuStore(addr, {})
  PROVE  /\ RamOK'
         /\ \A a : cell(a)' = IF a \in Pixels(addr) THEN ega.setreset ELSE cell(a)
<1>1. \A a : Painted(cell(a)) = ega.setreset
  BY DEF MayPaint, Painted
<1> DEFINE S == Pixels(addr)
           f == [a \in S |-> ega.setreset]
<1>2. f \in [S -> SUBSET (0..7)]
  BY DEF RegistersOK, EgaRegisters
<1>3. \A a \in S : f[a] = ega.setreset
  OBVIOUS
<1>4. S \in SUBSET (0..(Size - 1))
  BY PixelsInside
<1>5. vgaram' = [a \in DOMAIN vgaram \cup S |-> IF a \in S THEN Painted(cell(a)) ELSE cell(a)]
  BY DEF CpuStore, VGA_write, MayPaint
<1>6. vgaram' = [a \in DOMAIN vgaram \cup S |-> IF a \in S THEN f[a] ELSE cell(a)]
  BY <1>1, <1>5
<1> HIDE DEF S, f
<1>7. RamOK' /\ \A a : cell(a)' = IF a \in S THEN f[a] ELSE cell(a)
  BY <1>2, <1>4, <1>6, StoreOK
<1> QED
  BY <1>3, <1>7 DEF S

LEMMA PaintOK ==
  ASSUME IInv, PaintNext
  PROVE  IInv'
<1> USE DEF IInv
<1>1. CASE Paints /\ vidmode = 3 /\ \E al \in PaintModes : SetVideoMode(al)
  <2>1. PICK al \in PaintModes : SetVideoMode(al)
    BY <1>1
  <2>2. al \in EgaModes
    BY PaintAssumption
  <2>3. RegistersOK'
    BY <1>1, <2>1, SetVideoModeOK DEF Paints, Acts
  <2>4. RamOK'
    BY <2>1 DEF SetVideoMode, OtherThanMode, RamOK
  <2>5. vidmemory' % 8 = 0
    BY <2>1, <2>2, FirstBytes, SMT DEF SetVideoMode, EgaModes, B8000
  <2>6. PainterOK'
    BY <1>1, <2>1, <2>2, <2>5
    DEF SetVideoMode, OtherThanMode, PainterOK, Home, Paints, Acts
  <2> QED
    BY <1>1, <2>3, <2>4, <2>6 DEF WriterOK, SetterOK, Paints, Acts
<1>2. CASE Paints /\ InEga /\ \E program \in Programs :
             program[1] \notin PortRegisters /\ OutWord3CE(program[1], program[2])
  BY <1>2, PaintProgramOK DEF OutWord3CE
<1>3. CASE Paints /\ InEga /\ \E r \in PortRegisters : Out3CE(r)
  <2>1. PICK r \in PortRegisters : Out3CE(r)
    BY <1>3
  <2>2. r \in Byte
    BY PaintAssumption
  <2>3. /\ ega' \in EgaRegisters
        /\ ega'.compare = ega.compare
        /\ ega'.care = ega.care
    BY <2>1, <2>2, IndexSet DEF Out3CE, RegistersOK
  <2>4. RegistersOK'
    BY <1>3, <2>1, <2>3 DEF Out3CE, RegistersOK, Paints, Acts
  <2>5. RamOK'
    BY <2>1 DEF Out3CE, RamOK
  <2>6. PainterOK'
    BY <1>3, <2>1, <2>3 DEF Out3CE, PainterOK, Home, Paints, Acts
  <2> QED
    BY <1>3, <2>4, <2>5, <2>6 DEF WriterOK, SetterOK, Paints, Acts
<1>4. CASE Paints /\ InEga /\ \E program \in Programs :
             program[1] = ega.index /\ program[1] \in PortRegisters /\ Out3CF(program[2])
  BY <1>4, PaintProgramOK DEF Out3CF
<1>5. CASE Paints /\ InEga /\ \E v \in Pages : OutWord3D4(12, v)
  <2>1. PICK v \in Pages : OutWord3D4(12, v)
    BY <1>5
  <2>2. v \in 0..255
    BY PaintAssumption DEF Byte
  <2>3. /\ vidmemory' \in Nat
        /\ vidmemory' <= MaxFirst
        /\ vidmemory' % 8 = 0
    BY <2>1, <2>2, SMT DEF OutWord3D4, Shifted, MaxFirst
  <2>4. (12 # 12) = FALSE
    OBVIOUS
  <2>5. exited' = FALSE
    BY <2>1, <2>4 DEF OutWord3D4
  <2>6. RegistersOK'
    BY <1>5, <2>1, <2>3, <2>5 DEF OutWord3D4, OutCrt, RegistersOK, Paints, Acts
  <2>7. RamOK'
    BY <2>1 DEF OutWord3D4, OutCrt, RamOK
  <2>8. PainterOK'
    BY <1>5, <2>1, <2>3 DEF OutWord3D4, OutCrt, PainterOK, Home, Paints, Acts
  <2> QED
    BY <1>5, <2>6, <2>7, <2>8 DEF WriterOK, SetterOK, Paints, Acts
<1>6. CASE Paints /\ MayPaint /\ \E addr \in Bytes : CpuStore(addr, {})
  <2>1. PICK addr \in Bytes : CpuStore(addr, {})
    BY <1>6
  <2>2. /\ RamOK'
        /\ \A a : cell(a)' = IF a \in Pixels(addr) THEN ega.setreset ELSE cell(a)
    BY <1>6, <2>1, PaintedPixels
  <2>3. RegistersOK'
    BY <1>6, <2>1 DEF CpuStore, RegistersOK, Paints, Acts
  <2>4. \A a \in DOMAIN vgaram' : vgaram'[a] \subseteq 0..3
    <3>1. \A a : cell(a) \subseteq 0..3
      BY <1>6 DEF PainterOK, Paints, Acts, cell
    <3>2. \A a : cell(a)' \subseteq 0..3
      BY <1>6, <2>2, <3>1 DEF MayPaint
    <3>3. \A a \in DOMAIN vgaram' : vgaram'[a] = cell(a)'
      BY DEF cell
    <3> QED
      BY <3>2, <3>3
  <2>5. PainterOK'
    BY <1>6, <2>1, <2>4 DEF CpuStore, PainterOK, Home, Paints, Acts
  <2> QED
    BY <1>6, <2>2, <2>3, <2>5 DEF WriterOK, SetterOK, Paints, Acts
<1> QED
  BY <1>1, <1>2, <1>3, <1>4, <1>5, <1>6 DEF PaintNext

-----------------------------------------------------------------------------
\* The steps of the writer.

\* One byte is one place of one buffer of text.
LEMMA PlacesApart ==
  ASSUME NEW w \in Windows, NEW p \in Written \cup Stored,
         NEW x \in Windows, NEW q \in Written \cup Stored, w + 2 * p = x + 2 * q
  PROVE  w = x /\ p = q
<1>1. p \in Nat /\ q \in Nat
  BY WriteAssumption
<1>2. B0000 \in Nat /\ B8000 \in Nat
  BY DEF B0000, B8000
<1>3. ASSUME w = x PROVE p = q
  BY <1>1, <1>2, <1>3 DEF Windows
<1>4. CASE 7 \in TextModes
  BY <1>1, <1>2, <1>3, <1>4, WriteAssumption DEF Windows
<1>5. CASE 7 \notin TextModes
  BY <1>3, <1>5 DEF Windows
<1> QED
  BY <1>4, <1>5

LEMMA OneByte ==
  ASSUME RamOK, NEW addr \in 0..(Size - 1), NEW c \in SUBSET (0..7),
         vgaram' = [a \in DOMAIN vgaram \cup {addr} |-> IF a = addr THEN c ELSE cell(a)]
  PROVE  /\ RamOK'
         /\ \A a : cell(a)' = IF a = addr THEN c ELSE cell(a)
<1> DEFINE S == {addr}
           f == [a \in S |-> c]
<1>1. f \in [S -> SUBSET (0..7)] /\ S \in SUBSET (0..(Size - 1)) /\ \A a \in S : f[a] = c
  OBVIOUS
<1>2. vgaram' = [a \in DOMAIN vgaram \cup S |-> IF a \in S THEN f[a] ELSE cell(a)]
  OBVIOUS
<1>3. \A a : a \in S <=> a = addr
  OBVIOUS
<1> HIDE DEF S, f
<1>4. RamOK' /\ \A a : cell(a)' = IF a \in S THEN f[a] ELSE cell(a)
  BY <1>1, <1>2, StoreOK
<1> QED
  BY <1>1, <1>3, <1>4

\* What the memory and the typed text are after one more character.
LEMMA TypesOK ==
  ASSUME WriterOK, guest = "writes", NEW place \in Written \cup Stored, NEW c,
         Types(place, c), \A a : cell(a)' = IF a = Window + 2 * place THEN c ELSE cell(a)
  PROVE  /\ DOMAIN typed' \subseteq Windows \X (Written \cup Stored)
         /\ \A at \in DOMAIN typed' : cell(at[1] + 2 * at[2])' = typed'[at]
<1> DEFINE new == <<Window, place>>
<1>1. Window \in Windows
  BY DEF WriterOK, Window, Windows
<1>2. /\ DOMAIN typed' = DOMAIN typed \cup {new}
      /\ \A at \in DOMAIN typed' : typed'[at] = IF at = new THEN c ELSE typed[at]
  BY DEF Types
<1>3. DOMAIN typed' \subseteq Windows \X (Written \cup Stored)
  BY <1>1, <1>2 DEF WriterOK
<1>4. ASSUME NEW at \in DOMAIN typed'
      PROVE  cell(at[1] + 2 * at[2])' = typed'[at]
  <2>1. /\ at = <<at[1], at[2]>>
        /\ at[1] \in Windows
        /\ at[2] \in Written \cup Stored
    BY <1>3
  <2>2. CASE at = new
    BY <1>2, <2>2
  <2>3. CASE at # new
    <3>1. at[1] + 2 * at[2] # Window + 2 * place
      BY <1>1, <2>1, <2>3, PlacesApart
    <3>2. at \in DOMAIN typed /\ typed'[at] = typed[at]
      BY <1>2, <2>3
    <3>3. cell(at[1] + 2 * at[2]) = typed[at]
      BY <3>2 DEF WriterOK
    <3> QED
      BY <3>1, <3>2, <3>3
  <2> QED
    BY <2>2, <2>3
<1> QED
  BY <1>3, <1>4

\* The cursor is where the next character belongs, and that is in the memory.
LEMMA CursorInside ==
  ASSUME RegistersOK, WriterOK, guest = "writes"
  PROVE  /\ CursorCell = Window + 2 * caret
         /\ CursorCell \in 0..(Size - 1)
<1>1. Size \in Nat /\ B8000 \in Nat /\ B0000 \in Nat /\ B0000 <= B8000
  BY SMT DEF Size, B8000, B0000
<1>2. /\ cursor.row \in Nat
      /\ cursor.column \in Nat
      /\ caret \in Nat
  BY DEF RegistersOK
<1>3. Window \in Nat /\ Window <= B8000
  BY <1>1 DEF Window
<1>4. CursorCell = Window + 2 * caret
  BY <1>2, <1>3 DEF CursorCell, WriterOK
<1>5. B8000 + 2 * caret < Size
  BY DEF WriterOK
<1>6. Window + 2 * caret \in 0..(Size - 1)
  BY <1>1, <1>2, <1>3, <1>5
<1> QED
  BY <1>4, <1>6

LEMMA ControlCodes ==
  /\ CR # LF
  /\ ~Printable(CR)
  /\ ~Printable(LF)
BY DEF CR, LF, Printable

\* The cursor and the caret move together.
LEMMA TeletypeMoves ==
  ASSUME RegistersOK, WriterOK, guest = "writes", caret \in Written, NEW c, Teletype(c),
         caret' = CaretAfter(c)
  PROVE  /\ cursor' \in [row : Nat, column : 0..79]
         /\ caret' \in Nat
         /\ caret' = 80 * cursor'.row + cursor'.column
         /\ caret' <= caret + 80
<1>1. /\ cursor \in [row : Nat, column : 0..79]
      /\ caret \in Nat
      /\ caret = 80 * cursor.row + cursor.column
  BY DEF RegistersOK, WriterOK
<1>2. cursor.row \in Nat /\ cursor.column \in 0..79
  BY <1>1
<1>3. CASE c = CR
  <2>1. cursor' = [cursor EXCEPT !.column = 0]
    BY <1>3, ControlCodes DEF Teletype
  <2>2. caret' = caret - (caret % 80)
    BY <1>3, ControlCodes DEF CaretAfter
  <2>3. cursor' \in [row : Nat, column : 0..79] /\ cursor'.row = cursor.row /\ cursor'.column = 0
    BY <1>1, <2>1
  <2>4. caret' = 80 * cursor.row
    BY <1>1, <1>2, <2>2
  <2>5. caret' \in Nat /\ caret' <= caret
    BY <1>1, <1>2, <2>4
  <2> QED
    BY <1>1, <2>3, <2>4, <2>5
<1>4. CASE c = LF
  <2>1. cursor' = [cursor EXCEPT !.row = @ + 1]
    BY <1>4, ControlCodes DEF Teletype
  <2>2. caret' = caret + 80
    BY <1>4, ControlCodes DEF CaretAfter
  <2>3. /\ cursor' \in [row : Nat, column : 0..79]
        /\ cursor'.row = cursor.row + 1
        /\ cursor'.column = cursor.column
    BY <1>1, <2>1
  <2>4. caret' = 80 * (cursor.row + 1) + cursor.column
    BY <1>1, <1>2, <2>2
  <2> QED
    BY <1>1, <2>2, <2>3, <2>4
<1>5. CASE Printable(c)
  <2>1. c # CR /\ c # LF
    BY <1>5, ControlCodes
  <2>2. cursor' = Advanced
    BY <1>5, <2>1 DEF Teletype
  <2>3. caret' = caret + 1
    BY <1>5, <2>1 DEF CaretAfter
  <2>4. CASE cursor.column + 1 >= 80
    <3>1. /\ cursor' \in [row : Nat, column : 0..79]
          /\ cursor'.row = cursor.row + 1
          /\ cursor'.column = 0
      BY <1>2, <2>2, <2>4 DEF Advanced
    <3>2. cursor.column = 79
      BY <1>2, <2>4
    <3>3. caret' = 80 * (cursor.row + 1)
      BY <1>1, <1>2, <2>3, <3>2
    <3>4. caret' = 80 * cursor'.row + cursor'.column
      BY <1>2, <3>1, <3>3
    <3> QED
      BY <1>1, <2>3, <3>1, <3>4
  <2>5. CASE ~(cursor.column + 1 >= 80)
    <3>1. /\ cursor' \in [row : Nat, column : 0..79]
          /\ cursor'.row = cursor.row
          /\ cursor'.column = cursor.column + 1
      BY <1>1, <1>2, <2>2, <2>5 DEF Advanced
    <3>2. caret' = 80 * cursor.row + (cursor.column + 1)
      BY <1>1, <1>2, <2>3
    <3> QED
      BY <1>1, <2>3, <3>1, <3>2
  <2> QED
    BY <2>4, <2>5
<1>6. CASE c # CR /\ c # LF /\ ~Printable(c)
  <2>1. cursor' = cursor /\ caret' = caret
    BY <1>6 DEF Teletype, CaretAfter
  <2> QED
    BY <1>1, <2>1
<1> QED
  BY <1>3, <1>4, <1>5, <1>6

\* What of the invariant depends on the other guests only.
LEMMA OnlyWriter ==
  ASSUME guest' = "writes"
  PROVE  PainterOK' /\ SetterOK' /\ guest' \in {"paints", "writes", "modes"}
BY DEF PainterOK, SetterOK

LEMMA WriteOK ==
  ASSUME IInv, WriteNext
  PROVE  IInv'
<1> USE DEF IInv
<1>0. guest = "writes" /\ ~exited /\ guest' = "writes"
  BY DEF WriteNext, Acts
<1>1. CASE /\ Acts("writes")
           /\ \E al \in TextModes \ {vidmode} : SetVideoMode(al)
           /\ UNCHANGED <<caret, typed>>
  <2>1. PICK al \in TextModes : SetVideoMode(al)
    BY <1>1
  <2>2. al \in CharModes
    BY WriteAssumption
  <2>3. RegistersOK'
    BY <1>0, <1>1, <2>1, SetVideoModeOK
  <2>4. RamOK'
    BY <2>1 DEF SetVideoMode, OtherThanMode, RamOK
  <2>5. vidmemory' = Window'
    BY <2>1, <2>2, FirstBytes DEF SetVideoMode, CharModes, Window
  <2>6. vidmode' = al /\ cursor' = cursor /\ vgaram' = vgaram
    BY <2>1 DEF SetVideoMode, OtherThanMode
  <2>7. WriterOK'
    BY <1>0, <1>1, <2>2, <2>5, <2>6 DEF WriterOK, cell
  <2> QED
    BY <1>0, <2>3, <2>4, <2>7, OnlyWriter
<1>2. CASE /\ Acts("writes")
           /\ \E place \in Places :
                SetCursor(place[1], place[2]) /\ caret' = 80 * place[1] + place[2]
           /\ UNCHANGED typed
  <2>1. PICK place \in Places : SetCursor(place[1], place[2]) /\ caret' = 80 * place[1] + place[2]
    BY <1>2
  <2>2. place[1] \in Nat /\ place[1] <= 255 /\ place[2] \in 0..79
    BY WriteAssumption DEF Byte
  <2>3. cursor' = [row |-> place[1], column |-> place[2]]
    BY <2>1 DEF SetCursor
  <2>4. caret' \in Nat /\ caret' <= 80 * 255 + 79
    BY <2>1, <2>2
  <2>5. RegistersOK'
    BY <2>1, <2>2, <2>3, <2>4 DEF RegistersOK, SetCursor
  <2>6. RamOK'
    BY <2>1 DEF SetCursor, RamOK
  <2>7. B8000 + 2 * caret' < Size
    <3>1. ASSUME NEW n \in Nat, n <= 80 * 255 + 79 PROVE B8000 + 2 * n < Size
      BY <3>1, SMT DEF B8000, Size
    <3> QED
      BY <2>4, <3>1
  <2>8. UNCHANGED <<vidmode, vidmemory, vgaram, typed>>
    BY <1>2, <2>1 DEF SetCursor
  <2>9. caret' = 80 * cursor'.row + cursor'.column
    BY <2>1, <2>3
  <2>10. WriterOK'
    BY <1>0, <2>7, <2>8, <2>9 DEF WriterOK, Window, cell
  <2> QED
    BY <1>0, <2>5, <2>6, <2>10, OnlyWriter
<1>3. CASE /\ Acts("writes")
           /\ caret \in Written
           /\ \E c \in Chars :
                /\ Teletype(c)
                /\ caret' = CaretAfter(c)
                /\ IF Printable(c) THEN Types(caret, c) ELSE UNCHANGED typed
  <2>1. PICK c \in Chars :
          /\ Teletype(c)
          /\ caret' = CaretAfter(c)
          /\ IF Printable(c) THEN Types(caret, c) ELSE UNCHANGED typed
    BY <1>3
  <2>2. /\ cursor' \in [row : Nat, column : 0..79]
        /\ caret' \in Nat
        /\ caret' = 80 * cursor'.row + cursor'.column
        /\ caret' <= caret + 80
    BY <1>0, <1>3, <2>1, TeletypeMoves
  <2>3. RegistersOK'
    BY <2>1, <2>2 DEF RegistersOK, Teletype
  <2>4. B8000 + 2 * caret' < Size
    <3>1. B8000 + 2 * (caret + 80) < Size
      BY <1>3, WriteAssumption
    <3>2. caret \in Nat /\ B8000 \in Nat /\ Size \in Nat
      BY DEF RegistersOK, B8000, Size
    <3> QED
      BY <2>2, <3>1, <3>2
  <2>5. UNCHANGED <<vidmode, vidmemory>>
    BY <2>1 DEF Teletype
  <2>6. CASE Printable(c)
    <3>1. c \in SUBSET (0..7)
      BY WriteAssumption
    <3>2. /\ CursorCell = Window + 2 * caret
          /\ CursorCell \in 0..(Size - 1)
      BY <1>0, CursorInside
    <3>3. vgaram' = [a \in DOMAIN vgaram \cup {CursorCell} |->
                       IF a = CursorCell THEN c ELSE cell(a)]
      BY <2>1, <2>6 DEF Teletype
    <3>4. RamOK' /\ \A a : cell(a)' = IF a = CursorCell THEN c ELSE cell(a)
      BY <3>1, <3>2, <3>3, OneByte
    <3>5. /\ DOMAIN typed' \subseteq Windows \X (Written \cup Stored)
          /\ \A at \in DOMAIN typed' : cell(at[1] + 2 * at[2])' = typed'[at]
      BY <1>0, <1>3, <2>1, <2>6, <3>2, <3>4, TypesOK
    <3>6. WriterOK'
      BY <1>0, <2>2, <2>4, <2>5, <3>5 DEF WriterOK, Window
    <3> QED
      BY <1>0, <2>3, <3>4, <3>6, OnlyWriter
  <2>7. CASE ~Printable(c)
    <3>1. vgaram' = vgaram /\ typed' = typed
      BY <2>1, <2>7 DEF Teletype
    <3>2. RamOK'
      BY <3>1 DEF RamOK
    <3>3. WriterOK'
      BY <1>0, <2>2, <2>4, <2>5, <3>1 DEF WriterOK, Window, cell
    <3> QED
      BY <1>0, <2>3, <3>2, <3>3, OnlyWriter
  <2> QED
    BY <2>6, <2>7
<1>4. CASE /\ Acts("writes")
           /\ \E place \in Stored, c \in {c \in Chars : Printable(c)} :
                CpuStore(Window + 2 * place, c) /\ Types(place, c)
           /\ UNCHANGED caret
  <2>1. PICK place \in Stored, c \in Chars : CpuStore(Window + 2 * place, c) /\ Types(place, c)
    BY <1>4
  <2>2. c \in SUBSET (0..7)
    BY WriteAssumption
  <2>3. Window + 2 * place \in 0..(Size - 1)
    <3>1. place \in Nat /\ B8000 + 2 * place < WindowSize
      BY WriteAssumption
    <3>2. /\ B8000 \in Nat /\ B0000 \in Nat /\ B0000 <= B8000
          /\ Size \in Nat /\ WindowSize \in Nat /\ WindowSize <= Size
      BY SMT DEF B8000, B0000, Size, WindowSize
    <3> QED
      BY <3>1, <3>2 DEF Window
  <2>4. ~InEga
    BY <1>0 DEF WriterOK, InEga, EgaModes, CharModes
  <2>5. vgaram' = [a \in DOMAIN vgaram \cup {Window + 2 * place} |->
                     IF a = Window + 2 * place THEN c ELSE cell(a)]
    BY <2>1, <2>4 DEF CpuStore, VGA_write
  <2>6. RamOK' /\ \A a : cell(a)' = IF a = Window + 2 * place THEN c ELSE cell(a)
    BY <2>2, <2>3, <2>5, OneByte
  <2>7. /\ DOMAIN typed' \subseteq Windows \X (Written \cup Stored)
        /\ \A at \in DOMAIN typed' : cell(at[1] + 2 * at[2])' = typed'[at]
    BY <1>0, <2>1, <2>6, TypesOK
  <2>8. UNCHANGED <<vidmode, vidmemory, cursor, ega, exited, caret>>
    BY <1>4, <2>1 DEF CpuStore
  <2>9. RegistersOK'
    BY <2>8 DEF RegistersOK
  <2>10. WriterOK'
    BY <1>0, <2>7, <2>8 DEF WriterOK, Window
  <2> QED
    BY <1>0, <2>6, <2>9, <2>10, OnlyWriter
<1> QED
  BY <1>1, <1>2, <1>3, <1>4 DEF WriteNext

-----------------------------------------------------------------------------
\* The steps of the mode setter.
LEMMA OnlySetter ==
  ASSUME guest' = "modes", RamOK, Home, UNCHANGED <<vgaram, cursor>>, RegistersOK'
  PROVE  IInv'
BY DEF IInv, RamOK, PainterOK, WriterOK, SetterOK, Home

LEMMA StartOK ==
  ASSUME NEW v \in Byte
  PROVE  Shifted(v) \in Nat /\ Shifted(v) <= MaxFirst
<1>1. v \in Nat /\ v <= 255
  BY DEF Byte
<1> QED
  BY <1>1, SMT DEF Shifted, MaxFirst

LEMMA HerculesOK == HerculesPage \in Nat /\ HerculesPage <= MaxFirst
BY SMT DEF HerculesPage, MaxFirst

LEMMA BuffersOK ==
  /\ B8000 \in Nat
  /\ B0000 \in Nat
  /\ B0000 <= B8000
  /\ B8000 <= MaxFirst
  /\ MaxFirst \in Nat
BY SMT DEF B8000, B0000, MaxFirst

LEMMA ModeOK ==
  ASSUME IInv, ModeNext
  PROVE  IInv'
<1>1. /\ guest = "modes"
      /\ ~exited
      /\ guest' = "modes"
      /\ UNCHANGED <<caret, typed>>
  BY DEF ModeNext, Programming, Acts
<1>2. RegistersOK /\ RamOK /\ Home /\ vidmode \in Drawable
  BY <1>1 DEF IInv, SetterOK, RegistersOK
<1>3. ASSUME NEW al, SetVideoMode(al) PROVE IInv'
  <2>1. RegistersOK'
    BY <1>1, <1>2, <1>3, SetVideoModeOK
  <2> QED
    BY <1>1, <1>2, <1>3, <2>1, OnlySetter DEF SetVideoMode, OtherThanMode
<1>4. ASSUME NEW bx \in VesaModes, SetVesaMode(bx) PROVE IInv'
  <2>1. vidmode' \in Drawable
    BY <1>4, ModeAssumption DEF SetVesaMode
  <2>2. RegistersOK'
    BY <1>1, <1>2, <1>4, <2>1 DEF RegistersOK, SetVesaMode, OtherThanMode
  <2> QED
    BY <1>1, <1>2, <1>4, <2>2, OnlySetter DEF SetVesaMode, OtherThanMode
<1>5. ASSUME NEW v \in MonoModes, Out3B8(v) PROVE IInv'
  <2>1. vidmode' \in Drawable
    BY <1>2, <1>5 DEF Out3B8, Drawable
  <2>2. RegistersOK'
    BY <1>1, <1>2, <1>5, <2>1 DEF RegistersOK, Out3B8, OtherThanMode
  <2> QED
    BY <1>1, <1>2, <1>5, <2>2, OnlySetter DEF Out3B8, OtherThanMode
<1>6. ASSUME NEW v \in ColorModes, Out3D8(v) PROVE IInv'
  <2>1. UNCHANGED <<ega, cursor, vgaram>>
    BY <1>6 DEF Out3D8, machine, OtherThanMode, exit_or_restart
  <2>2. exited' \in BOOLEAN
    BY <1>2, <1>6 DEF Out3D8, machine, exit_or_restart, RegistersOK
  <2>3. vidmemory' \in Nat /\ vidmemory' <= MaxFirst
    BY <1>2, <1>6, BuffersOK DEF Out3D8, machine, exit_or_restart, RegistersOK
  <2>4. ASSUME NEW m \in DOMAIN ColorMode PROVE ColorMode[m] \in {1, 4, 6}
    BY DEF ColorMode
  <2>5. vidmode' \in Drawable
    <3>1. vidmode' = vidmode \/ (v \in DOMAIN ColorMode /\ vidmode' = ColorMode[v])
      BY <1>6 DEF Out3D8, machine, exit_or_restart
    <3>2. ASSUME NEW m \in {1, 4, 6} PROVE m \in Drawable
      BY DEF Drawable
    <3> QED
      BY <1>2, <2>4, <3>1, <3>2
  <2>6. RegistersOK'
    BY <1>1, <1>2, <2>1, <2>2, <2>3, <2>5 DEF RegistersOK
  <2> QED
    BY <1>1, <1>2, <2>1, <2>6, OnlySetter
<1>7. ASSUME NEW r, Out3D4(r) PROVE IInv'
  <2>1. RegistersOK'
    BY <1>1, <1>2, <1>7 DEF RegistersOK, Out3D4, OutCrt
  <2> QED
    BY <1>1, <1>2, <1>7, <2>1, OnlySetter DEF Out3D4, OutCrt
<1>8. ASSUME NEW v \in Starts, Out3D5(v) PROVE IInv'
  <2>1. vidmemory' \in Nat /\ vidmemory' <= MaxFirst
    BY <1>2, <1>8, ModeAssumption, StartOK DEF RegistersOK, Out3D5
  <2>2. exited' \in BOOLEAN
    BY <1>8 DEF Out3D5
  <2>3. RegistersOK'
    BY <1>1, <1>2, <1>8, <2>1, <2>2 DEF RegistersOK, Out3D5, OutCrt
  <2> QED
    BY <1>1, <1>2, <1>8, <2>3, OnlySetter DEF Out3D5, OutCrt
<1>9. ASSUME NEW r, NEW v \in Starts, OutWord3D4(r, v) PROVE IInv'
  <2>1. vidmemory' \in Nat /\ vidmemory' <= MaxFirst
    BY <1>2, <1>9, ModeAssumption, StartOK DEF RegistersOK, OutWord3D4
  <2>2. exited' \in BOOLEAN
    BY <1>9 DEF OutWord3D4
  <2>3. RegistersOK'
    BY <1>1, <1>2, <1>9, <2>1, <2>2 DEF RegistersOK, OutWord3D4, OutCrt
  <2> QED
    BY <1>1, <1>2, <1>9, <2>3, OnlySetter DEF OutWord3D4, OutCrt
<1>10. ASSUME NEW r \in {3, 6}, Out3CE(r) PROVE IInv'
  <2>0. r \in Byte
    BY DEF Byte
  <2>1. ega' \in EgaRegisters
    BY <1>2, <1>10, <2>0, IndexSet DEF RegistersOK, Out3CE
  <2>2. RegistersOK'
    BY <1>1, <1>2, <1>10, <2>1 DEF RegistersOK, Out3CE
  <2> QED
    BY <1>1, <1>2, <1>10, <2>2, OnlySetter DEF Out3CE
<1>11. CASE Out3CF({})
  <2>1. ega.index \in Byte
    BY <1>2 DEF RegistersOK, EgaRegisters
  <2>2. ega' \in EgaRegisters
    BY <1>2, <1>11, <2>1, Programmed DEF RegistersOK, Out3CF
  <2>3. exited' \in BOOLEAN
    BY <1>11 DEF Out3CF, SetGraphics
  <2>4. RegistersOK'
    BY <1>1, <1>2, <1>11, <2>2, <2>3 DEF RegistersOK, Out3CF, SetGraphics
  <2> QED
    BY <1>1, <1>2, <1>11, <2>4, OnlySetter DEF Out3CF, SetGraphics
<1>12. CASE In3DA
  <2>1. RegistersOK'
    BY <1>1, <1>2, <1>12 DEF RegistersOK, In3DA
  <2> QED
    BY <1>1, <1>2, <1>12, <2>1, OnlySetter DEF In3DA
<1>13. CASE VGA_Draw
  <2>1. vidmemory' \in Nat /\ vidmemory' <= MaxFirst
    BY <1>2, <1>13, HerculesOK DEF RegistersOK, VGA_Draw
  <2>2. exited' \in BOOLEAN
    BY <1>13 DEF VGA_Draw
  <2>3. RegistersOK'
    BY <1>1, <1>2, <1>13, <2>1, <2>2 DEF RegistersOK, VGA_Draw, OtherThanMode
  <2> QED
    BY <1>1, <1>2, <1>13, <2>3, OnlySetter DEF VGA_Draw, OtherThanMode
<1> QED
  BY <1>3, <1>4, <1>5, <1>6, <1>7, <1>8, <1>9, <1>10, <1>11, <1>12, <1>13 DEF ModeNext

-----------------------------------------------------------------------------
LEMMA StepOK == IInv /\ [Next]_vars => IInv'
<1> SUFFICES ASSUME IInv, [Next]_vars PROVE IInv'
  OBVIOUS
<1>1. CASE UNCHANGED vars
  BY <1>1 DEF vars, machine, IInv, RegistersOK, RamOK, PainterOK, WriterOK, SetterOK, Home,
              Window, cell
<1> QED
  BY <1>1, PaintOK, WriteOK, ModeOK DEF Next

\* The invariant of the adapter and its three guests.
THEOREM Invariant == Spec => []IInv
BY InitOK, StepOK, PTL DEF Spec

\* No picture begins so late that it ends behind the memory.
LEMMA PicturesInside ==
  ASSUME RegistersOK, ~exited
  PROVE  FirstDrawn + Extent <= Size
<1>1. vidmemory \in Nat /\ vidmemory <= MaxFirst /\ vidmode \in Drawable
  BY DEF RegistersOK
<1>2. FirstDrawn \in Nat /\ FirstDrawn <= MaxFirst
  BY <1>1, BuffersOK, HerculesOK DEF FirstDrawn
<1>3. Extent \in Nat /\ Extent <= 640 * 400
  BY <1>1, SMT DEF Extent, Drawable, CharModes
<1>4. MaxFirst + 640 * 400 <= Size
  BY SMT DEF MaxFirst, Size
<1>5. MaxFirst \in Nat /\ Size \in Nat
  BY SMT DEF MaxFirst, Size
<1> QED
  BY <1>2, <1>3, <1>4, <1>5

\* Every store, every character and every picture of the three guests is inside
\* the video memory, and the machine only runs in modes that can be drawn.
THEOREM MemorySafe == Spec => []MemoryOK
<1>1. ASSUME IInv PROVE CursorCell \in 0..(Size - 1)
  <2> USE <1>1 DEF IInv
  <2>1. CASE guest = "writes"
    BY <2>1, CursorInside
  <2>2. CASE guest # "writes"
    <3>1. CursorCell = vidmemory
      BY <2>2 DEF PainterOK, SetterOK, Home, CursorCell, RegistersOK
    <3>2. vidmemory \in Nat /\ vidmemory <= MaxFirst
      BY DEF RegistersOK
    <3>3. MaxFirst \in Nat /\ Size \in Nat /\ MaxFirst < Size
      BY SMT DEF MaxFirst, Size
    <3> QED
      BY <3>1, <3>2, <3>3
  <2> QED
    BY <2>1, <2>2
<1>2. IInv => MemoryOK
  BY <1>1, PicturesInside DEF IInv, RegistersOK, RamOK, MemoryOK
<1> QED
  BY <1>2, Invariant, PTL

\* Text is read back and drawn where the guest wrote it.
THEOREM TextShown == Spec => []TextIsShown
<1>1. ASSUME IInv, guest = "writes", NEW at \in DOMAIN typed, at[1] = Window
      PROVE  /\ VGA_read(Window + 2 * at[2]) = typed[at]
             /\ at[2] < 2000 => CharAt(at[2] \div 80, at[2] % 80) = typed[at]
  <2>1. /\ vidmode \in CharModes
        /\ vidmemory = Window
        /\ at[2] \in Written \cup Stored
        /\ cell(Window + 2 * at[2]) = typed[at]
    BY <1>1 DEF IInv, WriterOK
  <2>2. at[2] \in Nat
    BY <2>1, WriteAssumption
  <2>3. ~InEga
    BY <2>1 DEF InEga, EgaModes, CharModes
  <2>4. VGA_read(Window + 2 * at[2]) = typed[at]
    BY <2>1, <2>3 DEF VGA_read
  <2>5. Window \in Nat
    BY BuffersOK DEF Window
  <2>6. ASSUME NEW w \in Nat, NEW n \in Nat
        PROVE  w + (n \div 80) * 160 + (n % 80) * 2 = w + 2 * n
    BY <2>6
  <2>7. Window + (at[2] \div 80) * 160 + (at[2] % 80) * 2 = Window + 2 * at[2]
    BY <2>2, <2>5, <2>6
  <2>8. CharAt(at[2] \div 80, at[2] % 80) = typed[at]
    BY <2>1, <2>7 DEF CharAt
  <2> QED
    BY <2>4, <2>8
<1>2. IInv => TextIsShown
  BY <1>1 DEF TextIsShown
<1> QED
  BY <1>2, Invariant, PTL

-----------------------------------------------------------------------------
\* The refinement of EgaContract.
EgaOn == Painting /\ InEga

EgaPixels ==
  [at \in Bytes \X (0..7) |-> IF Painting THEN cell(8 * at[1] + at[2]) ELSE {}]

EgaRegs ==
  [mask |-> {7 - i : i \in ega.bitmask}, color |-> ega.setreset,
   comparing |-> 3 \in ega.mode, plane |-> ReadPlane,
   compare |-> ega.compare, care |-> ega.care]

EgaStart == vidmemory \div 8

EgaLoads == [a \in Bytes |-> {7 - i : i \in VGA_read(a)}]

EgaPicture == [i \in 0..7 |-> PixelAt(i)]

\* Bits counted from the right are pixels counted from the left.
LEMMA Mirror ==
  ASSUME NEW S \in SUBSET (0..7)
  PROVE  {7 - i : i \in S} = {j \in 0..7 : 7 - j \in S}
<1>1. ASSUME NEW i \in S PROVE 7 - i \in 0..7 /\ 7 - (7 - i) = i
  OBVIOUS
<1>2. ASSUME NEW j \in 0..7, 7 - j \in S PROVE j = 7 - (7 - j)
  OBVIOUS
<1> QED
  BY <1>1, <1>2

\* A pixel counted from the right of a byte is one counted from its left.
LEMMA MirrorPixel ==
  ASSUME NEW a \in Nat, NEW j \in 0..7
  PROVE  7 - j \in 0..7 /\ 8 * a + 7 - (7 - j) = 8 * a + j
OBVIOUS

\* A pixel belongs to one byte.
LEMMA PixelOfByte ==
  ASSUME RegistersOK, NEW a \in Bytes, NEW b \in Bytes, NEW j \in 0..7
  PROVE  8 * b + j \in Pixels(a) <=> b = a /\ j \in {7 - i : i \in ega.bitmask}
<1>1. a \in Nat /\ b \in Nat
  BY PaintAssumption
<1>2. ega.bitmask \in SUBSET (0..7)
  BY DEF RegistersOK, EgaRegisters
<1>3. ASSUME NEW i \in ega.bitmask, 8 * b + j = 8 * a + 7 - i PROVE b = a /\ j = 7 - i
  <2>1. i \in 0..7
    BY <1>2
  <2> QED
    BY <1>1, <1>3, <2>1
<1>4. ASSUME NEW i \in ega.bitmask, b = a, j = 7 - i PROVE 8 * b + j = 8 * a + 7 - i
  <2>1. i \in 0..7
    BY <1>2
  <2> QED
    BY <1>1, <1>4, <2>1
<1> QED
  BY <1>3, <1>4 DEF Pixels

\* A load of the painter returns what the contract says of its pixels.
LEMMA LoadRefines ==
  ASSUME IInv, EgaOn, NEW a \in Bytes
  PROVE  EgaLoads[a] = Ega!Load(a)
<1>1. a \in Nat
  BY PaintAssumption
<1>2. Painting /\ InEga
  BY DEF EgaOn
<1>3. /\ \A n : cell(n) \subseteq 0..3
      /\ ega.compare \subseteq 0..3
      /\ ega.care \in {{}, 0..3}
  BY <1>2 DEF IInv, PainterOK, Painting, cell
<1>4. ASSUME NEW j \in 0..7 PROVE EgaPixels[<<a, j>>] = cell(8 * a + j)
  BY <1>2 DEF EgaPixels
<1>5. EgaLoads[a] = {7 - i : i \in VGA_read(a)}
  BY DEF EgaLoads
<1>6. CASE 3 \in ega.mode /\ ega.care = {}
  <2>1. VGA_read(a) = 0..7
    BY <1>2, <1>6 DEF VGA_read
  <2>2. EgaLoads[a] = 0..7
    BY <1>5, <2>1, Mirror
  <2>3. Ega!Load(a) = 0..7
    BY <1>6 DEF Ega!Load, Ega!Positions
  <2> QED
    BY <2>2, <2>3
<1>7. CASE 3 \in ega.mode /\ ega.care # {}
  <2>1. VGA_read(a) = {i \in 0..7 : cell(8 * a + 7 - i) = ega.compare}
    BY <1>2, <1>7 DEF VGA_read
  <2>2. EgaLoads[a] = {j \in 0..7 : 7 - j \in VGA_read(a)}
    BY <1>5, <2>1, Mirror
  <2>3. EgaLoads[a] = {j \in 0..7 : cell(8 * a + j) = ega.compare}
    BY <1>1, <2>1, <2>2, MirrorPixel
  <2>4. ASSUME NEW j \in 0..7
        PROVE  (cell(8 * a + j) = ega.compare) <=>
                 \A q \in ega.care : (q \in EgaPixels[<<a, j>>]) = (q \in ega.compare)
    BY <1>3, <1>4, <1>7
  <2>5. Ega!Load(a) = {j \in 0..7 : \A q \in ega.care :
                         (q \in EgaPixels[<<a, j>>]) = (q \in ega.compare)}
    BY <1>7 DEF Ega!Load, Ega!Positions, EgaPixels
  <2> QED
    BY <2>3, <2>4, <2>5
<1>8. CASE 3 \notin ega.mode
  <2>1. VGA_read(a) = {i \in 0..7 : ReadPlane \in cell(8 * a + 7 - i)}
    BY <1>2, <1>8 DEF VGA_read
  <2>2. EgaLoads[a] = {j \in 0..7 : 7 - j \in VGA_read(a)}
    BY <1>5, <2>1, Mirror
  <2>3. EgaLoads[a] = {j \in 0..7 : ReadPlane \in cell(8 * a + j)}
    BY <1>1, <2>1, <2>2, MirrorPixel
  <2>4. Ega!Load(a) = {j \in 0..7 : ReadPlane \in EgaPixels[<<a, j>>]}
    BY <1>8 DEF Ega!Load, Ega!Positions, EgaPixels
  <2> QED
    BY <1>4, <2>3, <2>4
<1> QED
  BY <1>6, <1>7, <1>8

\* What the painter sees is always what its pixels and registers say.
LEMMA SeenRefines == IInv /\ EgaOn => Ega!Seen
<1> SUFFICES ASSUME IInv, EgaOn PROVE Ega!Seen
  OBVIOUS
<1>1. Painting /\ InEga
  BY DEF EgaOn
<1>2. EgaLoads = [a \in Bytes |-> Ega!Load(a)]
  BY LoadRefines DEF EgaLoads
<1>3. ASSUME vidmemory \div 8 \in Bytes
      PROVE  EgaPicture = [i \in 0..7 |-> EgaPixels[<<vidmemory \div 8, i>>]]
  <2>1. vidmemory \in Nat /\ vidmemory % 8 = 0
    BY <1>1 DEF IInv, RegistersOK, PainterOK, Painting
  <2>2. \A n : cell(n) \cap (0..3) = cell(n)
    BY <1>1 DEF IInv, PainterOK, Painting, cell
  <2>3. ASSUME NEW i \in 0..7 PROVE PixelAt(i) = EgaPixels[<<vidmemory \div 8, i>>]
    <3>1. EgaPixels[<<vidmemory \div 8, i>>] = cell(8 * (vidmemory \div 8) + i)
      BY <1>1, <1>3 DEF EgaPixels
    <3>2. 8 * (vidmemory \div 8) = vidmemory
      BY <2>1
    <3> QED
      BY <2>2, <3>1, <3>2 DEF PixelAt
  <2> QED
    BY <2>3 DEF EgaPicture
<1> QED
  BY <1>1, <1>2, <1>3 DEF Ega!Seen, Ega!Positions, EgaLoads, EgaPicture, EgaPixels

RegNames == {"mask", "color", "comparing", "plane", "compare", "care"}

LEMMA OneField ==
  ASSUME NEW r, NEW s, NEW name \in RegNames,
         r = [n \in RegNames |-> r[n]], s = [n \in RegNames |-> s[n]],
         \A n \in RegNames \ {name} : s[n] = r[n]
  PROVE  s = [r EXCEPT ![name] = s[name]]
<1>1. \A n \in RegNames : s[n] = [r EXCEPT ![name] = s[name]][n]
  OBVIOUS
<1> QED
  BY <1>1

\* The contract's actions without what is seen after them.
EgaStep == Ega!SetMode \/ Ega!Program \/ Ega!Flip \/ \E a \in Bytes : Ega!Store(a)

LEMMA ProgramRefines ==
  ASSUME ega \in EgaRegisters, NEW r \in Byte, NEW v \in SUBSET (0..7), SetGraphics(r, v),
         EgaOn' = EgaOn, EgaPixels' = EgaPixels
  PROVE  EgaStep
<1>0. /\ {7 - i : i \in ega.bitmask}' = {7 - i : i \in ega.bitmask} => EgaRegs'["mask"] = EgaRegs["mask"]
      /\ ega.setreset' = ega.setreset => EgaRegs'["color"] = EgaRegs["color"]
      /\ (3 \in ega.mode)' = (3 \in ega.mode) => EgaRegs'["comparing"] = EgaRegs["comparing"]
      /\ ReadPlane' = ReadPlane => EgaRegs'["plane"] = EgaRegs["plane"]
      /\ ega.compare' = ega.compare => EgaRegs'["compare"] = EgaRegs["compare"]
      /\ ega.care' = ega.care => EgaRegs'["care"] = EgaRegs["care"]
  BY DEF EgaRegs
<1>1. /\ ega'.setreset = IF r = 0 THEN v ELSE ega.setreset
      /\ ega'.compare = IF r = 2 THEN v ELSE ega.compare
      /\ ega'.map = IF r = 4 THEN v ELSE ega.map
      /\ ega'.mode = IF r = 5 THEN v ELSE ega.mode
      /\ ega'.care = IF r = 7 THEN v ELSE ega.care
      /\ ega'.bitmask = IF r = 8 THEN v ELSE ega.bitmask
  BY Programmed
<1>2. vidmemory' = vidmemory
  BY DEF SetGraphics
<1>3. /\ DOMAIN EgaRegs = RegNames
      /\ EgaRegs = [n \in RegNames |-> EgaRegs[n]]
      /\ EgaRegs' = [n \in RegNames |-> EgaRegs'[n]]
  BY DEF EgaRegs, RegNames
<1>4. ASSUME NEW name \in DOMAIN EgaRegs, EgaRegs' = [EgaRegs EXCEPT ![name] = EgaRegs'[name]]
      PROVE  EgaStep
  <2>1. Ega!Program
    BY <1>2, <1>4 DEF Ega!Program, EgaRegs, EgaOn, EgaPixels
  <2> QED
    BY <2>1 DEF EgaStep
<1>5. CASE r = 0
  <2>1. /\ {7 - i : i \in ega.bitmask}' = {7 - i : i \in ega.bitmask}
        /\ (3 \in ega.mode)' = (3 \in ega.mode)
        /\ ReadPlane' = ReadPlane
        /\ ega.compare' = ega.compare
        /\ ega.care' = ega.care
    BY <1>1, <1>5 DEF ReadPlane
  <2>2. \A n \in RegNames \ {"color"} : EgaRegs'[n] = EgaRegs[n]
    BY <1>0, <2>1 DEF RegNames
  <2>3. "color" \in RegNames
    BY DEF RegNames
  <2>4. EgaRegs' = [EgaRegs EXCEPT !["color"] = EgaRegs'["color"]]
    BY <1>3, <2>2, <2>3, OneField
  <2> QED
    BY <1>3, <1>4, <2>3, <2>4
<1>6. CASE r = 2
  <2>1. /\ {7 - i : i \in ega.bitmask}' = {7 - i : i \in ega.bitmask}
        /\ ega.setreset' = ega.setreset
        /\ (3 \in ega.mode)' = (3 \in ega.mode)
        /\ ReadPlane' = ReadPlane
        /\ ega.care' = ega.care
    BY <1>1, <1>6 DEF ReadPlane
  <2>2. \A n \in RegNames \ {"compare"} : EgaRegs'[n] = EgaRegs[n]
    BY <1>0, <2>1 DEF RegNames
  <2>3. "compare" \in RegNames
    BY DEF RegNames
  <2>4. EgaRegs' = [EgaRegs EXCEPT !["compare"] = EgaRegs'["compare"]]
    BY <1>3, <2>2, <2>3, OneField
  <2> QED
    BY <1>3, <1>4, <2>3, <2>4
<1>7. CASE r = 4
  <2>1. /\ {7 - i : i \in ega.bitmask}' = {7 - i : i \in ega.bitmask}
        /\ ega.setreset' = ega.setreset
        /\ (3 \in ega.mode)' = (3 \in ega.mode)
        /\ ega.compare' = ega.compare
        /\ ega.care' = ega.care
    BY <1>1, <1>7 DEF ReadPlane
  <2>2. \A n \in RegNames \ {"plane"} : EgaRegs'[n] = EgaRegs[n]
    BY <1>0, <2>1 DEF RegNames
  <2>3. "plane" \in RegNames
    BY DEF RegNames
  <2>4. EgaRegs' = [EgaRegs EXCEPT !["plane"] = EgaRegs'["plane"]]
    BY <1>3, <2>2, <2>3, OneField
  <2> QED
    BY <1>3, <1>4, <2>3, <2>4
<1>8. CASE r = 5
  <2>1. /\ {7 - i : i \in ega.bitmask}' = {7 - i : i \in ega.bitmask}
        /\ ega.setreset' = ega.setreset
        /\ ReadPlane' = ReadPlane
        /\ ega.compare' = ega.compare
        /\ ega.care' = ega.care
    BY <1>1, <1>8 DEF ReadPlane
  <2>2. \A n \in RegNames \ {"comparing"} : EgaRegs'[n] = EgaRegs[n]
    BY <1>0, <2>1 DEF RegNames
  <2>3. "comparing" \in RegNames
    BY DEF RegNames
  <2>4. EgaRegs' = [EgaRegs EXCEPT !["comparing"] = EgaRegs'["comparing"]]
    BY <1>3, <2>2, <2>3, OneField
  <2> QED
    BY <1>3, <1>4, <2>3, <2>4
<1>9. CASE r = 7
  <2>1. /\ {7 - i : i \in ega.bitmask}' = {7 - i : i \in ega.bitmask}
        /\ ega.setreset' = ega.setreset
        /\ (3 \in ega.mode)' = (3 \in ega.mode)
        /\ ReadPlane' = ReadPlane
        /\ ega.compare' = ega.compare
    BY <1>1, <1>9 DEF ReadPlane
  <2>2. \A n \in RegNames \ {"care"} : EgaRegs'[n] = EgaRegs[n]
    BY <1>0, <2>1 DEF RegNames
  <2>3. "care" \in RegNames
    BY DEF RegNames
  <2>4. EgaRegs' = [EgaRegs EXCEPT !["care"] = EgaRegs'["care"]]
    BY <1>3, <2>2, <2>3, OneField
  <2> QED
    BY <1>3, <1>4, <2>3, <2>4
<1>10. CASE r = 8
  <2>1. /\ ega.setreset' = ega.setreset
        /\ (3 \in ega.mode)' = (3 \in ega.mode)
        /\ ReadPlane' = ReadPlane
        /\ ega.compare' = ega.compare
        /\ ega.care' = ega.care
    BY <1>1, <1>10 DEF ReadPlane
  <2>2. \A n \in RegNames \ {"mask"} : EgaRegs'[n] = EgaRegs[n]
    BY <1>0, <2>1 DEF RegNames
  <2>3. "mask" \in RegNames
    BY DEF RegNames
  <2>4. EgaRegs' = [EgaRegs EXCEPT !["mask"] = EgaRegs'["mask"]]
    BY <1>3, <2>2, <2>3, OneField
  <2> QED
    BY <1>3, <1>4, <2>3, <2>4
<1>11. CASE r \notin {0, 2, 4, 5, 7, 8}
  <2>1. /\ ega.setreset' = ega.setreset
        /\ (3 \in ega.mode)' = (3 \in ega.mode)
        /\ ReadPlane' = ReadPlane
        /\ ega.compare' = ega.compare
        /\ ega.care' = ega.care
    BY <1>1, <1>11 DEF ReadPlane
  <2>2. \A n \in RegNames \ {"mask"} : EgaRegs'[n] = EgaRegs[n]
    BY <1>0, <2>1 DEF RegNames
  <2>3. "mask" \in RegNames
    BY DEF RegNames
  <2>4. EgaRegs' = [EgaRegs EXCEPT !["mask"] = EgaRegs'["mask"]]
    BY <1>3, <2>2, <2>3, OneField
  <2> QED
    BY <1>3, <1>4, <2>3, <2>4
<1> QED
  BY <1>5, <1>6, <1>7, <1>8, <1>9, <1>10, <1>11

LEMMA StoreRefines ==
  ASSUME IInv, Paints, MayPaint, NEW addr \in Bytes, CpuStore(addr, {})
  PROVE  EgaStep
<1>1. /\ Painting /\ Painting'
      /\ UNCHANGED <<vidmode, vidmemory, ega>>
  BY DEF Paints, Acts, Painting, CpuStore
<1>2. EgaOn /\ EgaOn' /\ EgaRegs' = EgaRegs /\ vidmemory' = vidmemory
  BY <1>1 DEF EgaOn, MayPaint, InEga, EgaRegs, ReadPlane
<1>3. \A a : cell(a)' = IF a \in Pixels(addr) THEN ega.setreset ELSE cell(a)
  BY PaintedPixels DEF IInv
<1>4. ASSUME NEW at \in Bytes \X (0..7)
      PROVE  EgaPixels'[at] = IF at[1] = addr /\ at[2] \in EgaRegs.mask
                              THEN EgaRegs.color ELSE EgaPixels[at]
  <2>1. at[1] \in Bytes /\ at[2] \in 0..7
    OBVIOUS
  <2>2. EgaPixels'[at] = cell(8 * at[1] + at[2])' /\ EgaPixels[at] = cell(8 * at[1] + at[2])
    BY <1>1 DEF EgaPixels
  <2>3. 8 * at[1] + at[2] \in Pixels(addr) <=>
          at[1] = addr /\ at[2] \in {7 - i : i \in ega.bitmask}
    <3>1. RegistersOK
      BY DEF IInv
    <3>2. ASSUME NEW b \in Bytes, NEW j \in 0..7
          PROVE  8 * b + j \in Pixels(addr) <=> b = addr /\ j \in {7 - i : i \in ega.bitmask}
      BY <3>1, PixelOfByte
    <3> QED
      BY <2>1, <3>2
  <2>4. EgaRegs.mask = {7 - i : i \in ega.bitmask} /\ EgaRegs.color = ega.setreset
    BY DEF EgaRegs
  <2> QED
    BY <1>3, <2>2, <2>3, <2>4
<1>5. EgaPixels' = [at \in Bytes \X (0..7) |-> EgaPixels'[at]]
  BY DEF EgaPixels
<1>6. EgaPixels' = [at \in Bytes \X (0..7) |->
                      IF at[1] = addr /\ at[2] \in EgaRegs.mask
                      THEN EgaRegs.color ELSE EgaPixels[at]]
  BY <1>4, <1>5
<1>7. Ega!Store(addr)
  BY <1>2, <1>6 DEF Ega!Store, Ega!Positions, EgaOn, EgaRegs, EgaPixels
<1> QED
  BY <1>7 DEF EgaStep

LEMMA FlipRefines ==
  ASSUME EgaOn' = EgaOn, EgaPixels' = EgaPixels, EgaRegs' = EgaRegs,
         EgaOn => EgaStart' = EgaStart \/ \E v \in Pages : EgaStart' = 256 * v
  PROVE  EgaStep
<1>1. Ega!Flip
  BY DEF Ega!Flip, EgaOn, EgaPixels, EgaRegs, EgaStart
<1> QED
  BY <1>1 DEF EgaStep

\* A step of the adapter is one of the contract.
LEMMA StepRefines ==
  ASSUME IInv, Next
  PROVE  EgaStep
<1>1. CASE PaintNext
  <2>1. Paints
    BY <1>1 DEF PaintNext
  <2>2. Painting /\ Painting'
    BY <2>1 DEF Paints, Acts, Painting
  <2>3. ASSUME UNCHANGED vgaram PROVE EgaPixels' = EgaPixels
    BY <2>2, <2>3 DEF EgaPixels, cell
  <2>4. ASSUME vidmode = 3, NEW al \in PaintModes, SetVideoMode(al) PROVE EgaStep
    <3>1. vgaram' = vgaram /\ ega' = ega /\ vidmode' \in EgaModes
      BY <2>4, PaintAssumption DEF SetVideoMode, OtherThanMode
    <3>2. EgaOn' /\ EgaRegs' = EgaRegs
      BY <2>2, <3>1 DEF EgaOn, InEga, EgaRegs, ReadPlane
    <3>3. Ega!SetMode
      BY <2>3, <3>1, <3>2 DEF Ega!SetMode, EgaOn, EgaPixels, EgaRegs
    <3> QED
      BY <3>3 DEF EgaStep
  <2>5. ASSUME NEW program \in Programs, SetGraphics(program[1], program[2]) PROVE EgaStep
    <3>1. program[1] \in Byte /\ program[2] \in SUBSET (0..7)
      BY PaintAssumption
    <3>2. vgaram' = vgaram /\ vidmode' = vidmode
      BY <2>5 DEF SetGraphics
    <3>3. EgaOn' = EgaOn
      BY <2>2, <3>2 DEF EgaOn, InEga
    <3> QED
      BY <2>3, <2>5, <3>1, <3>2, <3>3, ProgramRefines DEF IInv, RegistersOK
  <2>6. ASSUME NEW r \in PortRegisters, Out3CE(r) PROVE EgaStep
    <3>1. r \in Byte
      BY PaintAssumption
    <3>2. /\ ega'.bitmask = ega.bitmask
          /\ ega'.setreset = ega.setreset
          /\ ega'.mode = ega.mode
          /\ ega'.map = ega.map
          /\ ega'.compare = ega.compare
          /\ ega'.care = ega.care
      BY <2>6, <3>1, IndexSet DEF Out3CE, IInv, RegistersOK
    <3>3. vgaram' = vgaram /\ vidmode' = vidmode
      BY <2>6 DEF Out3CE
    <3>4. EgaOn' = EgaOn
      BY <2>2, <3>3 DEF EgaOn, InEga
    <3>5. EgaRegs' = EgaRegs
      BY <3>2 DEF EgaRegs, ReadPlane
    <3>6. EgaStart' = EgaStart
      BY <2>6 DEF Out3CE, EgaStart
    <3> QED
      BY <2>3, <3>3, <3>4, <3>5, <3>6, FlipRefines
  <2>7. ASSUME NEW v \in Pages, OutWord3D4(12, v) PROVE EgaStep
    <3>1. vgaram' = vgaram /\ vidmode' = vidmode /\ ega' = ega
      BY <2>7 DEF OutWord3D4, OutCrt
    <3>2. EgaOn' = EgaOn /\ EgaRegs' = EgaRegs
      BY <2>2, <3>1 DEF EgaOn, InEga, EgaRegs, ReadPlane
    <3>3. v \in 0..255 /\ vidmemory' = v * 2048
      BY <2>7, PaintAssumption DEF OutWord3D4, Shifted, Byte
    <3>4. (v * 2048) \div 8 = 256 * v
      BY <3>3
    <3>5. EgaStart' = 256 * v
      BY <3>3, <3>4 DEF EgaStart
    <3> QED
      BY <2>3, <3>1, <3>2, <3>5, FlipRefines
  <2> QED
    BY <1>1, <2>1, <2>4, <2>5, <2>6, <2>7, StoreRefines DEF PaintNext, OutWord3CE, Out3CF
<1>2. ASSUME guest # "paints", guest' = guest
      PROVE  ~EgaOn /\ EgaOn' = EgaOn /\ EgaPixels' = EgaPixels
  <2>1. EgaOn = FALSE /\ EgaOn' = FALSE
    BY <1>2 DEF EgaOn, Painting
  <2>2. EgaPixels' = EgaPixels
    BY <1>2 DEF EgaPixels, Painting
  <2> QED
    BY <2>1, <2>2
<1>3. ASSUME ega' = ega PROVE EgaRegs' = EgaRegs
  BY <1>3 DEF EgaRegs, ReadPlane
<1>4. CASE WriteNext
  <2>1. guest # "paints" /\ guest' = guest
    BY <1>4 DEF WriteNext, Acts
  <2>2. ega' = ega
    BY <1>4 DEF WriteNext, SetVideoMode, OtherThanMode, SetCursor, Teletype, CpuStore
  <2> QED
    BY <1>2, <1>3, <2>1, <2>2, FlipRefines
<1>5. CASE ModeNext
  <2>1. guest # "paints" /\ guest' = guest
    BY <1>5 DEF ModeNext, Programming, Acts
  <2>2. CASE Out3CF({})
    <3>1. ega \in EgaRegisters /\ ega.index \in Byte
      BY DEF IInv, RegistersOK, EgaRegisters
    <3> QED
      BY <1>2, <2>1, <2>2, <3>1, ProgramRefines DEF Out3CF
  <2>3. ASSUME NEW r \in {3, 6}, Out3CE(r) PROVE EgaStep
    <3>1. r \in Byte
      BY DEF Byte
    <3>2. /\ ega'.bitmask = ega.bitmask
          /\ ega'.setreset = ega.setreset
          /\ ega'.mode = ega.mode
          /\ ega'.map = ega.map
          /\ ega'.compare = ega.compare
          /\ ega'.care = ega.care
      BY <2>3, <3>1, IndexSet DEF Out3CE, IInv, RegistersOK
    <3>3. EgaRegs' = EgaRegs
      BY <3>2 DEF EgaRegs, ReadPlane
    <3> QED
      BY <1>2, <2>1, <3>3, FlipRefines
  <2>4. Out3CF({}) \/ (\E r \in {3, 6} : Out3CE(r)) \/ ega' = ega
    BY <1>5 DEF ModeNext, SetVideoMode, SetVesaMode, Out3B8, Out3D8, Out3D4, Out3D5,
                OutWord3D4, In3DA, VGA_Draw, OtherThanMode, OutCrt, machine, exit_or_restart
  <2> QED
    BY <1>2, <1>3, <2>1, <2>2, <2>3, <2>4, FlipRefines
<1> QED
  BY <1>1, <1>4, <1>5 DEF Next

\* The painting guest gets what EgaContract promises.
THEOREM ImplementsEgaContract == Spec => EgaContractSpec
<1>1. Init => Ega!Init
  <2> SUFFICES ASSUME Init PROVE Ega!Init
    OBVIOUS
  <2>1. ~InEga
    BY DEF Init, VGA_Init, InEga, EgaModes
  <2>2. \A a : cell(a) = {}
    BY DEF Init, VGA_Init, cell
  <2> QED
    BY <2>1, <2>2 DEF Ega!Init, Ega!Positions
<1>2. IInv /\ [Next]_vars /\ (EgaOn' => Ega!Seen') => [Ega!Next]_(Ega!vars)
  <2> SUFFICES ASSUME IInv, [Next]_vars, EgaOn' => Ega!Seen' PROVE [Ega!Next]_(Ega!vars)
    OBVIOUS
  <2>1. CASE Next
    <3>1. EgaStep
      BY <2>1, StepRefines
    <3> QED
      BY <3>1 DEF EgaStep, Ega!Next, EgaOn
  <2>2. CASE UNCHANGED vars
    BY <2>2 DEF vars, machine, Ega!vars, Painting, InEga, cell, ReadPlane, VGA_read, PixelAt
  <2> QED
    BY <2>1, <2>2
<1> QED
  BY <1>1, <1>2, SeenRefines, Invariant, PTL DEF Spec, EgaContractSpec, Ega!Spec

=============================================================================
