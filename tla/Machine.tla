------------------------------ MODULE Machine ------------------------------
(***************************************************************************)
(* The state of the emulated processor and the ways an instruction reaches *)
(* it: memory (devices/ram.c), registers, the stack and the operands the   *)
(* ModR/M byte names (cpu/cpu.c).                                          *)
(*                                                                         *)
(* A machine is a record.  r holds the eight words, h the upper halves of  *)
(* the 32-bit registers, s the segment registers, mem the bytes of memory  *)
(* that were written (the others are 0, as RAMInit leaves them).  seg and  *)
(* over are useseg and segoverride; mode, reg, rm and disp are the fields  *)
(* of the last ModR/M byte.  w is the size of an operand: Byte or Word.    *)
(*                                                                         *)
(* The build defines UNSAFE_RAM: instruction bytes and popped words are    *)
(* read at segment * 16 + offset without wrapping the offset, everything   *)
(* else goes through Read8 and Write8, which keep 20 bits of the address.  *)
(* The addresses of the video memory are those of Vga.tla; the programs    *)
(* run on this machine have no operand there.                              *)
(***************************************************************************)
EXTENDS Alu, Sequences

Byte == 256
Word == Byte * Byte
Meg == 16 * Word

AX == 0
CX == 1
DX == 2
BX == 3
SP == 4
BP == 5
SI == 6
DI == 7
ES == 0
CS == 1
SS == 2
DS == 3
FS == 4
GS == 5

\* What reset86 leaves, before DOS loads a program.
Reset ==
  [r |-> [i \in 0..7 |-> 0], h |-> [i \in 0..7 |-> 0],
   s |-> [i \in 0..5 |-> IF i = CS THEN 65535 ELSE 0], ip |-> 0,
   f |-> [cf |-> 0, pf |-> 0, af |-> 0, zf |-> 0, sf |-> 0, tf |-> 0, ifl |-> 1,
          df |-> 0, of |-> 0, iopl |-> 3, nt |-> 1, ac |-> 0],
   mem |-> <<>>, hlt |-> FALSE, exited |-> FALSE, ports |-> <<>>,
   seg |-> 0, over |-> FALSE, mode |-> 0, reg |-> 0, rm |-> 0, disp |-> 0]

exit_or_restart(m) == [m EXCEPT !.exited = TRUE]

-----------------------------------------------------------------------------
\* ram.c
Put(f, k, v) == [x \in DOMAIN f \cup {k} |-> IF x = k THEN v ELSE f[x]]

cell(m, a) == IF a \in DOMAIN m.mem THEN m.mem[a] ELSE 0
Linear(m, s, o) == m.s[s] * 16 + o

Read8(m, a) == cell(m, a % Meg)
Write8(m, a, v) == [m EXCEPT !.mem = Put(@, a % Meg, v)]

Read16(m, a) == Read8(m, a) + Byte * Read8(m, a + 1)
Write16(m, a, v) == Write8(Write8(m, a, v % Byte), a + 1, v \div Byte)

\* Word accesses by segment value and offset: the second offset wraps.
Read16Long(m, s, o) == Read8(m, s * 16 + o) + Byte * Read8(m, s * 16 + ((o + 1) % Word))
Write16Long(m, s, o, v) ==
  Write8(Write8(m, s * 16 + o, v % Byte), s * 16 + ((o + 1) % Word), v \div Byte)

ReadLong(m, s, o, w) == IF w = Byte THEN Read8(m, s * 16 + o) ELSE Read16Long(m, s, o)
WriteLong(m, s, o, v, w) ==
  IF w = Byte THEN Write8(m, s * 16 + o, v) ELSE Write16Long(m, s, o, v)

Read16Unsafe(m, a) == cell(m, a) + Byte * cell(m, a + 1)

-----------------------------------------------------------------------------
\* Registers: AH, CH, DH, BH are the upper bytes of the first four words.
R(m, i, w) ==
  CASE w = Word -> m.r[i]
    [] w = Byte /\ i < 4 -> m.r[i] % Byte
    [] w = Byte /\ i > 3 -> m.r[i - 4] \div Byte

SetR(m, i, w, v) ==
  CASE w = Word -> [m EXCEPT !.r[i] = v]
    [] w = Byte /\ i < 4 -> [m EXCEPT !.r[i] = @ - (@ % Byte) + v]
    [] w = Byte /\ i > 3 -> [m EXCEPT !.r[i - 4] = (@ % Byte) + Byte * v]

Add(m, i, n) == [m EXCEPT !.r[i] = (@ + n) % Word]

-----------------------------------------------------------------------------
\* The instruction stream.
AdvanceIP(m, n) == [m EXCEPT !.ip = (@ + n) % Word]
Code8(m) == cell(m, Linear(m, CS, m.ip))
Code16(m) == Read16Unsafe(m, Linear(m, CS, m.ip))
Imm(m, w) == IF w = Byte THEN Code8(m) ELSE Code16(m)
SkipImm(m, w) == AdvanceIP(m, IF w = Byte THEN 1 ELSE 2)

-----------------------------------------------------------------------------
\* The stack.  A word pushed at offset FFFFh wraps, one popped there does not.
Bug_push16(m, v) ==
  LET sp == m.r[SP] - 2
  IN  Write16Long([m EXCEPT !.r[SP] = sp], m.s[SS], sp, v)

push16(m, v) ==
  LET sp == (m.r[SP] - 2) % Word
  IN  Write16Long([m EXCEPT !.r[SP] = sp], m.s[SS], sp, v)

Top(m) == Read16Unsafe(m, Linear(m, SS, m.r[SP]))
Drop(m) == Add(m, SP, 2)

\* pop16 into a register, a segment register or ip.
PopR(m, i) == [Drop(m) EXCEPT !.r[i] = Top(m)]
PopS(m, i) == [Drop(m) EXCEPT !.s[i] = Top(m)]
PopIP(m) == [Drop(m) EXCEPT !.ip = Top(m)]

intcall86(m, n) ==
  LET framed == push16(push16(push16(m, makeflags(m.f)), m.s[CS]), m.ip)
  IN  [framed EXCEPT !.s[CS] = Read16Unsafe(framed, 4 * n + 2),
                     !.ip = Read16Unsafe(framed, 4 * n), !.f.ifl = 0, !.f.tf = 0]

-----------------------------------------------------------------------------
\* The ModR/M byte: its fields and a displacement of 0, 1 or 2 bytes.
modregrm(m) ==
  LET b == Code8(m)
      n == AdvanceIP([m EXCEPT !.mode = b \div 64, !.reg = (b \div 8) % 8, !.rm = b % 8], 1)
  IN  CASE n.mode = 1 -> AdvanceIP([n EXCEPT !.disp = Signed(Code8(n), Byte) % Word], 1)
        [] n.mode = 2 \/ (n.mode = 0 /\ n.rm = 6) -> AdvanceIP([n EXCEPT !.disp = Code16(n)], 2)
        [] OTHER -> [n EXCEPT !.disp = 0]

\* The registers the eight forms add; with BP among them the segment is the
\* stack segment, unless a prefix names one.  Without a displacement, form 6 is
\* a bare address.
Addends == <<{BX, SI}, {BX, DI}, {BP, SI}, {BP, DI}, {SI}, {DI}, {BP}, {BX}>>

Based(m) == IF m.mode = 0 /\ m.rm = 6 THEN {} ELSE Addends[m.rm + 1]

useseg(m) == IF BP \in Based(m) /\ ~m.over THEN m.s[SS] ELSE m.seg

Offset(m) ==
  LET term(i) == IF i \in Based(m) THEN m.r[i] ELSE 0
  IN  (term(BX) + term(BP) + term(SI) + term(DI) + m.disp) % Word

getea(m) == useseg(m) * 16 + Offset(m)

\* The operand of the ModR/M byte, in memory or in a register.
Rm(m, w) ==
  IF m.mode = 3 THEN R(m, m.rm, w)
  ELSE IF w = Byte THEN Read8(m, getea(m)) ELSE Read16(m, getea(m))

SetRm(m, w, v) ==
  IF m.mode = 3 THEN SetR(m, m.rm, w, v)
  ELSE IF w = Byte THEN Write8(m, getea(m), v) ELSE Write16(m, getea(m), v)

=============================================================================
