------------------------------- MODULE Cpu32 -------------------------------
(***************************************************************************)
(* The instructions behind the prefix 66h (cpu/opcode66.c): the few with   *)
(* 32-bit operands the emulated programs use.  A double word is a pair     *)
(* <<low word, high word>>.                                                *)
(***************************************************************************)
EXTENDS Cpu

R32(m, i) == <<m.r[i], m.h[i]>>
SetR32(m, i, v) == [m EXCEPT !.r[i] = v[1], !.h[i] = v[2]]

Rm32(m) ==
  IF m.mode = 3 THEN R32(m, m.rm) ELSE <<Read16(m, getea(m)), Read16(m, getea(m) + 2)>>

SetRm32(m, v) ==
  IF m.mode = 3 THEN SetR32(m, m.rm, v)
  ELSE Write16(Write16(m, getea(m), v[1]), getea(m) + 2, v[2])

push32(m, v) ==
  LET sp == (m.r[SP] - 4) % Word
      n == [m EXCEPT !.r[SP] = sp]
  IN  Write16Long(Write16Long(n, m.s[SS], sp, v[1]), m.s[SS], (sp + 2) % Word, v[2])

Top32(m) == <<Top(m), Read16Unsafe(m, Linear(m, SS, m.r[SP]) + 2)>>
Drop32(m) == Add(m, SP, 4)

Code32(m) == <<Code16(m), Read16Unsafe(m, Linear(m, CS, m.ip) + 2)>>

-----------------------------------------------------------------------------
flag_szp32(f, v) ==
  [f EXCEPT !.zf = Bool(v = <<0, 0>>), !.sf = Sign(v[2], Word), !.pf = parity(v[1])]

flag_logic32(f, v) == [flag_szp32(f, v) EXCEPT !.cf = 0, !.of = 0]

\* Sum and difference word by word: of and cf are those of the upper words.
flag_add32(f, a, b) ==
  LET lo == flag_adc(f, a[1], b[1], 0, Word)
      hi == flag_adc(lo, a[2], b[2], lo.cf, Word)
      sum == <<(a[1] + b[1]) % Word, (a[2] + b[2] + lo.cf) % Word>>
  IN  [flag_szp32(hi, sum) EXCEPT !.af = lo.af]

flag_sub32(f, a, b) ==
  LET lo == a[1] - b[1]
      hi == a[2] - b[2] - Bool(lo < 0)
      dst == <<lo % Word, hi % Word>>
  IN  [flag_szp32(f, dst) EXCEPT
         !.cf = Bool(hi < 0),
         !.of = Bool(Sign(hi, Word) # Sign(a[2], Word) /\ Sign(a[2], Word) # Sign(b[2], Word)),
         !.af = (Bit4(a[1]) + Bit4(b[1]) + Bit4(lo)) % 2]

\* The function returns 16 bits of the sum: INC of a 32-bit register clears its
\* upper half.
op_add32(a, b) == <<(a[1] + b[1]) % Word, 0>>

Xor32(a, b) == <<bitwise(a[1], b[1], Xor), bitwise(a[2], b[2], Xor)>>

-----------------------------------------------------------------------------
Twice(v, bit) == <<((2 * v[1]) % Word) + bit, ((2 * v[2]) % Word) + Sign(v[1], Word)>>
Half(v, bit) == <<v[1] \div 2 + 32768 * (v[2] % 2), v[2] \div 2 + 32768 * bit>>

\* One step on <<value, carry, sticky>>.  ROR extends the sign of the bit it
\* moves to the top, and from the first one on only ones follow it.
ShiftStep32(reg, x) ==
  LET v == x[1]
      top == Sign(v[2], Word)
      low == v[1] % 2
      sticky == Bool(x[3] = 1 \/ low = 1)
  IN  CASE reg = 0 -> <<Twice(v, top), top, 0>>
        [] reg = 1 -> <<Half(v, sticky), low, sticky>>
        [] reg = 2 -> <<Twice(v, x[2]), top, 0>>
        [] reg = 3 -> <<Half(v, x[2]), low, 0>>
        [] reg = 4 -> <<Twice(v, 0), top, 0>>
        [] reg = 5 -> <<Half(v, 0), low, 0>>
        [] reg = 7 -> <<Half(v, top), low, 0>>

\* of is left at 255 or 254 by a ROR that moved a one.
ShiftOverflow32(reg, v, end) ==
  LET top == Sign(end[1][2], Word)
      second == (end[1][2] \div 16384) % 2
  IN  CASE reg \in {0, 2, 4} -> Bool(end[2] # top)
        [] reg = 1 /\ end[3] = 1 -> 255 - second
        [] reg = 3 \/ (reg = 1 /\ end[3] = 0) -> Bool(top # second)
        [] reg = 5 -> Sign(v[2], Word)
        [] reg = 7 -> 0

op_grp2_32(f, reg, v, cnt) ==
  LET n == cnt % 32
      shift[i \in 0..31] == IF i = 0 THEN <<v, f.cf, 0>> ELSE ShiftStep32(reg, shift[i - 1])
      end == shift[n]
      carried == [f EXCEPT !.cf = end[2],
                           !.of = IF n = 1 THEN ShiftOverflow32(reg, v, end) ELSE @]
  IN  IF cnt = 0 THEN [res |-> v, f |-> f]
      ELSE [res |-> end[1], f |-> IF reg >= 4 THEN flag_szp32(carried, end[1]) ELSE carried]

-----------------------------------------------------------------------------
\* SHRD: the bits of the register are shifted into the top of the operand.
shrd(m) ==
  LET d == modregrm(m)
      step[i \in 0..31] ==
        IF i = 0 THEN <<R32(d, d.reg), Rm32(d)>>
        ELSE <<Half(step[i - 1][1], 0), Half(step[i - 1][2], step[i - 1][1][1] % 2)>>
      v == step[Code8(d) % 32][2]
  IN  SetF(SetRm32(AdvanceIP(d, 1), v), flag_logic32(d.f, v))

\* BSR: the highest bit that is set; an operand of 0 leaves the register.
bsr(m) ==
  LET d == modregrm(m)
      v == Rm32(d)
      highest(x) == CHOOSE n \in 0..15 : 2 ^ n <= x /\ x < 2 ^ (n + 1)
  IN  IF v = <<0, 0>> THEN [d EXCEPT !.f.zf = 1]
      ELSE SetR32([d EXCEPT !.f.zf = 0], d.reg,
                  <<IF v[2] # 0 THEN 16 + highest(v[2]) ELSE highest(v[1]), 0>>)

Push64(x, m, i, j) == push32(push32(x, R32(m, i)), R32(m, j))
PUSHAD(m) == Push64(Push64(Push64(Push64(m, m, AX, CX), m, DX, BX), m, SP, BP), m, SI, DI)

Pop32(m, i) == SetR32(Drop32(m), i, Top32(m))

POPAD(m) ==
  Pop32(Pop32(Pop32(Pop32(Drop32(Pop32(Pop32(Pop32(m, DI), SI), BP)), BX), DX), CX), AX)

opcode66(m0) ==
  LET op == Code8(m0)
      m == AdvanceIP(m0, 1)
      d == modregrm(m)
      second == AdvanceIP(m, 1)
  IN  CASE op = 15 /\ Code8(m) = 172 -> shrd(second)
        [] op = 15 /\ Code8(m) = 189 -> bsr(second)
        [] op = 51 -> LET v == Xor32(R32(d, d.reg), Rm32(d))
                      IN  SetF(SetR32(d, d.reg, v), flag_logic32(d.f, v))
        [] op = 53 -> LET v == Xor32(R32(m, AX), Code32(m))
                      IN  SetF(SetR32(AdvanceIP(m, 4), AX, v), flag_logic32(m.f, v))
        [] op = 61 -> SetF(AdvanceIP(m, 4), flag_sub32(m.f, R32(m, AX), Code32(m)))
        [] op \in 64..71 -> LET v == R32(m, op % 8)
                                f == flag_add32(m.f, v, <<1, 0>>)
                            IN  SetF(SetR32(m, op % 8, op_add32(v, <<1, 0>>)),
                                     [f EXCEPT !.cf = m.f.cf])
        [] op \in 80..87 -> push32(m, R32(m, op % 8))
        [] op \in 88..95 -> Pop32(m, op % 8)
        [] op = 96 -> PUSHAD(m)
        [] op = 97 -> POPAD(m)
        [] op = 137 -> SetRm32(d, R32(d, d.reg))
        [] op = 139 -> SetR32(d, d.reg, Rm32(d))
        [] op = 156 -> push32(m, <<makeflags(m.f), IF m.f.of > 1 THEN 7 ELSE 4 * m.f.ac>>)
        [] op = 157 -> SetF(Drop32(m), [decodeflags(Top32(m)[1])
                                          EXCEPT !.ac = (Top32(m)[2] \div 4) % 2])
        [] op = 199 -> LET lo == Read16Long(d, d.s[CS], d.ip)
                           hi == Read16Long(d, d.s[CS], (d.ip + 2) % Word)
                       IN  AdvanceIP(SetRm32(d, <<lo, hi>>), 4)
        [] op = 211 -> LET cnt == R(d, CX, Byte)
                           x == op_grp2_32(d.f, d.reg, Rm32(d), cnt)
                       IN  IF d.reg = 6 /\ cnt # 0 THEN exit_or_restart(d)
                                                   ELSE SetRm32(SetF(d, x.f), x.res)
        [] OTHER -> exit_or_restart(m)

=============================================================================
