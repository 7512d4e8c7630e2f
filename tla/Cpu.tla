-------------------------------- MODULE Cpu --------------------------------
(***************************************************************************)
(* The instructions exec86 executes (cpu/cpu.c): every operator takes the  *)
(* machine with ip behind the opcode and returns the machine after the     *)
(* instruction.  An opcode the switch does not know ends the program.      *)
(***************************************************************************)
EXTENDS RepOps

SetF(m, f) == [m EXCEPT !.f = f]

\* The operations on two operands: a result of size w and the flags.
Logic(f, v, w) == [v |-> v, f |-> flag_logic(f, v, w)]

op_add(f, a, b, w) == [v |-> (a + b) % w, f |-> flag_adc(f, a, b, 0, w)]
op_or(f, a, b, w) == Logic(f, bitwise(a, b, Or), w)

Bug_op_adc(f, a, b, w) == [v |-> (a + b + f.cf) % w, f |-> flag_adc(f, a, b, 0, w)]
op_adc(f, a, b, w) == [v |-> (a + b + f.cf) % w, f |-> flag_adc(f, a, b, f.cf, w)]

op_sbb(f, a, b, w) == [v |-> (a - b - f.cf) % w, f |-> flag_sbb(f, a, b, f.cf, w)]

op_and(f, a, b, w) == Logic(f, bitwise(a, b, And), w)
op_sub(f, a, b, w) == [v |-> (a - b) % w, f |-> flag_sub(f, a, b, w)]
op_xor(f, a, b, w) == Logic(f, bitwise(a, b, Xor), w)

\* A comparison has no result to store.
op_cmp(f, a, b, w) == [f |-> flag_sub(f, a, b, w)]
op_test(f, a, b, w) == [f |-> flag_logic(f, bitwise(a, b, And), w)]

Size(op) == IF op % 2 = 0 THEN Byte ELSE Word

StoreRm(m, w, x) == IF "v" \in DOMAIN x THEN SetRm(SetF(m, x.f), w, x.v) ELSE SetF(m, x.f)
StoreR(m, i, w, x) == IF "v" \in DOMAIN x THEN SetR(SetF(m, x.f), i, w, x.v) ELSE SetF(m, x.f)

\* The eight operations in the order of the opcodes and of the reg field, and TEST.
Operation(k, f, a, b, w) ==
  CASE k = 0 -> op_add(f, a, b, w)
    [] k = 1 -> op_or(f, a, b, w)
    [] k = 2 -> op_adc(f, a, b, w)
    [] k = 3 -> op_sbb(f, a, b, w)
    [] k = 4 -> op_and(f, a, b, w)
    [] k = 5 -> op_sub(f, a, b, w)
    [] k = 6 -> op_xor(f, a, b, w)
    [] k = 7 -> op_cmp(f, a, b, w)
    [] k = 8 -> op_test(f, a, b, w)

\* The forms: E with G, G with E, and AL or AX with a number.
EG(m, w, k) ==
  LET d == modregrm(m) IN StoreRm(d, w, Operation(k, d.f, Rm(d, w), R(d, d.reg, w), w))

GE(m, w, k) ==
  LET d == modregrm(m) IN StoreR(d, d.reg, w, Operation(k, d.f, R(d, d.reg, w), Rm(d, w), w))

AI(m, w, k) == StoreR(SkipImm(m, w), AX, w, Operation(k, m.f, R(m, AX, w), Imm(m, w), w))

TwoOperands(m, op, k) ==
  CASE op % 8 \in {0, 1} -> EG(m, Size(op), k)
    [] op % 8 \in {2, 3} -> GE(m, Size(op), k)
    [] op % 8 \in {4, 5} -> AI(m, Size(op), k)

\* 00 00 is a program that runs into empty memory.
ADD(m, op) ==
  IF op = 0 /\ Code8(m) = 0 THEN exit_or_restart(m) ELSE TwoOperands(m, op, 0)

OR(m, op) == TwoOperands(m, op, 1)
ADC(m, op) == TwoOperands(m, op, 2)
SBB(m, op) == TwoOperands(m, op, 3)
AND(m, op) == TwoOperands(m, op, 4)
SUB(m, op) == TwoOperands(m, op, 5)
XOR(m, op) == TwoOperands(m, op, 6)
CMP(m, op) == TwoOperands(m, op, 7)

TEST(m, op) == IF op < 168 THEN GE(m, Size(op), 8) ELSE AI(m, Size(op), 8)

\* 80, 81, 83: the operation is in the reg field, the number follows, for 83 a
\* signed byte.
GRP1(m, op) ==
  LET d == modregrm(m)
      w == Size(op)
      b == IF op = 131 THEN Signed(Code8(d), Byte) % Word ELSE Imm(d, w)
      end == AdvanceIP(d, IF op = 129 THEN 2 ELSE 1)
  IN  StoreRm(end, w, Operation(d.reg, d.f, Rm(d, w), b, w))

-----------------------------------------------------------------------------
\* INC and DEC keep the carry.
KeepCarry(x, f) == [x EXCEPT !.f.cf = f.cf]

INC(m, i) == StoreR(m, i, Word, KeepCarry(op_add(m.f, m.r[i], 1, Word), m.f))
DEC(m, i) == StoreR(m, i, Word, KeepCarry(op_sub(m.f, m.r[i], 1, Word), m.f))

\* Without an operation of its own a reg field above 1 stores a byte the C code
\* never set: the model has no value for it.
GRP4(m) ==
  LET d == modregrm(m)
      a == Rm(d, Byte)
  IN  CASE d.reg = 0 -> StoreRm(d, Byte, KeepCarry(op_add(d.f, a, 1, Byte), d.f))
        [] d.reg = 1 -> StoreRm(d, Byte, KeepCarry(op_sub(d.f, a, 1, Byte), d.f))

\* C0, C1 shift by a number, D0, D1 by one, D2, D3 by CL.
GRP2(m, op) ==
  LET d == modregrm(m)
      w == Size(op)
      byNumber == op \in {192, 193}
      cnt == CASE byNumber -> Code8(d)
               [] op \in {208, 209} -> 1
               [] op \in {210, 211} -> R(d, CX, Byte)
      end == IF byNumber THEN AdvanceIP(d, 1) ELSE d
      x == op_grp2(d.f, d.reg, Rm(d, w), cnt, w)
  IN  IF d.reg = 6 /\ cnt # 0 THEN exit_or_restart(d)
                               ELSE SetRm(SetF(end, x.f), w, x.res)

\* The result of a multiplication or division: AX, or DX and AX.  A division that
\* has no result calls INT 0 and returns behind the instruction.
Double(m, w, x) ==
  IF w = Byte THEN [m EXCEPT !.r[AX] = Byte * x.hi + x.lo]
              ELSE [m EXCEPT !.r[AX] = x.lo, !.r[DX] = x.hi]

Multiply(m, w, x) == SetF(Double(m, w, x), MulFlags(m.f, x.hi))
Divide(m, w, x) == IF x.fault THEN intcall86(m, 0) ELSE Double(m, w, x)

Dividend(m, w) == IF w = Byte THEN m.r[AX] ELSE Word * m.r[DX] + m.r[AX]
SignedDividend(m, w) ==
  IF w = Byte THEN Signed(m.r[AX], Word) ELSE Word * Signed(m.r[DX], Word) + m.r[AX]

op_grp3(m, w) ==
  LET d == modregrm(m)
      a == Rm(d, w)
      al == R(d, AX, w)
  IN  CASE d.reg = 0 -> SetF(SkipImm(d, w), flag_logic(d.f, bitwise(a, Imm(d, w), And), w))
        [] d.reg = 1 -> exit_or_restart(d)
        [] d.reg = 2 -> SetRm(d, w, w - 1 - a)
        [] d.reg = 3 -> SetRm(SetF(d, flag_sub(d.f, 0, a, w)), w, (-a) % w)
        [] d.reg = 4 -> Multiply(d, w, op_mul(al, a, w))
        [] d.reg = 5 -> Multiply(d, w, op_imul(al, a, w))
        [] d.reg = 6 -> Divide(d, w, op_div(Dividend(d, w), a, w))
        [] d.reg = 7 -> Divide(d, w, op_idiv(SignedDividend(d, w), a, w))

-----------------------------------------------------------------------------
\* Moves.  The register of XCHG is assigned first, so an operand in memory whose
\* address uses that register is stored at the new address.
XCHG(m, op) ==
  LET d == modregrm(m)
      w == Size(op)
  IN  SetRm(SetR(d, d.reg, w, Rm(d, w)), w, R(d, d.reg, w))

XCHG_AX(m, i) == [m EXCEPT !.r[i] = m.r[AX], !.r[AX] = m.r[i]]

\* 88 to 8B.
MOV(m, op) ==
  LET d == modregrm(m)
      w == Size(op)
  IN  IF op < 138 THEN SetRm(d, w, R(d, d.reg, w)) ELSE SetR(d, d.reg, w, Rm(d, w))

\* 8C, 8E.  The six segment registers; the C code reads and writes behind the
\* array for the reg fields 6 and 7.
MOV_S(m, op) ==
  LET d == modregrm(m)
  IN  IF op = 140 THEN SetRm(d, Word, d.s[d.reg]) ELSE [d EXCEPT !.s[d.reg] = Rm(d, Word)]

\* A register has no address.
LEA(m) ==
  LET d == modregrm(m)
  IN  IF d.mode = 3 THEN exit_or_restart(d) ELSE SetR(d, d.reg, Word, Offset(d))

POP_E(m) == LET d == modregrm(m) IN SetRm(Drop(d), Word, Top(d))

\* A0 to A3: AL or AX and a bare address.
MOV_O(m, op) ==
  LET w == Size(op)
      o == Code16(m)
  IN  AdvanceIP(IF op < 162 THEN SetR(m, AX, w, ReadLong(m, m.seg, o, w))
                            ELSE WriteLong(m, m.seg, o, R(m, AX, w), w), 2)

MOV_I(m, op) ==
  LET w == IF op < 184 THEN Byte ELSE Word
  IN  SkipImm(SetR(m, op % 8, w, Imm(m, w)), w)

MOV_EI(m, op) ==
  LET d == modregrm(m)
      w == Size(op)
      v == IF w = Byte THEN Code8(d) ELSE Read16Long(d, d.s[CS], d.ip)
  IN  SkipImm(SetRm(d, w, v), w)

\* LES and LDS: a far pointer in memory.
LoadPointer(m, segment) ==
  LET d == modregrm(m)
  IN  IF d.mode = 3 THEN exit_or_restart(d)
      ELSE [d EXCEPT !.r[d.reg] = Read16(d, getea(d)), !.s[segment] = Read16(d, getea(d) + 2)]

CBW(m) == [m EXCEPT !.r[AX] = Signed(@ % Byte, Byte) % Word]
CWD(m) == [m EXCEPT !.r[DX] = IF Sign(m.r[AX], Word) = 1 THEN Word - 1 ELSE 0]

XLAT(m) ==
  SetR(m, AX, Byte, Read8(m, m.seg * 16 + ((m.r[BX] + R(m, AX, Byte)) % Word)))

\* PUSHA stores the SP it began with; POPA does not load it.
Push2(x, r, i, j) == push16(push16(x, r[i]), r[j])
PUSHA(m) == Push2(Push2(Push2(Push2(m, m.r, AX, CX), m.r, DX, BX), m.r, SP, BP), m.r, SI, DI)

Bug_POPA(m) ==
  PopR(PopR(PopR(PopR(Drop(PopR(PopR(PopR(m, DI), SI), BP)), BX), CX), DX), AX)

POPA(m) ==
  PopR(PopR(PopR(PopR(Drop(PopR(PopR(PopR(m, DI), SI), BP)), BX), DX), CX), AX)

\* PUSHF, POPF, SAHF, LAHF.
FlagMoves(m, op) ==
  CASE op = 156 -> push16(m, makeflags(m.f))
    [] op = 157 -> SetF(Drop(m), decodeflags(Top(m)))
    [] op = 158 -> SetF(m, decodeflags(Byte * (makeflags(m.f) \div Byte) + R(m, 4, Byte)))
    [] op = 159 -> SetR(m, 4, Byte, makeflags(m.f) % Byte)

\* CMC and the instructions that set and clear one flag.
FlagSets(m, op) ==
  CASE op = 245 -> [m EXCEPT !.f.cf = 1 - @]
    [] op \in {248, 249} -> [m EXCEPT !.f.cf = op % 2]
    [] op \in {250, 251} -> [m EXCEPT !.f.ifl = op % 2]
    [] op \in {252, 253} -> [m EXCEPT !.f.df = op % 2]

\* DAA, DAS, AAA, AAM, AAD on AL and AH.  A division by zero in AAM ends the
\* program, and so does AAS.
Decimal(m, op) ==
  LET al == R(m, AX, Byte)
      ah == R(m, 4, Byte)
      end == IF op < 64 THEN m ELSE AdvanceIP(m, 1)
      set(x) == SetF([end EXCEPT !.r[AX] = Byte * x.ah + x.al], x.f)
      keepAH(x) == [al |-> x.al, ah |-> ah, f |-> x.f]
  IN  CASE op = 39 -> set(keepAH(DAA(m.f, al)))
        [] op = 47 -> set(keepAH(DAS(m.f, al)))
        [] op = 55 -> set(AAA(m.f, al, ah))
        [] op = 63 -> exit_or_restart(m)
        [] op = 212 -> IF Code8(m) = 0 THEN exit_or_restart(m) ELSE set(AAM(m.f, al, Code8(m)))
        [] op = 213 -> set(AAD(m.f, al, ah, Code8(m)))

=============================================================================
