-------------------------------- MODULE Exec --------------------------------
(***************************************************************************)
(* The loop of exec86: control transfers, ports, the callbacks of the ROM  *)
(* (devices/rom.c), and the dispatch of an opcode (cpu/cpu.c).             *)
(***************************************************************************)
EXTENDS Cpu32

\* A jump relative to the instruction that follows the displacement.
Short(m, taken) == AdvanceIP(m, 1 + (IF taken THEN Signed(Code8(m), Byte) ELSE 0))

Jcc(m, op) == Short(m, Condition(op % 16, m.f))

\* LOOPNZ, LOOPZ, LOOP, JCXZ.
Loops(m, op) ==
  LET n == Add(m, CX, -1)
  IN  CASE op = 224 -> Short(n, n.r[CX] # 0 /\ n.f.zf = 0)
        [] op = 225 -> Short(n, n.r[CX] # 0 /\ n.f.zf = 1)
        [] op = 226 -> Short(n, n.r[CX] # 0)
        [] op = 227 -> Short(m, m.r[CX] = 0)

\* CALL Jv, JMP Jv, JMP Ap, JMP Jb.
JumpCall(m, op) ==
  LET n == AdvanceIP(m, 2)
  IN  CASE op = 232 -> AdvanceIP(push16(n, n.ip), Code16(m))
        [] op = 233 -> AdvanceIP(n, Code16(m))
        [] op = 234 -> [m EXCEPT !.ip = Code16(m), !.s[CS] = Code16(n)]
        [] op = 235 -> Short(m, TRUE)

\* CALL Ap.
CallFar(m) ==
  LET end == AdvanceIP(m, 4)
  IN  [push16(push16(end, m.s[CS]), end.ip)
         EXCEPT !.ip = Code16(m), !.s[CS] = Code16(AdvanceIP(m, 2))]

\* RET and RET Iw; RETF and RETF Iw.
Ret(m, op) ==
  IF op = 195 THEN PopIP(m) ELSE Add(PopIP(m), SP, Read16Long(m, m.s[CS], m.ip))

Retf(m, op) ==
  LET back == PopS(PopIP(m), CS)
  IN  IF op = 203 THEN back ELSE Add(back, SP, Read16Long(m, m.s[CS], m.ip))

\* INT 3, INT Ib, INTO.
INT(m, op) ==
  CASE op = 204 -> intcall86(m, 3)
    [] op = 205 -> intcall86(AdvanceIP(m, 1), Code8(m))
    [] op = 206 -> IF m.f.of # 0 THEN intcall86(m, 4) ELSE m

Iret(m) ==
  LET back == PopS(PopIP(m), CS) IN SetF(Drop(back), decodeflags(Top(back)))

\* FF.  The far forms read their pointer after the call has pushed; a register
\* as their operand ends the program.
op_grp5(m) ==
  LET d == modregrm(m)
      a == Rm(d, Word)
      far(x) == [x EXCEPT !.ip = Read16Unsafe(x, getea(x)),
                          !.s[CS] = Read16Unsafe(x, getea(x) + 2)]
  IN  CASE d.reg = 0 -> StoreRm(d, Word, KeepCarry(op_add(d.f, a, 1, Word), d.f))
        [] d.reg = 1 -> StoreRm(d, Word, KeepCarry(op_sub(d.f, a, 1, Word), d.f))
        [] d.reg = 2 -> [push16(d, d.ip) EXCEPT !.ip = a]
        [] d.reg = 4 -> [d EXCEPT !.ip = a]
        [] d.reg \in {3, 5} /\ d.mode = 3 -> exit_or_restart(d)
        [] d.reg = 3 /\ d.mode # 3 -> far(push16(push16(d, d.s[CS]), d.ip))
        [] d.reg = 5 /\ d.mode # 3 -> far(d)
        [] d.reg = 6 -> push16(d, a)
        [] d.reg = 7 -> exit_or_restart(d)

-----------------------------------------------------------------------------
\* IN and OUT, with the port in the instruction or in DX.
Ports(m, op) ==
  LET direct == op < 236
      p == IF direct THEN Code8(m) ELSE m.r[DX]
      end == IF direct THEN AdvanceIP(m, 1) ELSE m
  IN  CASE op \in {228, 236} -> IF p \in InPorts THEN SetR(end, AX, Byte, portin(m, p))
                                                 ELSE exit_or_restart(m)
        [] op \in {229, 237} -> exit_or_restart(m)
        [] op \in {230, 238} -> portout(end, p, R(m, AX, Byte))
        [] op \in {231, 239} -> portout16(end, p, m.r[AX])

\* The callbacks: the services that are modules of their own are not called by
\* the programs run here, and a number no service has ends the program.
Services == {16, 19, 21, 22, 26, 33, 47, 51, 103, 129}

ROMExec(m, n) ==
  CASE n \in {4, 9, 28} -> m
    [] n = 8 -> Write16Long(m, 64, 108, (Read16Long(m, 64, 108) + 1) % Word)
    [] n = 17 -> [m EXCEPT !.r[AX] = 0]
    [] n = 32 \/ n \notin {4, 8, 9, 17, 28} \cup Services -> exit_or_restart(m)

\* The vectors and the stubs ROMInit puts behind them, as pieces of memory: a
\* callback and IRET, and for the timer the handler that calls INT 1Ch.
TimerStub == <<99, 8, 80, 82, 30, 205, 28, 250, 31, 90, 88, 207>>

At(bytes, a) == [x \in a .. (a + Len(bytes) - 1) |-> bytes[x - a + 1]]

ROM(vectors) ==
  LET vector(n) == IF n = 8 THEN At(<<0, 32, 0, 240>>, 32)
                            ELSE At(<<(4 * n) % Byte, (4 * n) \div Byte, 0, 240>>, 4 * n)
      stub(n) == At(<<99, n, 207, 0>>, 983040 + 4 * n)
  IN  (UNION {{vector(n), stub(n)} : n \in vectors}) \cup {At(TimerStub, 991232)}

Together(pieces) ==
  [a \in UNION {DOMAIN b : b \in pieces} |-> (CHOOSE b \in pieces : a \in DOMAIN b)[a]]

-----------------------------------------------------------------------------
\* The second byte of the opcodes 0F.  CPUID answers the words of one processor.
Extended(m, op) ==
  LET end == AdvanceIP(m, 1)
      answer == IF m.r[AX] = 0 /\ m.h[AX] = 0
                THEN [lo |-> <<1, 29806, 28265, 25927>>, hi |-> <<0, 27749, 18789, 30062>>]
                ELSE [lo |-> <<1026, 0, 1, 0>>, hi |-> <<0, 0, 0, 0>>]
      put(f, words) == [i \in 0..7 |-> IF i < 4 THEN words[i + 1] ELSE f[i]]
  IN  CASE op = 132 -> AdvanceIP(end, 2 + (IF m.f.zf = 1 THEN Code16(end) ELSE 0))
        [] op = 160 -> push16(end, m.s[FS])
        [] op = 161 -> PopS(end, FS)
        [] op = 168 -> push16(end, m.s[GS])
        [] op = 169 -> PopS(end, GS)
        [] op = 162 -> [end EXCEPT !.r = put(m.r, answer.lo), !.h = put(m.h, answer.hi)]
        [] OTHER -> exit_or_restart(m)

-----------------------------------------------------------------------------
\* Segment prefixes: the last one counts, and the opcode is behind them.
PrefixOf == [b \in {38, 46, 54, 62} |-> (b - 38) \div 8]
IsPrefix(m, n) == Code8(AdvanceIP(m, n)) \in DOMAIN PrefixOf

SkipPrefixes(m) ==
  LET at(n) == Code8(AdvanceIP(m, n))
      n == CHOOSE k \in 0 .. Word - 1 : ~IsPrefix(m, k) /\ \A i \in 0..k-1 : IsPrefix(m, i)
  IN  [AdvanceIP(m, n) EXCEPT !.over = n > 0,
                              !.seg = IF n = 0 THEN m.s[DS] ELSE m.s[PrefixOf[at(n - 1)]]]

\* 06, 0E, 16, 1E push a segment register, 07, 17, 1F pop one.
PushSegment(m, op) == push16(m, m.s[(op - 6) \div 8])
PopSegment(m, op) == PopS(m, (op - 7) \div 8)

\* The opcodes below 40h.
ExecuteLow(m, op) ==
  CASE op \in {6, 14, 22, 30} -> PushSegment(m, op)
    [] op \in {7, 23, 31} -> PopSegment(m, op)
    [] op = 15 -> Extended(m, Code8(m))
    [] op \in {39, 47, 55, 63} -> Decimal(m, op)
    [] op \in 0..5 -> ADD(m, op)
    [] op \in 8..13 -> OR(m, op)
    [] op \in 16..21 -> ADC(m, op)
    [] op \in 24..29 -> SBB(m, op)
    [] op \in 32..37 -> AND(m, op)
    [] op \in 40..45 -> SUB(m, op)
    [] op \in 48..53 -> XOR(m, op)
    [] op \in 56..61 -> CMP(m, op)

\* The opcodes from 40h to 9Fh.
ExecuteMiddle(m, op) ==
  CASE op \in 64..71 -> INC(m, op - 64)
    [] op \in 72..79 -> DEC(m, op - 72)
    [] op \in 80..87 -> push16(m, m.r[op - 80])
    [] op \in 88..95 -> PopR(m, op - 88)
    [] op = 96 -> PUSHA(m)
    [] op = 97 -> POPA(m)
    [] op = 99 -> AdvanceIP(ROMExec(m, Code8(m)), 1)
    [] op = 102 -> opcode66(m)
    [] op \in 112..127 -> Jcc(m, op)
    [] op \in {128, 129, 131} -> GRP1(m, op)
    [] op \in {132, 133} -> TEST(m, op)
    [] op \in {134, 135} -> XCHG(m, op)
    [] op \in 136..139 -> MOV(m, op)
    [] op \in {140, 142} -> MOV_S(m, op)
    [] op = 141 -> LEA(m)
    [] op = 143 -> POP_E(m)
    [] op \in 144..151 -> XCHG_AX(m, op - 144)
    [] op = 152 -> CBW(m)
    [] op = 153 -> CWD(m)
    [] op = 154 -> CallFar(m)
    [] op = 155 -> m
    [] op \in 156..159 -> FlagMoves(m, op)
    [] OTHER -> exit_or_restart(m)

\* The opcodes from A0h.
ExecuteHigh(m, op) ==
  CASE op \in 160..163 -> MOV_O(m, op)
    [] op \in 164..167 \cup 170..175 -> StringOp(m, op)
    [] op \in {168, 169} -> TEST(m, op)
    [] op \in 176..191 -> MOV_I(m, op)
    [] op \in {192, 193} \cup 208..211 -> GRP2(m, op)
    [] op \in {194, 195} -> Ret(m, op)
    [] op = 196 -> LoadPointer(m, ES)
    [] op = 197 -> LoadPointer(m, DS)
    [] op \in {198, 199} -> MOV_EI(m, op)
    [] op \in {202, 203} -> Retf(m, op)
    [] op \in 204..206 -> INT(m, op)
    [] op = 207 -> Iret(m)
    [] op \in {212, 213} -> Decimal(m, op)
    [] op = 215 -> XLAT(m)
    [] op \in 224..227 -> Loops(m, op)
    [] op \in 228..231 \cup 236..239 -> Ports(m, op)
    [] op \in 232..235 -> JumpCall(m, op)
    [] op = 240 -> m
    [] op \in {242, 243} -> op_rep(m, op - 242)
    [] op = 244 -> [m EXCEPT !.hlt = TRUE]
    [] op = 245 \/ op \in 248..253 -> FlagSets(m, op)
    [] op \in {246, 247} -> op_grp3(m, Size(op))
    [] op = 254 -> GRP4(m)
    [] op = 255 -> op_grp5(m)
    [] OTHER -> exit_or_restart(m)

\* One instruction.
Execute(m0) ==
  LET m == SkipPrefixes(m0)
      op == Code8(m)
      next == AdvanceIP(m, 1)
  IN  CASE op < 64 -> ExecuteLow(next, op)
        [] op \in 64..159 -> ExecuteMiddle(next, op)
        [] op > 159 -> ExecuteHigh(next, op)

\* One turn of the loop of exec86: a request of the interrupt controller is taken
\* when interrupts are on, and ends HLT; then one instruction, unless the
\* processor is halted.
Accepts(m, request) == request # 0 /\ m.f.ifl = 1

Interrupted(m, request) ==
  IF Accepts(m, request) THEN intcall86([m EXCEPT !.hlt = FALSE], request) ELSE m

Turn(m, request) ==
  LET n == Interrupted(m, request) IN IF n.hlt THEN n ELSE Execute(n)

\* The instructions that are followed.  Not followed are the ones the C code leaves
\* undefined: a segment of nothing but prefixes, where it loops for ever; the
\* segment registers 6 and 7, behind the end of the array; GRP4 with a number
\* above 1, which stores a variable it has not set; IDIV of the most negative
\* double word by -1, whose quotient is no int32_t.  Nor are the callbacks of the
\* services that are modules of their own.
QuotientOverflows(d) == d.reg = 7 /\ d.r[DX] = 32768 /\ d.r[AX] = 0 /\ Rm(d, Word) = Word - 1

Followed(m0) ==
  LET m == SkipPrefixes(m0)
      op == Code8(m)
      next == AdvanceIP(m, 1)
  IN  /\ ~\A k \in 0 .. Word - 1 : IsPrefix(m0, k)
      /\ op \in {140, 142} => modregrm(next).reg \in 0..5
      /\ op = 254 => modregrm(next).reg \in 0..1
      /\ op = 247 => ~QuotientOverflows(modregrm(next))
      /\ op = 99 => Code8(next) \notin Services

\* Whether a turn is one of a halted processor or an instruction that is followed.
Goes(m, request) ==
  LET n == Interrupted(m, request) IN n.hlt \/ Followed(n)

=============================================================================
