-------------------------------- MODULE Alu --------------------------------
(***************************************************************************)
(* Results and flags of the arithmetic of src/src/cpu: arith.c, flags.c,   *)
(* and the shifts and decimal adjustments of cpu.c.  The code has one      *)
(* function for 8 and one for 16 bits; here m is the modulus of the size,  *)
(* 2^8 or 2^16.  Flags are a record of the numbers 0 and 1, as in C.       *)
(***************************************************************************)
EXTENDS Integers

Bool(b) == IF b THEN 1 ELSE 0

Sign(v, m) == Bool(v % m >= m \div 2)
Signed(v, m) == IF Sign(v, m) = 1 THEN v - m ELSE v
Bit4(v) == (v \div 16) % 2

\* The table of cpu.c: 1 for an even number of ones in the low byte.
parity(v) ==
  (1 + v + v \div 2 + v \div 4 + v \div 8 + v \div 16 + v \div 32 + v \div 64 + v \div 128) % 2

\* The operators | & ^ of C on words: the operation on each pair of bits.
bitwise(a, b, Op(_, _)) ==
  LET bit(n) == n * Op((a \div n) % 2, (b \div n) % 2)
  IN  bit(1) + bit(2) + bit(4) + bit(8) + bit(16) + bit(32) + bit(64) + bit(128)
      + bit(256) + bit(512) + bit(1024) + bit(2048) + bit(4096) + bit(8192)
      + bit(16384) + bit(32768)

Or(x, y) == x + y - x * y
And(x, y) == x * y
Xor(x, y) == (x + y) % 2

flag_szp(f, v, m) == [f EXCEPT !.zf = Bool(v = 0), !.sf = Sign(v, m), !.pf = parity(v)]

\* The logical operations clear carry and overflow, and leave af.
flag_logic(f, v, m) == [flag_szp(f, v, m) EXCEPT !.cf = 0, !.of = 0]

\* flag_add and, with a carry v3, flag_adc.
flag_adc(f, v1, v2, v3, m) ==
  LET dst == v1 + v2 + v3
  IN  [flag_szp(f, dst % m, m) EXCEPT
         !.cf = Bool(dst >= m),
         !.of = Bool(Sign(dst, m) # Sign(v1, m) /\ Sign(dst, m) # Sign(v2, m)),
         !.af = (Bit4(v1) + Bit4(v2) + Bit4(dst)) % 2]

flag_sub(f, v1, v2, m) ==
  LET dst == v1 - v2
  IN  [flag_szp(f, dst % m, m) EXCEPT
         !.cf = Bool(v1 < v2),
         !.of = Bool(Sign(dst, m) # Sign(v1, m) /\ Sign(v1, m) # Sign(v2, m)),
         !.af = (Bit4(v1) + Bit4(v2) + Bit4(dst)) % 2]

\* The carry is added to the subtrahend, in a wider type, before anything else:
\* of and af are those of v1 - (v2 + v3).
flag_sbb(f, v1, v2, v3, m) == flag_sub(f, v1, v2 + v3, m)

-----------------------------------------------------------------------------
\* Multiplication and division: the double result is [lo, hi], fault says that
\* INT 0 is called and nothing is assigned.
MulFlags(f, hi) == [f EXCEPT !.cf = Bool(hi # 0), !.of = Bool(hi # 0), !.zf = 0]

op_mul(a, b, m) == [lo |-> (a * b) % m, hi |-> (a * b) \div m]

\* Carry and overflow are set for a high half that is not 0, so also for a
\* negative product that fits.
op_imul(a, b, m) ==
  LET product == Signed(a, m) * Signed(b, m)
  IN  [lo |-> product % m, hi |-> (product \div m) % m]

Abs(x) == IF x < 0 THEN -x ELSE x
CDiv(a, b) == LET q == Abs(a) \div Abs(b) IN IF (a < 0) = (b < 0) THEN q ELSE -q

op_div(value, divisor, m) ==
  IF divisor = 0 \/ value \div divisor >= m
  THEN [fault |-> TRUE]
  ELSE [fault |-> FALSE, lo |-> value \div divisor, hi |-> value % divisor]

\* The quotient -m/2, which fits, is refused with those that do not.  value is
\* signed; the most negative double word by -1 has no quotient in C either: that
\* division is not followed (Exec).
op_idiv(value, divisor, m) ==
  LET quotient == CDiv(value, Signed(divisor, m))
  IN  IF divisor = 0 \/ Abs(quotient) >= m \div 2
      THEN [fault |-> TRUE]
      ELSE [fault |-> FALSE, lo |-> quotient % m,
            hi |-> (value - quotient * Signed(divisor, m)) % m]

-----------------------------------------------------------------------------
\* One step of the shift and rotate instructions on a value and the carry.
ShiftStep(reg, x, m) ==
  LET s == x[1]
      top == Sign(s, m)
      half == m \div 2
  IN  CASE reg = 0 -> <<((2 * s) % m) + top, top>>                      \* ROL
        [] reg = 1 -> <<s \div 2 + (s % 2) * half, s % 2>>            \* ROR
        [] reg = 2 -> <<((2 * s) % m) + x[2], top>>                     \* RCL
        [] reg = 3 -> <<s \div 2 + x[2] * half, s % 2>>               \* RCR
        [] reg = 4 -> <<(2 * s) % m, top>>                            \* SHL
        [] reg = 5 -> <<s \div 2, s % 2>>                             \* SHR
        [] reg = 7 -> <<s \div 2 + top * half, s % 2>>                \* SAR

\* of is defined by a shift by one.
ShiftOverflow(reg, s, shifted, m) ==
  LET top == Sign(shifted[1], m)
  IN  CASE reg \in {0, 2, 4} -> Bool(shifted[2] # top)
        [] reg \in {1, 3} -> Bool(top # Sign(2 * shifted[1], m))
        [] reg = 5 -> Sign(s, m)
        [] reg = 7 -> 0

\* op_grp2_8 and op_grp2_16: the count is compared with 0 before it is reduced
\* to 5 bits, so a count of 32 shifts nothing and still sets sf, zf, pf.
op_grp2(f, reg, s, cnt, m) ==
  IF cnt = 0
  THEN [res |-> s, f |-> f]
  ELSE LET n == cnt % 32
           shift[i \in 0..31] == IF i = 0 THEN <<s, f.cf>> ELSE ShiftStep(reg, shift[i - 1], m)
           end == shift[n]
           carried == [f EXCEPT !.cf = end[2],
                                !.of = IF n = 1 THEN ShiftOverflow(reg, s, end, m) ELSE @]
       IN  [res |-> end[1],
            f |-> IF reg >= 4 THEN flag_szp(carried, end[1], m) ELSE carried]

-----------------------------------------------------------------------------
\* DAA: the second test is made on the byte the first adjustment left.
Bug_DAA(f, al) ==
  LET low == al % 16 > 9 \/ f.af = 1
      x == IF low THEN (al + 6) % 256 ELSE al
      high == x > 153
      y == IF high THEN (x + 96) % 256 ELSE x
  IN  [al |-> y, f |-> flag_szp([f EXCEPT !.af = Bool(low), !.cf = Bool(high)], y, 256)]

DAA(f, al) ==
  LET low == al % 16 > 9 \/ f.af = 1
      x == IF low THEN (al + 6) % 256 ELSE al
      high == x > 153 \/ f.cf = 1
      y == IF high THEN (x + 96) % 256 ELSE x
  IN  [al |-> y, f |-> flag_szp([f EXCEPT !.af = Bool(low), !.cf = Bool(high)], y, 256)]

\* DAS: the carry it tests is the one its first adjustment has set.
DAS(f, al) ==
  LET low == al % 16 > 9 \/ f.af = 1
      x == IF low THEN (al - 6) % 256 ELSE al
      borrow == IF low THEN Bool(al < 6) ELSE f.cf
      high == x \div 16 > 9 \/ borrow = 1
      y == IF high THEN (x - 96) % 256 ELSE x
  IN  [al |-> y, f |-> flag_szp([f EXCEPT !.af = Bool(low), !.cf = Bool(high)], y, 256)]

AAA(f, al, ah) ==
  LET low == al % 16 > 9 \/ f.af = 1
  IN  [al |-> (IF low THEN al + 6 ELSE al) % 16, ah |-> (ah + Bool(low)) % 256,
       f |-> [f EXCEPT !.af = Bool(low), !.cf = Bool(low)]]

AAM(f, al, base) ==
  [al |-> al % base, ah |-> al \div base, f |-> flag_szp(f, al % base, 256)]

AAD(f, al, ah, base) ==
  LET x == (ah * base + al) % 256
  IN  [al |-> x, ah |-> 0, f |-> [flag_szp(f, x, 256) EXCEPT !.sf = 0]]

-----------------------------------------------------------------------------
\* The 16 conditions of the jumps: an odd one is the negation of the even one.
Condition(k, f) ==
  LET holds == CASE k \div 2 = 0 -> f.of # 0
                 [] k \div 2 = 1 -> f.cf = 1
                 [] k \div 2 = 2 -> f.zf = 1
                 [] k \div 2 = 3 -> f.cf = 1 \/ f.zf = 1
                 [] k \div 2 = 4 -> f.sf = 1
                 [] k \div 2 = 5 -> f.pf = 1
                 [] k \div 2 = 6 -> f.sf # f.of
                 [] k \div 2 = 7 -> f.sf # f.of \/ f.zf = 1
  IN  holds = (k % 2 = 0)

\* The word PUSHF stores.  Bit 18 (ac) does not fit in it; what is decoded from
\* a word clears it.  An of of 254 or 255 (ROR of opcode66) sets the bits above it.
makeflags(f) ==
  f.cf + 2 + 4 * f.pf + 16 * f.af + 64 * f.zf + 128 * f.sf + 256 * f.tf + 512 * f.ifl
       + 1024 * f.df + 2048 * (f.of % 2)
       + (IF f.of > 1 THEN 61440 ELSE 4096 * f.iopl + 16384 * f.nt)

Bug_decodeflags(x) ==
  LET bit(n) == (x \div n) % 2
  IN  [cf |-> bit(1), pf |-> bit(4), af |-> bit(16), zf |-> bit(64), sf |-> bit(128),
       tf |-> bit(256), ifl |-> bit(512), df |-> bit(1024), of |-> bit(4096),
       iopl |-> (x \div 4096) % 4, nt |-> bit(16384), ac |-> 0]

decodeflags(x) ==
  LET bit(n) == (x \div n) % 2
  IN  [cf |-> bit(1), pf |-> bit(4), af |-> bit(16), zf |-> bit(64), sf |-> bit(128),
       tf |-> bit(256), ifl |-> bit(512), df |-> bit(1024), of |-> bit(2048),
       iopl |-> (x \div 4096) % 4, nt |-> bit(16384), ac |-> 0]

=============================================================================
