----------------------------- MODULE CpuProofs -----------------------------
(***************************************************************************)
(* Proofs about the processor: what the flags of a comparison mean, for    *)
(* every size of operands (size is any even modulus); that no instruction, *)
(* whatever the bytes of the program, leaves the machine; that sums,       *)
(* products, shifts and decimal numbers of several bytes are undone; that  *)
(* a program does not notice an interrupt and its handler; that it gets    *)
(* back from the stack what it put there; and what one instruction does to *)
(* a program of the session that stands at a place of its code.            *)
(***************************************************************************)
EXTENDS CpuSession, WellFoundedInduction, TLAPS

LEMMA ModSmall ==
  ASSUME NEW size \in Nat \ {0}, NEW x \in Nat, x < size
  PROVE  x % size = x
  OBVIOUS

LEMMA ModSelf ==
  ASSUME NEW size \in Nat \ {0}
  PROVE  size % size = 0 /\ (-size) % size = 0
  OBVIOUS

LEMMA ModNegative ==
  ASSUME NEW size \in Nat \ {0}, NEW x \in Int, x < 0, -size < x
  PROVE  x % size = x + size
  OBVIOUS

LEMMA Halves ==
  ASSUME NEW half \in Nat \ {0}
  PROVE  (2 * half) \div 2 = half
  OBVIOUS

\* The sign of what is still a number of the size, or just outside.
LEMMA SignOf ==
  ASSUME NEW half \in Nat \ {0}, NEW size \in Nat \ {0}, size = 2 * half,
         NEW x \in Int, -size <= x, x <= size
  PROVE  /\ 0 <= x /\ x < half => Sign(x, size) = 0
         /\ half <= x /\ x < size => Sign(x, size) = 1
         /\ x = size => Sign(x, size) = 0
         /\ -half <= x /\ x < 0 => Sign(x, size) = 1
         /\ x < -half => Sign(x, size) = 0
         /\ Sign(x % size, size) = Sign(x, size)
<1>1. size \div 2 = half
  BY Halves
<1>2. x % size \in Nat /\ x % size < size
  OBVIOUS
<1>3. (x % size) % size = x % size
  BY <1>2, ModSmall
<1>4. CASE 0 <= x /\ x < size
  BY <1>1, <1>3, <1>4, ModSmall DEF Sign, Bool
<1>5. CASE x = size \/ x = -size
  BY <1>1, <1>3, <1>5, ModSelf DEF Sign, Bool
<1>6. CASE x < 0 /\ -size < x
  BY <1>1, <1>3, <1>6, ModNegative DEF Sign, Bool
<1> QED
  BY <1>4, <1>5, <1>6

LEMMA SubFlags ==
  ASSUME NEW f \in Flags, NEW size, NEW v1, NEW v2
  PROVE  /\ flag_sub(f, v1, v2, size).cf = Bool(v1 < v2)
         /\ flag_sub(f, v1, v2, size).sf = Sign((v1 - v2) % size, size)
         /\ flag_sub(f, v1, v2, size).zf = Bool((v1 - v2) % size = 0)
         /\ flag_sub(f, v1, v2, size).of =
              Bool(Sign(v1 - v2, size) # Sign(v1, size) /\ Sign(v1, size) # Sign(v2, size))
  BY DEF flag_sub, flag_szp, Flags, FlagNames

\* JB and JL, numbers 2 and 12 of the conditions.
LEMMA Jumps ==
  ASSUME NEW g
  PROVE  /\ Condition(2, g) <=> g.cf = 1
         /\ Condition(12, g) <=> g.sf # g.of
<1>1. /\ 2 \div 2 = 1 /\ 2 % 2 = 0
      /\ 12 \div 2 = 6 /\ 12 % 2 = 0
  OBVIOUS
<1>2. Condition(2, g) = ((g.cf = 1) = TRUE)
  BY <1>1 DEF Condition
<1>3. Condition(12, g) = ((g.sf # g.of) = TRUE)
  BY <1>1 DEF Condition
<1> QED
  BY <1>2, <1>3

\* The subtrahend of SBB may be size, when a borrow is added to the largest number.
SignedSum(v, half) == IF v < half THEN v ELSE IF v = 2 * half THEN 0 ELSE v - 2 * half

LEMMA SignedOrder ==
  ASSUME NEW f \in Flags, NEW half \in Nat \ {0}, NEW size \in Nat \ {0}, size = 2 * half,
         NEW v1 \in 0..(size - 1), NEW v2 \in 0..size
  PROVE  Condition(12, flag_sub(f, v1, v2, size)) <=> SignedSum(v1, half) < SignedSum(v2, half)
<1> DEFINE g == flag_sub(f, v1, v2, size)
           d == v1 - v2
<1>1. /\ g.sf = Sign(d % size, size)
      /\ g.of = Bool(Sign(d, size) # Sign(v1, size) /\ Sign(v1, size) # Sign(v2, size))
  BY SubFlags
<1>2. d \in Int /\ -size <= d /\ d <= size
  OBVIOUS
<1>3. /\ 0 <= d /\ d < half => Sign(d, size) = 0
      /\ half <= d /\ d < size => Sign(d, size) = 1
      /\ -half <= d /\ d < 0 => Sign(d, size) = 1
      /\ d < -half => Sign(d, size) = 0
      /\ Sign(d % size, size) = Sign(d, size)
  <2> HIDE DEF d
  <2> QED
    BY <1>2, SignOf
<1>4. /\ v1 < half => Sign(v1, size) = 0
      /\ half <= v1 => Sign(v1, size) = 1
  BY SignOf
<1>5. /\ v2 < half \/ v2 = size => Sign(v2, size) = 0
      /\ half <= v2 /\ v2 < size => Sign(v2, size) = 1
  BY SignOf
<1>6. g.sf # g.of <=> SignedSum(v1, half) < SignedSum(v2, half)
  <2> HIDE DEF g
  <2>1. CASE v1 < half /\ (v2 < half \/ v2 = size)
    BY <1>1, <1>2, <1>3, <1>4, <1>5, <2>1 DEF SignedSum, Bool
  <2>2. CASE v1 < half /\ half <= v2 /\ v2 < size
    BY <1>1, <1>2, <1>3, <1>4, <1>5, <2>2 DEF SignedSum, Bool
  <2>3. CASE half <= v1 /\ (v2 < half \/ v2 = size)
    BY <1>1, <1>2, <1>3, <1>4, <1>5, <2>3 DEF SignedSum, Bool
  <2>4. CASE half <= v1 /\ half <= v2 /\ v2 < size
    BY <1>1, <1>2, <1>3, <1>4, <1>5, <2>4 DEF SignedSum, Bool
  <2> QED
    BY <2>1, <2>2, <2>3, <2>4
<1> QED
  BY <1>6, Jumps

LEMMA SignedIsSum ==
  ASSUME NEW half \in Nat \ {0}, NEW size \in Nat \ {0}, size = 2 * half, NEW v \in 0..(size - 1)
  PROVE  Signed(v, size) = SignedSum(v, half)
<1>1. /\ v < half => Sign(v, size) = 0
      /\ half <= v => Sign(v, size) = 1
  BY SignOf
<1> QED
  BY <1>1 DEF Signed, SignedSum

\* JB and JL behind a CMP of operands of any size find the order of the numbers
\* without and with sign, at every edge of the range (arith.c: flag_sub).
THEOREM CompareFindsOrder ==
  ASSUME NEW f \in Flags, NEW half \in Nat \ {0}, NEW size \in Nat \ {0}, size = 2 * half,
         NEW v1 \in 0..(size - 1), NEW v2 \in 0..(size - 1)
  PROVE  /\ Condition(2, flag_sub(f, v1, v2, size)) <=> v1 < v2
         /\ Condition(12, flag_sub(f, v1, v2, size)) <=> Signed(v1, size) < Signed(v2, size)
<1>1. flag_sub(f, v1, v2, size).cf = 1 <=> v1 < v2
  BY SubFlags DEF Bool
<1>2. Condition(12, flag_sub(f, v1, v2, size)) <=> SignedSum(v1, half) < SignedSum(v2, half)
  BY SignedOrder
<1> QED
  BY <1>1, <1>2, SignedIsSum, Jumps

\* A size of operands is even, and half of it is where the negative numbers begin.
Halved(size, half) == half \in Nat \ {0} /\ size = 2 * half

\* CMP of the low words and SBB of the high ones find the order of the numbers of
\* two words without sign, always, and with sign unless the borrow is added to the
\* largest positive high word: arith.c adds it before it looks at the signs.
THEOREM LongCompareFindsOrder ==
  ASSUME NEW f \in Flags, NEW half, NEW size, Halved(size, half),
         NEW lo1 \in 0..(size - 1), NEW hi1 \in 0..(size - 1),
         NEW lo2 \in 0..(size - 1), NEW hi2 \in 0..(size - 1),
         NEW g \in Flags, g = flag_sub(f, lo1, lo2, size)
  PROVE  /\ Condition(2, flag_sbb(g, hi1, hi2, g.cf, size)) <=>
              hi1 < hi2 \/ (hi1 = hi2 /\ lo1 < lo2)
         /\ ~(hi2 = half - 1 /\ lo1 < lo2) =>
              (Condition(12, flag_sbb(g, hi1, hi2, g.cf, size)) <=>
                 \/ Signed(hi1, size) < Signed(hi2, size)
                 \/ Signed(hi1, size) = Signed(hi2, size) /\ lo1 < lo2)
<1> half \in Nat \ {0} /\ size \in Nat \ {0} /\ size = 2 * half
  BY DEF Halved
<1>1. g.cf = IF lo1 < lo2 THEN 1 ELSE 0
  BY SubFlags DEF Bool
<1> DEFINE v2 == hi2 + g.cf
<1>2. v2 \in 0..size /\ v2 = IF lo1 < lo2 THEN hi2 + 1 ELSE hi2
  BY <1>1
<1>3. flag_sbb(g, hi1, hi2, g.cf, size) = flag_sub(g, hi1, v2, size)
  BY DEF flag_sbb
<1> HIDE DEF v2
<1>4. flag_sub(g, hi1, v2, size).cf = 1 <=> hi1 < v2
  BY SubFlags DEF Bool
<1>5. hi1 < v2 <=> hi1 < hi2 \/ (hi1 = hi2 /\ lo1 < lo2)
  BY <1>2
<1>6. Condition(12, flag_sub(g, hi1, v2, size)) <=> SignedSum(hi1, half) < SignedSum(v2, half)
  BY <1>2, SignedOrder
<1>7. ASSUME ~(hi2 = half - 1 /\ lo1 < lo2)
      PROVE  SignedSum(hi1, half) < SignedSum(v2, half) <=>
               \/ SignedSum(hi1, half) < SignedSum(hi2, half)
               \/ SignedSum(hi1, half) = SignedSum(hi2, half) /\ lo1 < lo2
  <2>1. CASE ~(lo1 < lo2)
    BY <1>2, <2>1
  <2>2. CASE lo1 < lo2
    <3>1. v2 = hi2 + 1 /\ hi2 # half - 1
      BY <1>2, <1>7, <2>2
    <3>2. SignedSum(v2, half) = SignedSum(hi2, half) + 1
      BY <3>1 DEF SignedSum
    <3>3. SignedSum(hi1, half) \in Int /\ SignedSum(hi2, half) \in Int
      BY DEF SignedSum
    <3> QED
      BY <2>2, <3>2, <3>3
  <2> QED
    BY <2>1, <2>2
<1>8. Signed(hi1, size) = SignedSum(hi1, half) /\ Signed(hi2, size) = SignedSum(hi2, half)
  BY SignedIsSum
<1>9. Condition(2, flag_sbb(g, hi1, hi2, g.cf, size)) <=> hi1 < hi2 \/ (hi1 = hi2 /\ lo1 < lo2)
  BY <1>3, <1>4, <1>5, Jumps
<1> QED
  BY <1>3, <1>6, <1>7, <1>8, <1>9

\* In that one case the answer is always wrong: no number is greater than the
\* second, which has the largest positive high word, and JL is never taken.
THEOREM BorrowTurnsOrder ==
  ASSUME NEW f \in Flags, NEW half \in Nat \ {0}, NEW size \in Nat \ {0}, size = 2 * half,
         NEW lo1 \in 0..(size - 1), NEW hi1 \in 0..(size - 1), NEW lo2 \in 0..(size - 1), lo1 < lo2,
         NEW g \in Flags, g = flag_sub(f, lo1, lo2, size)
  PROVE  ~Condition(12, flag_sbb(g, hi1, half - 1, g.cf, size))
<1>1. g.cf = 1
  BY SubFlags DEF Bool
<1>2. flag_sbb(g, hi1, half - 1, g.cf, size) = flag_sub(g, hi1, half, size)
  <2>1. half - 1 + g.cf = half
    BY <1>1
  <2> QED
    BY <2>1 DEF flag_sbb
<1>3. half \in 0..size
  OBVIOUS
<1>4. Condition(12, flag_sub(g, hi1, half, size)) <=> SignedSum(hi1, half) < SignedSum(half, half)
  BY <1>3, SignedOrder
<1>5. ~(SignedSum(hi1, half) < SignedSum(half, half))
  BY DEF SignedSum
<1> QED
  BY <1>2, <1>4, <1>5

LEMMA DivOne ==
  ASSUME NEW n \in Nat
  PROVE  n \div 1 = n
OBVIOUS

LEMMA WordIsNat ==
  ASSUME NEW f, f.cf \in Nat, f.pf \in Nat, f.af \in Nat, f.zf \in Nat, f.sf \in Nat,
         f.tf \in Nat, f.ifl \in Nat, f.df \in Nat, f.of \in Nat, f.nt \in Nat, f.iopl \in Nat
  PROVE  makeflags(f) \in Nat
<1> DEFINE low == f.cf + 2 + 4 * f.pf + 16 * f.af + 64 * f.zf + 128 * f.sf + 256 * f.tf
<1>1. low \in Nat
  OBVIOUS
<1> HIDE DEF low
<1> DEFINE high == IF f.of > 1 THEN 61440 ELSE 4096 * f.iopl + 16384 * f.nt
<1>2. high \in Nat
  OBVIOUS
<1>3. f.of % 2 \in Nat
  OBVIOUS
<1> HIDE DEF high
<1>4. low + 512 * f.ifl + 1024 * f.df + 2048 * (f.of % 2) + high \in Nat
  BY <1>1, <1>2, <1>3
<1> QED
  BY <1>4 DEF low, high, makeflags

\* PUSHF and POPF, and INT and IRET, give all flags back but ac, which has no bit
\* in the word (flags.c: makeflags, decodeflags).
THEOREM FlagsSurviveTheStack ==
  ASSUME NEW f \in [FlagNames -> 0..3], \A b \in FlagNames : b = "iopl" \/ f[b] < 2, f.ac = 0
  PROVE  decodeflags(makeflags(f)) = f
<1>1. /\ f.cf \in 0..1 /\ f.pf \in 0..1 /\ f.af \in 0..1 /\ f.zf \in 0..1 /\ f.sf \in 0..1
      /\ f.tf \in 0..1 /\ f.ifl \in 0..1 /\ f.df \in 0..1 /\ f.of \in 0..1 /\ f.nt \in 0..1
      /\ f.iopl \in 0..3
  BY DEF FlagNames
<1> DEFINE x == makeflags(f)
<1>0. x \div 1 = x
  <2>1. /\ f.cf \in Nat /\ f.pf \in Nat /\ f.af \in Nat /\ f.zf \in Nat /\ f.sf \in Nat
        /\ f.tf \in Nat /\ f.ifl \in Nat /\ f.df \in Nat /\ f.of \in Nat /\ f.nt \in Nat
        /\ f.iopl \in Nat
    BY <1>1
  <2>2. x \in Nat
    BY <2>1, WordIsNat
  <2> HIDE DEF x
  <2> QED
    BY <2>2, DivOne
<1>2. /\ (x \div 1) % 2 = f.cf /\ (x \div 4) % 2 = f.pf /\ (x \div 16) % 2 = f.af
      /\ (x \div 64) % 2 = f.zf /\ (x \div 128) % 2 = f.sf /\ (x \div 256) % 2 = f.tf
  <2>1. x % 2 = f.cf
    BY <1>1, SMTT(60) DEF makeflags
  <2>2. (x \div 4) % 2 = f.pf
    BY <1>1, SMTT(60) DEF makeflags
  <2>3. (x \div 16) % 2 = f.af
    BY <1>1, SMTT(60) DEF makeflags
  <2>4. (x \div 64) % 2 = f.zf
    BY <1>1, SMTT(60) DEF makeflags
  <2>5. (x \div 128) % 2 = f.sf
    BY <1>1, SMTT(60) DEF makeflags
  <2>6. (x \div 256) % 2 = f.tf
    BY <1>1, SMTT(60) DEF makeflags
  <2> QED
    BY <1>0, <2>1, <2>2, <2>3, <2>4, <2>5, <2>6
<1>3. /\ (x \div 512) % 2 = f.ifl /\ (x \div 1024) % 2 = f.df /\ (x \div 2048) % 2 = f.of
      /\ (x \div 4096) % 4 = f.iopl /\ (x \div 16384) % 2 = f.nt
  <2>1. (x \div 512) % 2 = f.ifl
    BY <1>1, SMTT(60) DEF makeflags
  <2>2. (x \div 1024) % 2 = f.df
    BY <1>1, SMTT(60) DEF makeflags
  <2>3. (x \div 2048) % 2 = f.of
    BY <1>1, SMTT(60) DEF makeflags
  <2>4. (x \div 4096) % 4 = f.iopl
    BY <1>1, SMTT(60) DEF makeflags
  <2>5. (x \div 16384) % 2 = f.nt
    BY <1>1, SMTT(60) DEF makeflags
  <2> QED
    BY <2>1, <2>2, <2>3, <2>4, <2>5
<1> HIDE DEF x
<1>4. decodeflags(x) = [cf |-> f.cf, pf |-> f.pf, af |-> f.af, zf |-> f.zf, sf |-> f.sf,
                        tf |-> f.tf, ifl |-> f.ifl, df |-> f.df, of |-> f.of,
                        iopl |-> f.iopl, nt |-> f.nt, ac |-> 0]
  BY <1>2, <1>3 DEF decodeflags
<1>5. f = [b \in FlagNames |-> f[b]]
  OBVIOUS
<1>6. f = [cf |-> f.cf, pf |-> f.pf, af |-> f.af, zf |-> f.zf, sf |-> f.sf,
           tf |-> f.tf, ifl |-> f.ifl, df |-> f.df, of |-> f.of,
           iopl |-> f.iopl, nt |-> f.nt, ac |-> 0]
  BY <1>5 DEF FlagNames
<1> QED
  BY <1>4, <1>6 DEF x

-----------------------------------------------------------------------------
\* Numbers.
LEMMA Sizes ==
  /\ Byte \in Nat /\ 0 < Byte /\ Word \in Nat /\ 0 < Word /\ Meg \in Nat /\ 0 < Meg
  /\ Byte # Word
BY SMT DEF Byte, Word, Meg

LEMMA Numbers8 ==
  /\ \A v \in Words : v \in Nat /\ v \in Int /\ v < Word
  /\ \A v \in Octets : v \in Nat /\ v \in Int /\ v \in Words
  /\ \A i \in 0..7 : i \in Words /\ i \in Octets
<1>1. Byte < Word /\ 7 < Byte
  BY SMT DEF Byte, Word
<1> QED
  BY <1>1, Sizes DEF Words, Octets

LEMMA ByteFacts ==
  /\ \A v \in Int : v % Byte \in Octets
  /\ \A v \in Int : v % Word \in Words
  /\ \A v \in Int : v % Meg \in 0 .. Meg - 1
<1>1. \A n \in Nat \ {0} : \A v \in Int : v % n \in 0 .. n - 1
  OBVIOUS
<1> QED
  BY <1>1, Sizes DEF Words, Octets

LEMMA Bytes16 ==
  ASSUME NEW v \in Words
  PROVE  /\ v % Byte \in Octets
         /\ v \div Byte \in Octets
         /\ v = (v % Byte) + Byte * (v \div Byte)
<1>1. v \in Nat /\ v < 256 * 256
  BY SMT DEF Words, Word, Byte
<1>2. /\ v % 256 \in 0..255 /\ v \div 256 \in 0..255
      /\ v = (v % 256) + 256 * (v \div 256)
  BY <1>1, SMT
<1> QED
  BY <1>2 DEF Byte, Octets

LEMMA Word16 ==
  ASSUME NEW low \in Octets, NEW high \in Octets
  PROVE  /\ low + Byte * high \in Words
         /\ Byte * high + low \in Words
         /\ low \in Words
<1>1. low \in 0..255 /\ high \in 0..255
  BY DEF Byte, Octets
<1>2. /\ low + 256 * high \in Nat /\ low + 256 * high < 256 * 256
      /\ low \in Nat /\ low < 256 * 256
  BY <1>1, SMT
<1>3. low + Byte * high \in Nat /\ low + Byte * high < Word /\ low \in Nat /\ low < Word
  BY <1>2 DEF Byte, Word
<1>4. Byte * high + low = low + Byte * high
  BY <1>1 DEF Byte
<1> QED
  BY <1>3, <1>4, Sizes DEF Words

-----------------------------------------------------------------------------
\* The parts of a machine, one by one.
LEMMA Fields ==
  DOMAIN Reset = {"r", "h", "s", "ip", "f", "mem", "hlt", "exited", "ports", "seg", "over",
                  "mode", "reg", "rm", "disp"}
BY DEF Reset

LEMMA Parts ==
  ASSUME NEW x, MachineOK(x)
  PROVE  /\ x.r \in [0..7 -> Words] /\ x.h \in [0..7 -> Words] /\ x.s \in [0..5 -> Words]
         /\ \A i \in 0..7 : x.r[i] \in Words /\ x.h[i] \in Words
         /\ \A i \in 0..5 : x.s[i] \in Words
         /\ x.ip \in Words /\ x.seg \in Words /\ x.disp \in Words
         /\ x.f \in Flags
         /\ x.mode \in 0..3 /\ x.reg \in 0..7 /\ x.rm \in 0..7
         /\ x.hlt \in BOOLEAN /\ x.exited \in BOOLEAN /\ x.over \in BOOLEAN
BY DEF MachineOK

LEMMA WithR ==
  ASSUME NEW x, MachineOK(x), NEW i \in 0..7, NEW v \in Words
  PROVE  MachineOK([x EXCEPT !.r[i] = v])
BY Fields DEF MachineOK

LEMMA WithRs ==
  ASSUME NEW x, MachineOK(x), NEW r \in [0..7 -> Words]
  PROVE  MachineOK([x EXCEPT !.r = r])
BY Fields DEF MachineOK

LEMMA WithH ==
  ASSUME NEW x, MachineOK(x), NEW i \in 0..7, NEW v \in Words
  PROVE  MachineOK([x EXCEPT !.h[i] = v])
BY Fields DEF MachineOK

LEMMA WithHs ==
  ASSUME NEW x, MachineOK(x), NEW h \in [0..7 -> Words]
  PROVE  MachineOK([x EXCEPT !.h = h])
BY Fields DEF MachineOK

LEMMA WithS ==
  ASSUME NEW x, MachineOK(x), NEW i \in 0..5, NEW v \in Words
  PROVE  MachineOK([x EXCEPT !.s[i] = v])
BY Fields DEF MachineOK

LEMMA WithIP ==
  ASSUME NEW x, MachineOK(x), NEW v \in Words
  PROVE  MachineOK([x EXCEPT !.ip = v])
BY Fields DEF MachineOK

LEMMA WithF ==
  ASSUME NEW x, MachineOK(x), NEW f \in Flags
  PROVE  MachineOK([x EXCEPT !.f = f])
BY Fields DEF MachineOK

LEMMA WithExited ==
  ASSUME NEW x, MachineOK(x)
  PROVE  MachineOK(exit_or_restart(x))
BY Fields DEF MachineOK, exit_or_restart

LEMMA WithHlt ==
  ASSUME NEW x, MachineOK(x), NEW b \in BOOLEAN
  PROVE  MachineOK([x EXCEPT !.hlt = b])
BY Fields DEF MachineOK

LEMMA WithFields ==
  ASSUME NEW x, MachineOK(x), NEW mode \in 0..3, NEW reg \in 0..7, NEW rm \in 0..7
  PROVE  MachineOK([x EXCEPT !.mode = mode, !.reg = reg, !.rm = rm])
BY Fields DEF MachineOK

LEMMA WithDisp ==
  ASSUME NEW x, MachineOK(x), NEW v \in Words
  PROVE  MachineOK([x EXCEPT !.disp = v])
BY Fields DEF MachineOK

LEMMA WithSegment ==
  ASSUME NEW x, MachineOK(x), NEW b \in BOOLEAN, NEW v \in Words
  PROVE  MachineOK([x EXCEPT !.over = b, !.seg = v])
BY Fields DEF MachineOK

LEMMA PutOK ==
  ASSUME NEW T, NEW f, f \in [DOMAIN f -> T], NEW k, NEW v \in T
  PROVE  /\ Put(f, k, v) \in [DOMAIN f \cup {k} -> T]
         /\ DOMAIN Put(f, k, v) = DOMAIN f \cup {k}
         /\ Put(f, k, v)[k] = v
         /\ \A i \in DOMAIN f : i # k => Put(f, k, v)[i] = f[i]
BY DEF Put

LEMMA WithMem ==
  ASSUME NEW x, MachineOK(x), NEW a \in 0 .. Meg - 1, NEW v \in Octets
  PROVE  MachineOK([x EXCEPT !.mem = Put(@, a, v)])
<1>1. /\ DOMAIN x.mem \subseteq 0 .. Meg - 1
      /\ x.mem \in [DOMAIN x.mem -> Octets]
  BY DEF MachineOK
<1> DEFINE f == x.mem
           M == Put(f, a, v)
<1>2. M \in [DOMAIN f \cup {a} -> Octets] /\ DOMAIN M = DOMAIN f \cup {a}
  <2>1. f \in [DOMAIN f -> Octets] /\ v \in Octets
    BY <1>1
  <2> HIDE DEF f
  <2>2. M \in [DOMAIN f \cup {a} -> Octets]
    BY <2>1, PutOK
  <2> HIDE DEF M
  <2>3. DOMAIN M = DOMAIN f \cup {a}
    BY <2>2
  <2> QED
    BY <2>2, <2>3
<1>3. DOMAIN M \subseteq 0 .. Meg - 1 /\ M \in [DOMAIN M -> Octets]
  BY <1>1, <1>2
<1> HIDE DEF M
<1>4. MachineOK([x EXCEPT !.mem = M])
  BY <1>3, Fields DEF MachineOK
<1> QED
  BY <1>4 DEF M

-----------------------------------------------------------------------------
\* Memory.
LEMMA CellOK ==
  ASSUME NEW x, MachineOK(x), NEW a
  PROVE  cell(x, a) \in Octets
<1>1. 0 \in Octets
  BY Sizes DEF Octets
<1> QED
  BY <1>1 DEF cell, MachineOK

LEMMA ReadOK ==
  ASSUME NEW x, MachineOK(x), NEW a
  PROVE  /\ Read8(x, a) \in Octets
         /\ Read16(x, a) \in Words
         /\ Read16Unsafe(x, a) \in Words
         /\ \A o : Read16Long(x, a, o) \in Words
BY CellOK, Word16 DEF Read8, Read16, Read16Unsafe, Read16Long

LEMMA Write8OK ==
  ASSUME NEW x, MachineOK(x), NEW a \in Int, NEW v \in Octets
  PROVE  MachineOK(Write8(x, a, v))
BY ByteFacts, WithMem DEF Write8

LEMMA Write16OK ==
  ASSUME NEW x, MachineOK(x), NEW a \in Int, NEW v \in Words
  PROVE  MachineOK(Write16(x, a, v))
BY Write8OK, Bytes16 DEF Write16

LEMMA Write16LongOK ==
  ASSUME NEW x, MachineOK(x), NEW s \in Words, NEW o \in Words, NEW v \in Words
  PROVE  MachineOK(Write16Long(x, s, o, v))
<1>1. s * 16 + o \in Int /\ (o + 1) % Word \in Int
  BY Sizes, Numbers8, ByteFacts
<1>2. s * 16 + ((o + 1) % Word) \in Int
  BY <1>1, Sizes, Numbers8
<1> QED
  BY <1>1, <1>2, Write8OK, Bytes16 DEF Write16Long

\* A number of the size w.
LEMMA OfSize ==
  /\ 0 .. Byte - 1 = Octets
  /\ 0 .. Word - 1 = Words
BY DEF Octets, Words

LEMMA ReadLongOK ==
  ASSUME NEW x, MachineOK(x), NEW s, NEW o, NEW w \in {Byte, Word}
  PROVE  ReadLong(x, s, o, w) \in 0 .. w - 1
BY ReadOK, OfSize, Sizes DEF ReadLong

LEMMA WriteLongOK ==
  ASSUME NEW x, MachineOK(x), NEW s \in Words, NEW o \in Words, NEW w \in {Byte, Word},
         NEW v \in 0 .. w - 1
  PROVE  MachineOK(WriteLong(x, s, o, v, w))
<1>1. CASE w = Byte
  <2>1. s * 16 + o \in Int /\ v \in Octets
    BY <1>1, Sizes, OfSize
  <2> QED
    BY <1>1, <2>1, Write8OK DEF WriteLong
<1>2. CASE w = Word
  BY <1>2, Write16LongOK, OfSize, Sizes DEF WriteLong
<1> QED
  BY <1>1, <1>2

-----------------------------------------------------------------------------
\* Registers, the instruction stream and the stack.
LEMMA RegisterOK ==
  ASSUME NEW x, MachineOK(x), NEW i \in 0..7, NEW w \in {Byte, Word}
  PROVE  R(x, i, w) \in 0 .. w - 1
<1>1. CASE w = Word
  BY <1>1, Parts, OfSize, Sizes DEF R
<1>2. CASE w = Byte /\ i < 4
  <2>1. R(x, i, w) = x.r[i] % Byte
    BY <1>2, Sizes DEF R
  <2>2. x.r[i] % Byte \in Octets
    BY Parts, Bytes16
  <2> QED
    BY <1>2, <2>1, <2>2, OfSize
<1>3. CASE w = Byte /\ i > 3
  <2>1. i - 4 \in 0..7
    BY <1>3
  <2>2. x.r[i - 4] \in Words
    BY <2>1, Parts
  <2>3. x.r[i - 4] \div Byte \in Octets
    BY <2>2, Bytes16
  <2>4. R(x, i, w) = x.r[i - 4] \div Byte
    BY <1>3, Sizes DEF R
  <2> QED
    BY <1>3, <2>3, <2>4, OfSize
<1> QED
  BY <1>1, <1>2, <1>3

LEMMA SetROK ==
  ASSUME NEW x, MachineOK(x), NEW i \in 0..7, NEW w \in {Byte, Word}, NEW v \in 0 .. w - 1
  PROVE  MachineOK(SetR(x, i, w, v))
<1>1. CASE w = Word
  BY <1>1, WithR, OfSize, Sizes DEF SetR
<1>2. CASE w = Byte /\ i < 4
  <2> DEFINE u == x.r[i]
             n == u - (u % Byte) + v
  <2>1. u \in Words
    BY Parts
  <2>2. n \in Words
    <3>1. v \in Octets
      BY <1>2, OfSize
    <3>2. u % Byte \in Octets /\ u \div Byte \in Octets /\ u = (u % Byte) + Byte * (u \div Byte)
      BY <2>1, Bytes16
    <3>3. v + Byte * (u \div Byte) \in Words
      BY <3>1, <3>2, Word16
    <3>4. n = v + Byte * (u \div Byte)
      <4> DEFINE p == Byte * (u \div Byte)
                 q == u % Byte
      <4>1. p \in Nat /\ q \in Nat /\ u = q + p /\ v \in Nat
        <5>1. q \in Nat /\ v \in Nat /\ u \div Byte \in Nat
          BY <3>1, <3>2, Numbers8
        <5>2. p \in Nat
          BY <5>1, Sizes
        <5> QED
          BY <3>2, <5>1, <5>2
      <4> HIDE DEF p, q, u
      <4>2. u - q + v = v + p
        BY <4>1
      <4> QED
        BY <4>2 DEF p, q
    <3> QED
      BY <3>3, <3>4
  <2> HIDE DEF n
  <2>3. MachineOK([x EXCEPT !.r[i] = n])
    BY <2>2, WithR
  <2> QED
    BY <1>2, <2>3, Sizes DEF SetR, n
<1>3. CASE w = Byte /\ i > 3
  <2> DEFINE u == x.r[i - 4]
             n == (u % Byte) + Byte * v
  <2>0. i - 4 \in 0..7
    BY <1>3
  <2>1. u \in Words
    BY <2>0, Parts
  <2>2. n \in Words
    BY <1>3, <2>1, Bytes16, Word16, OfSize
  <2> HIDE DEF n
  <2>3. MachineOK([x EXCEPT !.r[i - 4] = n])
    BY <2>0, <2>2, WithR
  <2> QED
    BY <1>3, <2>3, Sizes DEF SetR, n
<1> QED
  BY <1>1, <1>2, <1>3

LEMMA AddOK ==
  ASSUME NEW x, MachineOK(x), NEW i \in 0..7, NEW n \in Int
  PROVE  MachineOK(Add(x, i, n))
<1>1. (x.r[i] + n) % Word \in Words
  <2>1. x.r[i] + n \in Int
    BY Parts, Numbers8
  <2> QED
    BY <2>1, ByteFacts
<1> QED
  BY <1>1, WithR DEF Add

LEMMA AdvanceOK ==
  ASSUME NEW x, MachineOK(x), NEW n \in Int
  PROVE  MachineOK(AdvanceIP(x, n))
<1>1. (x.ip + n) % Word \in Words
  <2>1. x.ip + n \in Int
    BY Parts, Numbers8
  <2> QED
    BY <2>1, ByteFacts
<1> QED
  BY <1>1, WithIP DEF AdvanceIP

LEMMA CodeOK ==
  ASSUME NEW x, MachineOK(x)
  PROVE  /\ Code8(x) \in Octets /\ Code8(x) \in Words /\ Code8(x) \in Int
         /\ Code16(x) \in Words /\ Code16(x) \in Int
         /\ \A w \in {Byte, Word} : Imm(x, w) \in 0 .. w - 1 /\ MachineOK(SkipImm(x, w))
<1>1. Code8(x) \in Octets /\ Code16(x) \in Words
  BY CellOK, ReadOK DEF Code8, Code16
<1>2. Code8(x) \in Words /\ Code8(x) \in Int /\ Code16(x) \in Int
  BY <1>1, Sizes, Numbers8
<1>3. ASSUME NEW w \in {Byte, Word}
      PROVE  Imm(x, w) \in 0 .. w - 1 /\ MachineOK(SkipImm(x, w))
  BY <1>1, <1>3, OfSize, Sizes, AdvanceOK DEF Imm, SkipImm
<1> QED
  BY <1>1, <1>2, <1>3

LEMMA PushOK ==
  ASSUME NEW x, MachineOK(x), NEW v \in Words
  PROVE  MachineOK(push16(x, v))
<1> DEFINE sp == (x.r[SP] - 2) % Word
           y == [x EXCEPT !.r[SP] = sp]
<1>5. push16(x, v) = Write16Long(y, x.s[SS], sp, v)
  BY DEF push16
<1>1. SP \in 0..7 /\ SS \in 0..5
  BY DEF SP, SS
<1>2. sp \in Words
  <2>1. x.r[SP] - 2 \in Int
    BY <1>1, Parts, Numbers8
  <2> QED
    BY <2>1, ByteFacts
<1> HIDE DEF sp
<1>3. MachineOK(y)
  BY <1>1, <1>2, WithR
<1>4. x.s[SS] \in Words
  BY <1>1, Parts
<1> HIDE DEF y
<1> QED
  BY <1>2, <1>3, <1>4, <1>5, Write16LongOK

LEMMA TopOK ==
  ASSUME NEW x, MachineOK(x)
  PROVE  Top(x) \in Words /\ MachineOK(Drop(x))
BY ReadOK, AddOK DEF Top, Drop, SP

LEMMA PopOK ==
  ASSUME NEW x, MachineOK(x)
  PROVE  /\ \A i \in 0..7 : MachineOK(PopR(x, i))
         /\ \A i \in 0..5 : MachineOK(PopS(x, i))
         /\ MachineOK(PopIP(x))
BY TopOK, WithR, WithS, WithIP DEF PopR, PopS, PopIP

-----------------------------------------------------------------------------
\* Flags.
LEMMA OverflowBits ==
  \A v \in 0..1 : v \in Overflows
BY DEF Overflows

LEMMA FlagOK ==
  ASSUME NEW f \in Flags, NEW b \in FlagNames \ {"iopl"}, NEW v \in 0..1
  PROVE  [f EXCEPT ![b] = v] \in Flags
<1>1. v \in Octets
  BY DEF Octets, Byte
<1>2. f.iopl \in 0..3 /\ f.of \in Overflows /\ f \in [FlagNames -> Octets]
  BY DEF Flags
<1> DEFINE g == [f EXCEPT ![b] = v]
<1>3. g \in [FlagNames -> Octets]
  BY <1>1, <1>2
<1>4. \A c \in FlagNames \ {"iopl", "of"} : g[c] \in 0..1
  BY <1>2 DEF Flags
<1>5. g.iopl \in 0..3
  BY <1>2
<1>6. g.of \in Overflows
  BY <1>2, OverflowBits
<1> QED
  BY <1>3, <1>4, <1>5, <1>6 DEF Flags

\* A ROR of a double word leaves 254 or 255 in of.
LEMMA OverflowOK ==
  ASSUME NEW f \in Flags, NEW v \in Overflows
  PROVE  [f EXCEPT !.of = v] \in Flags
<1>1. v \in Octets
  BY DEF Octets, Byte, Overflows
<1>2. f.iopl \in 0..3 /\ f \in [FlagNames -> Octets]
  BY DEF Flags
<1> DEFINE g == [f EXCEPT !.of = v]
<1>3. g \in [FlagNames -> Octets]
  BY <1>1, <1>2
<1>4. \A c \in FlagNames \ {"iopl", "of"} : g[c] \in 0..1
  BY <1>2 DEF Flags
<1>5. g.iopl \in 0..3
  BY <1>2
<1>6. g.of \in Overflows
  BY <1>2 DEF FlagNames
<1> QED
  BY <1>3, <1>4, <1>5, <1>6 DEF Flags

LEMMA FlagBits ==
  ASSUME NEW f \in Flags
  PROVE  /\ f.cf \in 0..1 /\ f.pf \in 0..1 /\ f.af \in 0..1 /\ f.zf \in 0..1
         /\ f.sf \in 0..1 /\ f.tf \in 0..1 /\ f.ifl \in 0..1 /\ f.df \in 0..1
         /\ f.of \in Overflows /\ f.nt \in 0..1 /\ f.ac \in 0..1 /\ f.iopl \in 0..3
BY DEF Flags, FlagNames

LEMMA SetFlag ==
  ASSUME NEW f \in Flags, NEW v \in 0..1
  PROVE  /\ [f EXCEPT !.cf = v] \in Flags
         /\ [f EXCEPT !.pf = v] \in Flags
         /\ [f EXCEPT !.af = v] \in Flags
         /\ [f EXCEPT !.zf = v] \in Flags
         /\ [f EXCEPT !.sf = v] \in Flags
         /\ [f EXCEPT !.of = v] \in Flags
         /\ [f EXCEPT !.ifl = v] \in Flags
         /\ [f EXCEPT !.tf = v] \in Flags
         /\ [f EXCEPT !.df = v] \in Flags
         /\ [f EXCEPT !.ac = v] \in Flags
BY FlagOK DEF FlagNames

LEMMA Bits ==
  0 \in 0..1 /\ 1 \in 0..1
OBVIOUS

LEMMA BoolBit ==
  ASSUME NEW b
  PROVE  Bool(b) \in 0..1
BY DEF Bool

LEMMA SignBit ==
  ASSUME NEW v, NEW w
  PROVE  Sign(v, w) \in 0..1
BY BoolBit DEF Sign

LEMMA ParityBit ==
  ASSUME NEW v \in Int
  PROVE  parity(v) \in 0..1
<1> DEFINE n == 1 + v + v \div 2 + v \div 4 + v \div 8 + v \div 16 + v \div 32 + v \div 64
                + v \div 128
<1>1. n \in Int
  OBVIOUS
<1> HIDE DEF n
<1>2. n % 2 \in 0..1
  BY <1>1
<1> QED
  BY <1>2 DEF parity, n

LEMMA SzpOK ==
  ASSUME NEW f \in Flags, NEW v \in Int, NEW w
  PROVE  flag_szp(f, v, w) \in Flags
<1> DEFINE f1 == [f EXCEPT !.zf = Bool(v = 0)]
           f2 == [f1 EXCEPT !.sf = Sign(v, w)]
           f3 == [f2 EXCEPT !.pf = parity(v)]
<1>1. flag_szp(f, v, w) = f3
  BY DEF flag_szp
<1>2. f1 \in Flags
  BY SetFlag, BoolBit
<1> HIDE DEF f1
<1>3. f2 \in Flags
  BY <1>2, SetFlag, SignBit
<1> HIDE DEF f2
<1>4. f3 \in Flags
  BY <1>3, SetFlag, ParityBit
<1> QED
  BY <1>1, <1>4

LEMMA LogicOK ==
  ASSUME NEW f \in Flags, NEW v \in Int, NEW w
  PROVE  flag_logic(f, v, w) \in Flags
<1> DEFINE f1 == flag_szp(f, v, w)
           f2 == [f1 EXCEPT !.cf = 0]
           f3 == [f2 EXCEPT !.of = 0]
<1>1. flag_logic(f, v, w) = f3
  BY DEF flag_logic
<1>2. f1 \in Flags
  BY SzpOK
<1> HIDE DEF f1
<1>3. f2 \in Flags
  BY <1>2, SetFlag, Bits
<1> HIDE DEF f2
<1>4. f3 \in Flags
  BY <1>3, SetFlag, Bits
<1> QED
  BY <1>1, <1>4

\* Three bits of a result, whatever they are.
LEMMA ThreeOK ==
  ASSUME NEW f \in Flags, NEW c \in 0..1, NEW o \in 0..1, NEW a \in 0..1
  PROVE  [f EXCEPT !.cf = c, !.of = o, !.af = a] \in Flags
<1> DEFINE f1 == [f EXCEPT !.cf = c]
           f2 == [f1 EXCEPT !.of = o]
           f3 == [f2 EXCEPT !.af = a]
<1>1. f1 \in Flags
  BY SetFlag
<1> HIDE DEF f1
<1>2. f2 \in Flags
  BY <1>1, SetFlag
<1> HIDE DEF f2
<1>3. f3 \in Flags
  BY <1>2, SetFlag
<1> QED
  BY <1>3 DEF f1, f2

LEMMA HalfCarryBit ==
  ASSUME NEW a \in Int, NEW b \in Int, NEW d \in Int
  PROVE  (Bit4(a) + Bit4(b) + Bit4(d)) % 2 \in 0..1
BY DEF Bit4

LEMMA AdcOK ==
  ASSUME NEW f \in Flags, NEW a \in Int, NEW b \in Int, NEW c \in Int, NEW w \in Nat, 0 < w
  PROVE  flag_adc(f, a, b, c, w) \in Flags
<1> DEFINE dst == a + b + c
           g == flag_szp(f, dst % w, w)
           cf == Bool(dst >= w)
           of == Bool(Sign(dst, w) # Sign(a, w) /\ Sign(dst, w) # Sign(b, w))
           af == (Bit4(a) + Bit4(b) + Bit4(dst)) % 2
<1>1. flag_adc(f, a, b, c, w) = [g EXCEPT !.cf = cf, !.of = of, !.af = af]
  BY DEF flag_adc
<1>2. dst \in Int
  OBVIOUS
<1>3. cf \in 0..1 /\ of \in 0..1
  BY <1>2, BoolBit
<1> HIDE DEF dst
<1>4. dst % w \in Int
  BY <1>2
<1>5. af \in 0..1
  BY <1>2, HalfCarryBit
<1>6. g \in Flags
  BY <1>4, SzpOK, Zenon
<1> HIDE DEF g, cf, of, af
<1>7. [g EXCEPT !.cf = cf, !.of = of, !.af = af] \in Flags
  BY <1>3, <1>5, <1>6, ThreeOK, Zenon
<1> QED
  BY <1>1, <1>7

LEMMA SubOK ==
  ASSUME NEW f \in Flags, NEW a \in Int, NEW b \in Int, NEW w \in Nat, 0 < w
  PROVE  flag_sub(f, a, b, w) \in Flags
<1> DEFINE dst == a - b
           g == flag_szp(f, dst % w, w)
           cf == Bool(a < b)
           of == Bool(Sign(dst, w) # Sign(a, w) /\ Sign(a, w) # Sign(b, w))
           af == (Bit4(a) + Bit4(b) + Bit4(dst)) % 2
<1>1. flag_sub(f, a, b, w) = [g EXCEPT !.cf = cf, !.of = of, !.af = af]
  BY DEF flag_sub
<1>2. dst \in Int
  OBVIOUS
<1>3. cf \in 0..1 /\ of \in 0..1
  BY <1>2, BoolBit
<1> HIDE DEF dst
<1>4. dst % w \in Int
  BY <1>2
<1>5. af \in 0..1
  BY <1>2, HalfCarryBit
<1>6. g \in Flags
  BY <1>4, SzpOK, Zenon
<1> HIDE DEF g, cf, of, af
<1>7. [g EXCEPT !.cf = cf, !.of = of, !.af = af] \in Flags
  BY <1>3, <1>5, <1>6, ThreeOK, Zenon
<1> QED
  BY <1>1, <1>7

LEMMA MadeOK ==
  ASSUME NEW f \in Flags
  PROVE  makeflags(f) \in Words
<1>1. makeflags(f) \in Nat
  <2>1. /\ f.cf \in Nat /\ f.pf \in Nat /\ f.af \in Nat /\ f.zf \in Nat /\ f.sf \in Nat
        /\ f.tf \in Nat /\ f.ifl \in Nat /\ f.df \in Nat /\ f.of \in Nat /\ f.nt \in Nat
        /\ f.iopl \in Nat
    BY FlagBits DEF Overflows
  <2> QED
    BY <2>1, WordIsNat
<1>2. makeflags(f) < 256 * 256
  BY FlagBits, SMTT(60) DEF makeflags, Overflows
<1>3. Word = 256 * 256
  BY DEF Word, Byte
<1>4. makeflags(f) < Word
  BY <1>2, <1>3
<1> QED
  BY <1>1, <1>4, Sizes DEF Words

LEMMA BitOf ==
  ASSUME NEW v \in Int, NEW n \in Nat, 0 < n
  PROVE  /\ (v \div n) % 2 \in 0..1
         /\ (v \div n) % 4 \in 0..3
OBVIOUS

LEMMA DecodedOK ==
  ASSUME NEW v \in Int
  PROVE  decodeflags(v) \in Flags
<1> DEFINE bit(n) == (v \div n) % 2
<1>1. /\ bit(1) \in 0..1 /\ bit(4) \in 0..1 /\ bit(16) \in 0..1 /\ bit(64) \in 0..1
      /\ bit(128) \in 0..1 /\ bit(256) \in 0..1 /\ bit(512) \in 0..1 /\ bit(1024) \in 0..1
      /\ bit(2048) \in 0..1 /\ bit(16384) \in 0..1 /\ (v \div 4096) % 4 \in 0..3
  BY BitOf
<1> DEFINE iopl == (v \div 4096) % 4
<1>2. decodeflags(v) =
        [cf |-> bit(1), pf |-> bit(4), af |-> bit(16), zf |-> bit(64), sf |-> bit(128),
         tf |-> bit(256), ifl |-> bit(512), df |-> bit(1024), of |-> bit(2048),
         iopl |-> iopl, nt |-> bit(16384), ac |-> 0]
  BY DEF decodeflags
<1> HIDE DEF bit, iopl
<1>3. iopl \in 0..3
  BY <1>1 DEF iopl
<1> DEFINE f == decodeflags(v)
<1>4. /\ f.cf \in 0..1 /\ f.pf \in 0..1 /\ f.af \in 0..1 /\ f.zf \in 0..1
      /\ f.sf \in 0..1 /\ f.tf \in 0..1 /\ f.ifl \in 0..1 /\ f.df \in 0..1
      /\ f.of \in 0..1 /\ f.nt \in 0..1 /\ f.ac \in 0..1 /\ f.iopl \in 0..3
      /\ f = [b \in FlagNames |-> f[b]]
  BY <1>1, <1>2, <1>3 DEF FlagNames
<1> HIDE DEF f
<1>5. f \in [FlagNames -> Octets]
  <2>1. \A n \in 0..3 : n \in Octets
    BY DEF Octets, Byte
  <2>2. \A b \in FlagNames : f[b] \in 0..3
    BY <1>4 DEF FlagNames
  <2>3. f = [b \in FlagNames |-> f[b]]
    BY <1>4
  <2> QED
    BY <2>1, <2>2, <2>3
<1>6. \A b \in FlagNames \ {"iopl", "of"} : f[b] \in 0..1
  BY <1>4 DEF FlagNames
<1>7. f.of \in Overflows /\ f.iopl \in 0..3
  BY <1>4, OverflowBits
<1>8. f \in Flags
  BY <1>5, <1>6, <1>7 DEF Flags
<1> QED
  BY <1>8 DEF f

-----------------------------------------------------------------------------
\* The operand of the ModR/M byte.
LEMMA SignedOK ==
  ASSUME NEW v \in Int, NEW w \in Int
  PROVE  Signed(v, w) \in Int
BY DEF Signed

LEMMA FieldsOK ==
  ASSUME NEW b \in Octets
  PROVE  b \div 64 \in 0..3 /\ (b \div 8) % 8 \in 0..7 /\ b % 8 \in 0..7
BY DEF Octets, Byte

LEMMA ModRmOK ==
  ASSUME NEW x, MachineOK(x)
  PROVE  MachineOK(modregrm(x))
<1> DEFINE b == Code8(x)
           y == [x EXCEPT !.mode = b \div 64, !.reg = (b \div 8) % 8, !.rm = b % 8]
           n == AdvanceIP(y, 1)
           short == [n EXCEPT !.disp = Signed(Code8(n), Byte) % Word]
           long == [n EXCEPT !.disp = Code16(n)]
           none == [n EXCEPT !.disp = 0]
<1>1. modregrm(x) \in {AdvanceIP(short, 1), AdvanceIP(long, 2), none}
  <2> HIDE DEF n, short, long, none
  <2>1. modregrm(x) = CASE n.mode = 1 -> AdvanceIP(short, 1)
                        [] n.mode = 2 \/ (n.mode = 0 /\ n.rm = 6) -> AdvanceIP(long, 2)
                        [] OTHER -> none
    BY DEF modregrm, n, short, long, none
  <2> QED
    BY <2>1
<1>2. MachineOK(y)
  <2>1. b \div 64 \in 0..3 /\ (b \div 8) % 8 \in 0..7 /\ b % 8 \in 0..7
    BY CodeOK, FieldsOK
  <2> HIDE DEF b
  <2> QED
    BY <2>1, WithFields, Zenon
<1> HIDE DEF y
<1>3. MachineOK(n)
  BY <1>2, AdvanceOK
<1> HIDE DEF n
<1>4. Signed(Code8(n), Byte) % Word \in Words /\ Code16(n) \in Words /\ 0 \in Words
  <2>1. Code8(n) \in Int /\ Code16(n) \in Words
    BY <1>3, CodeOK
  <2>2. Signed(Code8(n), Byte) \in Int
    BY <2>1, SignedOK, Sizes
  <2>3. Signed(Code8(n), Byte) % Word \in Words
    BY <2>2, ByteFacts
  <2> QED
    BY <2>1, <2>3, Numbers8
<1>5. MachineOK(short) /\ MachineOK(long) /\ MachineOK(none)
  BY <1>3, <1>4, WithDisp
<1> HIDE DEF short, long, none
<1>6. MachineOK(AdvanceIP(short, 1)) /\ MachineOK(AdvanceIP(long, 2))
  BY <1>5, AdvanceOK
<1> QED
  BY <1>1, <1>5, <1>6

LEMMA AddressOK ==
  ASSUME NEW x, MachineOK(x)
  PROVE  Offset(x) \in Words /\ useseg(x) \in Words /\ getea(x) \in Nat
<1>1. Offset(x) \in Words
  <2> DEFINE term(i) == IF i \in Based(x) THEN x.r[i] ELSE 0
             sum == term(BX) + term(BP) + term(SI) + term(DI) + x.disp
  <2>1. BX \in 0..7 /\ BP \in 0..7 /\ SI \in 0..7 /\ DI \in 0..7
    BY DEF BX, BP, SI, DI
  <2>2. x.r[BX] \in Int /\ x.r[BP] \in Int /\ x.r[SI] \in Int /\ x.r[DI] \in Int /\ x.disp \in Int
    BY <2>1, Parts, Numbers8
  <2>3. term(BX) \in Int /\ term(BP) \in Int /\ term(SI) \in Int /\ term(DI) \in Int
    BY <2>2
  <2>4. sum \in Int
    <3> HIDE DEF term
    <3> QED
      BY <2>2, <2>3
  <2>5. Offset(x) = sum % Word
    BY DEF Offset
  <2> HIDE DEF sum
  <2> QED
    BY <2>4, <2>5, ByteFacts
<1>2. useseg(x) \in Words
  BY Parts DEF useseg, SS
<1> QED
  BY <1>1, <1>2, Numbers8 DEF getea

LEMMA RmOK ==
  ASSUME NEW x, MachineOK(x), NEW w \in {Byte, Word}
  PROVE  Rm(x, w) \in 0 .. w - 1
BY Parts, RegisterOK, ReadOK, OfSize, Sizes DEF Rm

LEMMA SetRmOK ==
  ASSUME NEW x, MachineOK(x), NEW w \in {Byte, Word}, NEW v \in 0 .. w - 1
  PROVE  MachineOK(SetRm(x, w, v))
<1>1. CASE x.mode = 3
  BY <1>1, Parts, SetROK DEF SetRm
<1>2. CASE x.mode # 3
  <2>1. getea(x) \in Int
    BY AddressOK
  <2> QED
    BY <1>2, <2>1, Write8OK, Write16OK, OfSize, Sizes DEF SetRm
<1> QED
  BY <1>1, <1>2

LEMMA IntCallOK ==
  ASSUME NEW x, MachineOK(x), NEW n
  PROVE  MachineOK(intcall86(x, n))
<1> DEFINE a == push16(x, makeflags(x.f))
           b == push16(a, x.s[CS])
           c == push16(b, x.ip)
           seg == Read16Unsafe(c, 4 * n + 2)
           off == Read16Unsafe(c, 4 * n)
           d == [c EXCEPT !.s[CS] = seg]
           e == [d EXCEPT !.ip = off]
           f == [[c.f EXCEPT !.ifl = 0] EXCEPT !.tf = 0]
<1>1. MachineOK(a)
  BY Parts, MadeOK, PushOK
<1>2. MachineOK(b)
  <2>1. x.s[CS] \in Words
    BY Parts DEF CS
  <2> HIDE DEF a
  <2> QED
    BY <1>1, <2>1, PushOK
<1>3. MachineOK(c)
  <2>1. x.ip \in Words
    BY Parts
  <2> HIDE DEF b
  <2> QED
    BY <1>2, <2>1, PushOK
<1>4. intcall86(x, n) = [c EXCEPT !.s[CS] = seg, !.ip = off, !.f.ifl = 0, !.f.tf = 0]
  BY DEF intcall86
<1> HIDE DEF c
<1>5. seg \in Words /\ off \in Words
  BY <1>3, ReadOK
<1>6. f \in Flags
  <2>1. c.f \in Flags
    BY <1>3, Parts
  <2> DEFINE g == [c.f EXCEPT !.ifl = 0]
  <2>2. g \in Flags
    BY <2>1, SetFlag, Bits
  <2> HIDE DEF g
  <2>3. [g EXCEPT !.tf = 0] \in Flags
    BY <2>2, SetFlag, Bits
  <2> QED
    BY <2>3 DEF g
<1> HIDE DEF seg, off
<1>7. MachineOK(e)
  <2>1. MachineOK(d)
    BY <1>3, <1>5, WithS DEF CS
  <2> HIDE DEF d
  <2> QED
    BY <1>5, <2>1, WithIP
<1>8. intcall86(x, n) = [e EXCEPT !.f = f]
  BY <1>3, <1>4, Fields DEF MachineOK
<1> HIDE DEF e, f
<1> QED
  BY <1>6, <1>7, <1>8, WithF

-----------------------------------------------------------------------------
\* String instructions and ports.
LEMMA Names ==
  /\ AX \in 0..7 /\ CX \in 0..7 /\ DX \in 0..7 /\ BX \in 0..7
  /\ SP \in 0..7 /\ BP \in 0..7 /\ SI \in 0..7 /\ DI \in 0..7
  /\ ES \in 0..5 /\ CS \in 0..5 /\ SS \in 0..5 /\ DS \in 0..5 /\ FS \in 0..5 /\ GS \in 0..5
BY DEF AX, CX, DX, BX, SP, BP, SI, DI, ES, CS, SS, DS, FS, GS

LEMMA MoveOK ==
  ASSUME NEW x, MachineOK(x), NEW w
  PROVE  MachineOK(MoveSI(x, w)) /\ MachineOK(MoveDI(x, w))
<1>1. Stride(x, w) \in Int
  BY DEF Stride
<1> QED
  BY <1>1, AddOK, Names DEF MoveSI, MoveDI

LEMMA ElementOK ==
  ASSUME NEW x, MachineOK(x), NEW w \in {Byte, Word}
  PROVE  /\ Source(x, w) \in 0 .. w - 1 /\ Source(x, w) \in Int
         /\ Dest(x, w) \in 0 .. w - 1 /\ Dest(x, w) \in Int
         /\ R(x, AX, w) \in 0 .. w - 1 /\ R(x, AX, w) \in Int
<1>1. /\ Source(x, w) \in 0 .. w - 1 /\ Dest(x, w) \in 0 .. w - 1
      /\ R(x, AX, w) \in 0 .. w - 1
  BY ReadLongOK, RegisterOK, Names DEF Source, Dest
<1> QED
  BY <1>1, Sizes

\* What is stored at ES:DI.
LEMMA StoreDestOK ==
  ASSUME NEW x, MachineOK(x), NEW w \in {Byte, Word}, NEW v \in 0 .. w - 1
  PROVE  MachineOK(WriteLong(x, x.s[ES], x.r[DI], v, w))
<1>1. x.s[ES] \in Words /\ x.r[DI] \in Words
  BY Parts, Names
<1> QED
  BY <1>1, WriteLongOK

LEMMA ComparedOK ==
  ASSUME NEW x, MachineOK(x), NEW y, MachineOK(y), NEW w \in {Byte, Word},
         NEW a \in Int, NEW b \in Int
  PROVE  MachineOK([y EXCEPT !.f = flag_sub(x.f, a, b, w)])
<1>1. w \in Nat /\ 0 < w
  BY Sizes
<1>2. flag_sub(x.f, a, b, w) \in Flags
  BY <1>1, Parts, SubOK
<1> QED
  BY <1>2, WithF

LEMMA WithPorts ==
  ASSUME NEW x, MachineOK(x), NEW p, NEW v \in Words, p \in InPorts => v < Byte
  PROVE  MachineOK([x EXCEPT !.ports = Put(@, p, v)])
<1>1. /\ x.ports \in [DOMAIN x.ports -> Words]
      /\ \A q \in InPorts \cap DOMAIN x.ports : x.ports[q] < Byte
  BY DEF MachineOK
<1> DEFINE f == x.ports
           P == Put(f, p, v)
<1>2. P \in [DOMAIN f \cup {p} -> Words] /\ P[p] = v /\ \A i \in DOMAIN f : i # p => P[i] = f[i]
  <2>1. f \in [DOMAIN f -> Words]
    BY <1>1
  <2> HIDE DEF f
  <2>2. P \in [DOMAIN f \cup {p} -> Words]
    BY <2>1, PutOK
  <2>3. P[p] = v /\ \A i \in DOMAIN f : i # p => P[i] = f[i]
    BY DEF Put
  <2> QED
    BY <2>2, <2>3
<1>3. \A q \in InPorts \cap DOMAIN f : f[q] < Byte
  BY <1>1
<1>4. P \in [DOMAIN P -> Words] /\ \A q \in InPorts \cap DOMAIN P : P[q] < Byte
  <2> HIDE DEF P, f
  <2>1. DOMAIN P = DOMAIN f \cup {p}
    BY <1>2
  <2> QED
    BY <1>2, <1>3, <2>1
<1>5. [x EXCEPT !.ports = Put(@, p, v)] = [x EXCEPT !.ports = P]
  OBVIOUS
<1> HIDE DEF P
<1>6. MachineOK([x EXCEPT !.ports = P])
  BY <1>4, Fields DEF MachineOK
<1> QED
  BY <1>5, <1>6

LEMMA PortsApart ==
  OutPorts16 \cap InPorts = {}
BY DEF OutPorts16, InPorts

LEMMA PortOutOK ==
  ASSUME NEW x, MachineOK(x), NEW p
  PROVE  /\ \A v \in Octets : MachineOK(portout(x, p, v))
         /\ \A v \in Words : MachineOK(portout16(x, p, v))
<1>1. ASSUME NEW v \in Octets
      PROVE  MachineOK(portout(x, p, v))
  <2>1. v \in Words /\ v < Byte
    BY <1>1, Numbers8, Sizes DEF Octets
  <2> QED
    BY <2>1, WithPorts, WithExited DEF portout
<1>2. ASSUME NEW v \in Words
      PROVE  MachineOK(portout16(x, p, v))
  <2>1. CASE p \in OutPorts16
    <3>1. p \notin InPorts
      BY <2>1, PortsApart
    <3> QED
      BY <1>2, <2>1, <3>1, WithPorts DEF portout16
  <2>2. CASE p \notin OutPorts16
    BY <2>2, WithExited DEF portout16
  <2> QED
    BY <2>1, <2>2
<1> QED
  BY <1>1, <1>2

LEMMA PortInOK ==
  ASSUME NEW x, MachineOK(x), NEW p \in InPorts
  PROVE  portin(x, p) \in Octets
<1>1. 0 \in Octets
  BY Numbers8
<1>2. ASSUME p \in DOMAIN x.ports
      PROVE  x.ports[p] \in Octets
  <2>1. x.ports[p] \in Words /\ x.ports[p] < Byte
    BY <1>2 DEF MachineOK
  <2> QED
    BY <2>1, Sizes, Numbers8 DEF Octets
<1> QED
  BY <1>1, <1>2 DEF portin

LEMMA StringsOK ==
  ASSUME NEW x, MachineOK(x), NEW w \in {Byte, Word}
  PROVE  /\ MachineOK(movs(x, w)) /\ MachineOK(cmps(x, w)) /\ MachineOK(stos(x, w))
         /\ MachineOK(lods(x, w)) /\ MachineOK(scas(x, w))
         /\ MachineOK(ins(x, w)) /\ MachineOK(outs(x, w))
<1>1. MachineOK(movs(x, w))
  <2>1. MachineOK(WriteLong(x, x.s[ES], x.r[DI], Source(x, w), w))
    BY ElementOK, StoreDestOK
  <2> QED
    BY <2>1, MoveOK DEF movs
<1>2. MachineOK(cmps(x, w))
  <2>1. MachineOK(MoveDI(MoveSI(x, w), w))
    BY MoveOK
  <2> QED
    BY <2>1, ElementOK, ComparedOK DEF cmps
<1>3. MachineOK(stos(x, w))
  <2>1. MachineOK(WriteLong(x, x.s[ES], x.r[DI], R(x, AX, w), w))
    BY ElementOK, StoreDestOK
  <2> QED
    BY <2>1, MoveOK DEF stos
<1>4. MachineOK(lods(x, w))
  <2>1. MachineOK(SetR(x, AX, w, Source(x, w)))
    BY ElementOK, SetROK, Names
  <2> QED
    BY <2>1, MoveOK DEF lods
<1>5. MachineOK(scas(x, w))
  <2>1. MachineOK(MoveDI(x, w))
    BY MoveOK
  <2> QED
    BY <2>1, ElementOK, ComparedOK DEF scas
<1>6. MachineOK(ins(x, w))
  <2>1. ASSUME x.r[DX] \in InPorts
        PROVE  MachineOK(Write8(x, x.seg * 16 + x.r[SI], portin(x, x.r[DX])))
    <3>1. x.seg * 16 + x.r[SI] \in Int
      BY Parts, Names, Numbers8
    <3>2. portin(x, x.r[DX]) \in Octets
      BY <2>1, PortInOK
    <3> QED
      BY <3>1, <3>2, Write8OK
  <2> QED
    BY <2>1, MoveOK, WithExited DEF ins
<1>7. MachineOK(outs(x, w))
  <2>1. CASE w = Byte
    <3>1. Source(x, Byte) \in Octets
      BY <2>1, ElementOK, OfSize
    <3>2. MachineOK(portout(x, x.r[DX], Source(x, Byte)))
      BY <3>1, PortOutOK
    <3> QED
      BY <2>1, <3>2, MoveOK DEF outs
  <2>2. CASE w = Word
    <3>1. Source(x, Word) \in Words
      BY <2>2, ElementOK, OfSize
    <3>2. MachineOK(portout16(x, x.r[DX], Source(x, Word)))
      BY <3>1, PortOutOK
    <3> QED
      BY <2>2, <3>2, Sizes, MoveOK DEF outs
  <2> QED
    BY <2>1, <2>2
<1> QED
  BY <1>1, <1>2, <1>3, <1>4, <1>5, <1>6, <1>7

LEMMA StringOpOK ==
  ASSUME NEW x, MachineOK(x), NEW op \in Moving \cup Comparing
  PROVE  MachineOK(StringOp(x, op))
<1> DEFINE w == IF op % 2 = 0 THEN Byte ELSE Word
<1>1. w \in {Byte, Word}
  OBVIOUS
<1>2. op \in {108, 109} \cup {110, 111} \cup {164, 165} \cup {166, 167} \cup {170, 171}
               \cup {172, 173} \cup {174, 175}
  BY DEF Moving, Comparing
<1>3. StringOp(x, op) =
        CASE op \in {108, 109} -> ins(x, w)
          [] op \in {110, 111} -> outs(x, w)
          [] op \in {164, 165} -> movs(x, w)
          [] op \in {166, 167} -> cmps(x, w)
          [] op \in {170, 171} -> stos(x, w)
          [] op \in {172, 173} -> lods(x, w)
          [] op \in {174, 175} -> scas(x, w)
  BY DEF StringOp
<1> HIDE DEF w
<1>4. /\ MachineOK(movs(x, w)) /\ MachineOK(cmps(x, w)) /\ MachineOK(stos(x, w))
      /\ MachineOK(lods(x, w)) /\ MachineOK(scas(x, w))
      /\ MachineOK(ins(x, w)) /\ MachineOK(outs(x, w))
  BY <1>1, StringsOK
<1> QED
  BY <1>2, <1>3, <1>4

LEMMA RepOK ==
  ASSUME NEW x, MachineOK(x), NEW n
  PROVE  MachineOK(op_rep(x, n))
<1> DEFINE op == Code8(x)
           next == AdvanceIP(x, 1)
           once == Add(StringOp(next, op), CX, -1)
<1>1. MachineOK(next) /\ MachineOK(exit_or_restart(x))
  BY AdvanceOK, WithExited
<1>2. op \in Moving \cup Comparing => MachineOK(once) /\ MachineOK(AdvanceIP(once, -2))
  <2> HIDE DEF op, next
  <2>1. op \in Moving \cup Comparing => MachineOK(StringOp(next, op))
    BY <1>1, StringOpOK
  <2>2. ASSUME MachineOK(StringOp(next, op))
        PROVE  MachineOK(once)
    <3> DEFINE y == StringOp(next, op)
    <3>1. MachineOK(y)
      BY <2>2
    <3> HIDE DEF y
    <3>2. -1 \in Int /\ CX \in 0..7
      BY Names
    <3>3. MachineOK(Add(y, CX, -1))
      BY <3>1, <3>2, AddOK
    <3> QED
      BY <3>3 DEF y
  <2> HIDE DEF once
  <2>3. op \in Moving \cup Comparing => MachineOK(once)
    BY <2>1, <2>2
  <2>4. -2 \in Int
    OBVIOUS
  <2> QED
    BY <2>3, <2>4, AdvanceOK
<1>3. op_rep(x, n) \in {exit_or_restart(x), next} \/
      (op \in Moving \cup Comparing /\ op_rep(x, n) \in {once, AdvanceIP(once, -2)})
  <2>1. op_rep(x, n) =
          CASE x.seg # x.s[DS] -> exit_or_restart(x)
            [] x.seg = x.s[DS] /\ x.r[CX] = 0 -> next
            [] OTHER ->
                 CASE op \in Moving -> AdvanceIP(once, -2)
                   [] op \in Comparing -> IF once.f.zf # n THEN once ELSE AdvanceIP(once, -2)
                   [] OTHER -> exit_or_restart(x)
    BY DEF op_rep
  <2> HIDE DEF op, next, once
  <2>2. Moving \cap Comparing = {}
    BY DEF Moving, Comparing
  <2> QED
    BY <2>1, <2>2
<1> QED
  BY <1>1, <1>2, <1>3

-----------------------------------------------------------------------------
\* The operations on two operands.
ResultOK(x, w) == x.f \in Flags /\ ("v" \in DOMAIN x => x.v \in 0 .. w - 1)

LEMMA SumOfBits ==
  ASSUME NEW a \in 0..1, NEW b \in 0..1, NEW c \in 0..1, NEW d \in 0..1,
         NEW e \in 0..1, NEW f \in 0..1, NEW g \in 0..1, NEW h \in 0..1
  PROVE  /\ 1 * a + 2 * b + 4 * c + 8 * d + 16 * e + 32 * f + 64 * g + 128 * h \in Nat
         /\ 1 * a + 2 * b + 4 * c + 8 * d + 16 * e + 32 * f + 64 * g + 128 * h < 256
OBVIOUS

LEMMA PairBit ==
  ASSUME NEW a \in 0..1, NEW b \in 0..1
  PROVE  Or(a, b) \in 0..1 /\ And(a, b) \in 0..1 /\ Xor(a, b) \in 0..1
<1>1. a \in {0, 1} /\ b \in {0, 1}
  OBVIOUS
<1> QED
  BY <1>1 DEF Or, And, Xor

LEMMA Nothing ==
  Or(0, 0) = 0 /\ And(0, 0) = 0 /\ Xor(0, 0) = 0
BY DEF Or, And, Xor

\* Above the eighth bit a byte has none.
LEMMA HighBits ==
  ASSUME NEW v \in 0 .. 256 - 1
  PROVE  /\ (v \div 256) % 2 = 0 /\ (v \div 512) % 2 = 0 /\ (v \div 1024) % 2 = 0
         /\ (v \div 2048) % 2 = 0 /\ (v \div 4096) % 2 = 0 /\ (v \div 8192) % 2 = 0
         /\ (v \div 16384) % 2 = 0 /\ (v \div 32768) % 2 = 0
<1>1. /\ v \div 256 = 0 /\ v \div 512 = 0 /\ v \div 1024 = 0
      /\ v \div 2048 = 0 /\ v \div 4096 = 0 /\ v \div 8192 = 0
      /\ v \div 16384 = 0 /\ v \div 32768 = 0
  OBVIOUS
<1> QED
  BY <1>1

LEMMA UpperBits ==
  ASSUME NEW a \in 0..1, NEW b \in 0..1, NEW c \in 0..1, NEW d \in 0..1,
         NEW e \in 0..1, NEW f \in 0..1, NEW g \in 0..1, NEW h \in 0..1, NEW l \in Int
  PROVE  l + 256 * a + 512 * b + 1024 * c + 2048 * d + 4096 * e + 8192 * f + 16384 * g + 32768 * h
           = l + 256 * (1 * a + 2 * b + 4 * c + 8 * d + 16 * e + 32 * f + 64 * g + 128 * h)
OBVIOUS

LEMMA OrOK ==
  ASSUME NEW a \in Nat, NEW b \in Nat
  PROVE  /\ bitwise(a, b, Or) \in Words /\ bitwise(a, b, Or) \in Int
         /\ a \in 0 .. 256 - 1 /\ b \in 0 .. 256 - 1 => bitwise(a, b, Or) \in Octets
<1> DEFINE bit(n) == Or((a \div n) % 2, (b \div n) % 2)
           low == 1 * bit(1) + 2 * bit(2) + 4 * bit(4) + 8 * bit(8) + 16 * bit(16)
                    + 32 * bit(32) + 64 * bit(64) + 128 * bit(128)
           high == 1 * bit(256) + 2 * bit(512) + 4 * bit(1024) + 8 * bit(2048)
                    + 16 * bit(4096) + 32 * bit(8192) + 64 * bit(16384) + 128 * bit(32768)
<1>1. ASSUME NEW n \in Nat \ {0}
      PROVE  bit(n) \in 0..1
  <2>1. (a \div n) % 2 \in 0..1 /\ (b \div n) % 2 \in 0..1
    OBVIOUS
  <2> QED
    BY <2>1, PairBit
<1>2. /\ bit(1) \in 0..1 /\ bit(2) \in 0..1 /\ bit(4) \in 0..1 /\ bit(8) \in 0..1
      /\ bit(16) \in 0..1 /\ bit(32) \in 0..1 /\ bit(64) \in 0..1 /\ bit(128) \in 0..1
      /\ bit(256) \in 0..1 /\ bit(512) \in 0..1 /\ bit(1024) \in 0..1 /\ bit(2048) \in 0..1
      /\ bit(4096) \in 0..1 /\ bit(8192) \in 0..1 /\ bit(16384) \in 0..1 /\ bit(32768) \in 0..1
  <2> HIDE DEF bit
  <2> QED
    BY <1>1
<1>3. a \in 0 .. 256 - 1 /\ b \in 0 .. 256 - 1 => high = 0
  <2>1. HAVE a \in 0 .. 256 - 1 /\ b \in 0 .. 256 - 1
  <2>2. /\ bit(256) = 0 /\ bit(512) = 0 /\ bit(1024) = 0 /\ bit(2048) = 0
        /\ bit(4096) = 0 /\ bit(8192) = 0 /\ bit(16384) = 0 /\ bit(32768) = 0
    BY <2>1, HighBits, Nothing
  <2> HIDE DEF bit
  <2> QED
    BY <2>2
<1>4. bitwise(a, b, Or) = low + 256 * high
  <2>1. bitwise(a, b, Or) =
          1 * bit(1) + 2 * bit(2) + 4 * bit(4) + 8 * bit(8) + 16 * bit(16)
            + 32 * bit(32) + 64 * bit(64) + 128 * bit(128) + 256 * bit(256) + 512 * bit(512)
            + 1024 * bit(1024) + 2048 * bit(2048) + 4096 * bit(4096) + 8192 * bit(8192)
            + 16384 * bit(16384) + 32768 * bit(32768)
    BY DEF bitwise
  <2>2. low \in Int
    <3> HIDE DEF bit
    <3> QED
      BY <1>2
  <2> HIDE DEF bit
  <2>3. bitwise(a, b, Or) =
          low + 256 * bit(256) + 512 * bit(512)
            + 1024 * bit(1024) + 2048 * bit(2048) + 4096 * bit(4096) + 8192 * bit(8192)
            + 16384 * bit(16384) + 32768 * bit(32768)
    BY <2>1
  <2> HIDE DEF low
  <2> QED
    BY <1>2, <2>2, <2>3, UpperBits
<1>5. low \in Octets /\ high \in Octets
  <2> HIDE DEF bit
  <2>1. low \in Nat /\ low < 256 /\ high \in Nat /\ high < 256
    BY <1>2, SumOfBits, SMTT(30)
  <2> HIDE DEF low, high
  <2> QED
    BY <2>1 DEF Octets, Byte
<1> HIDE DEF low, high, bit
<1>6. low + Byte * high \in Words
  BY <1>5, Word16
<1>7. high = 0 => low + Byte * high = low
  BY <1>5, Sizes, Numbers8
<1>8. bitwise(a, b, Or) = low + Byte * high
  BY <1>4 DEF Byte
<1> QED
  BY <1>3, <1>5, <1>6, <1>7, <1>8, Numbers8

LEMMA AndOK ==
  ASSUME NEW a \in Nat, NEW b \in Nat
  PROVE  /\ bitwise(a, b, And) \in Words /\ bitwise(a, b, And) \in Int
         /\ a \in 0 .. 256 - 1 /\ b \in 0 .. 256 - 1 => bitwise(a, b, And) \in Octets
<1> DEFINE bit(n) == And((a \div n) % 2, (b \div n) % 2)
           low == 1 * bit(1) + 2 * bit(2) + 4 * bit(4) + 8 * bit(8) + 16 * bit(16)
                    + 32 * bit(32) + 64 * bit(64) + 128 * bit(128)
           high == 1 * bit(256) + 2 * bit(512) + 4 * bit(1024) + 8 * bit(2048)
                    + 16 * bit(4096) + 32 * bit(8192) + 64 * bit(16384) + 128 * bit(32768)
<1>1. ASSUME NEW n \in Nat \ {0}
      PROVE  bit(n) \in 0..1
  <2>1. (a \div n) % 2 \in 0..1 /\ (b \div n) % 2 \in 0..1
    OBVIOUS
  <2> QED
    BY <2>1, PairBit
<1>2. /\ bit(1) \in 0..1 /\ bit(2) \in 0..1 /\ bit(4) \in 0..1 /\ bit(8) \in 0..1
      /\ bit(16) \in 0..1 /\ bit(32) \in 0..1 /\ bit(64) \in 0..1 /\ bit(128) \in 0..1
      /\ bit(256) \in 0..1 /\ bit(512) \in 0..1 /\ bit(1024) \in 0..1 /\ bit(2048) \in 0..1
      /\ bit(4096) \in 0..1 /\ bit(8192) \in 0..1 /\ bit(16384) \in 0..1 /\ bit(32768) \in 0..1
  <2> HIDE DEF bit
  <2> QED
    BY <1>1
<1>3. a \in 0 .. 256 - 1 /\ b \in 0 .. 256 - 1 => high = 0
  <2>1. HAVE a \in 0 .. 256 - 1 /\ b \in 0 .. 256 - 1
  <2>2. /\ bit(256) = 0 /\ bit(512) = 0 /\ bit(1024) = 0 /\ bit(2048) = 0
        /\ bit(4096) = 0 /\ bit(8192) = 0 /\ bit(16384) = 0 /\ bit(32768) = 0
    BY <2>1, HighBits, Nothing
  <2> HIDE DEF bit
  <2> QED
    BY <2>2
<1>4. bitwise(a, b, And) = low + 256 * high
  <2>1. bitwise(a, b, And) =
          1 * bit(1) + 2 * bit(2) + 4 * bit(4) + 8 * bit(8) + 16 * bit(16)
            + 32 * bit(32) + 64 * bit(64) + 128 * bit(128) + 256 * bit(256) + 512 * bit(512)
            + 1024 * bit(1024) + 2048 * bit(2048) + 4096 * bit(4096) + 8192 * bit(8192)
            + 16384 * bit(16384) + 32768 * bit(32768)
    BY DEF bitwise
  <2>2. low \in Int
    <3> HIDE DEF bit
    <3> QED
      BY <1>2
  <2> HIDE DEF bit
  <2>3. bitwise(a, b, And) =
          low + 256 * bit(256) + 512 * bit(512)
            + 1024 * bit(1024) + 2048 * bit(2048) + 4096 * bit(4096) + 8192 * bit(8192)
            + 16384 * bit(16384) + 32768 * bit(32768)
    BY <2>1
  <2> HIDE DEF low
  <2> QED
    BY <1>2, <2>2, <2>3, UpperBits
<1>5. low \in Octets /\ high \in Octets
  <2> HIDE DEF bit
  <2>1. low \in Nat /\ low < 256 /\ high \in Nat /\ high < 256
    BY <1>2, SumOfBits, SMTT(30)
  <2> HIDE DEF low, high
  <2> QED
    BY <2>1 DEF Octets, Byte
<1> HIDE DEF low, high, bit
<1>6. low + Byte * high \in Words
  BY <1>5, Word16
<1>7. high = 0 => low + Byte * high = low
  BY <1>5, Sizes, Numbers8
<1>8. bitwise(a, b, And) = low + Byte * high
  BY <1>4 DEF Byte
<1> QED
  BY <1>3, <1>5, <1>6, <1>7, <1>8, Numbers8

LEMMA XorOK ==
  ASSUME NEW a \in Nat, NEW b \in Nat
  PROVE  /\ bitwise(a, b, Xor) \in Words /\ bitwise(a, b, Xor) \in Int
         /\ a \in 0 .. 256 - 1 /\ b \in 0 .. 256 - 1 => bitwise(a, b, Xor) \in Octets
<1> DEFINE bit(n) == Xor((a \div n) % 2, (b \div n) % 2)
           low == 1 * bit(1) + 2 * bit(2) + 4 * bit(4) + 8 * bit(8) + 16 * bit(16)
                    + 32 * bit(32) + 64 * bit(64) + 128 * bit(128)
           high == 1 * bit(256) + 2 * bit(512) + 4 * bit(1024) + 8 * bit(2048)
                    + 16 * bit(4096) + 32 * bit(8192) + 64 * bit(16384) + 128 * bit(32768)
<1>1. ASSUME NEW n \in Nat \ {0}
      PROVE  bit(n) \in 0..1
  <2>1. (a \div n) % 2 \in 0..1 /\ (b \div n) % 2 \in 0..1
    OBVIOUS
  <2> QED
    BY <2>1, PairBit
<1>2. /\ bit(1) \in 0..1 /\ bit(2) \in 0..1 /\ bit(4) \in 0..1 /\ bit(8) \in 0..1
      /\ bit(16) \in 0..1 /\ bit(32) \in 0..1 /\ bit(64) \in 0..1 /\ bit(128) \in 0..1
      /\ bit(256) \in 0..1 /\ bit(512) \in 0..1 /\ bit(1024) \in 0..1 /\ bit(2048) \in 0..1
      /\ bit(4096) \in 0..1 /\ bit(8192) \in 0..1 /\ bit(16384) \in 0..1 /\ bit(32768) \in 0..1
  <2> HIDE DEF bit
  <2> QED
    BY <1>1
<1>3. a \in 0 .. 256 - 1 /\ b \in 0 .. 256 - 1 => high = 0
  <2>1. HAVE a \in 0 .. 256 - 1 /\ b \in 0 .. 256 - 1
  <2>2. /\ bit(256) = 0 /\ bit(512) = 0 /\ bit(1024) = 0 /\ bit(2048) = 0
        /\ bit(4096) = 0 /\ bit(8192) = 0 /\ bit(16384) = 0 /\ bit(32768) = 0
    BY <2>1, HighBits, Nothing
  <2> HIDE DEF bit
  <2> QED
    BY <2>2
<1>4. bitwise(a, b, Xor) = low + 256 * high
  <2>1. bitwise(a, b, Xor) =
          1 * bit(1) + 2 * bit(2) + 4 * bit(4) + 8 * bit(8) + 16 * bit(16)
            + 32 * bit(32) + 64 * bit(64) + 128 * bit(128) + 256 * bit(256) + 512 * bit(512)
            + 1024 * bit(1024) + 2048 * bit(2048) + 4096 * bit(4096) + 8192 * bit(8192)
            + 16384 * bit(16384) + 32768 * bit(32768)
    BY DEF bitwise
  <2>2. low \in Int
    <3> HIDE DEF bit
    <3> QED
      BY <1>2
  <2> HIDE DEF bit
  <2>3. bitwise(a, b, Xor) =
          low + 256 * bit(256) + 512 * bit(512)
            + 1024 * bit(1024) + 2048 * bit(2048) + 4096 * bit(4096) + 8192 * bit(8192)
            + 16384 * bit(16384) + 32768 * bit(32768)
    BY <2>1
  <2> HIDE DEF low
  <2> QED
    BY <1>2, <2>2, <2>3, UpperBits
<1>5. low \in Octets /\ high \in Octets
  <2> HIDE DEF bit
  <2>1. low \in Nat /\ low < 256 /\ high \in Nat /\ high < 256
    BY <1>2, SumOfBits
  <2> HIDE DEF low, high
  <2> QED
    BY <2>1 DEF Octets, Byte
<1> HIDE DEF low, high, bit
<1>6. low + Byte * high \in Words
  BY <1>5, Word16
<1>7. high = 0 => low + Byte * high = low
  BY <1>5, Sizes, Numbers8
<1>8. bitwise(a, b, Xor) = low + Byte * high
  BY <1>4 DEF Byte
<1> QED
  BY <1>3, <1>5, <1>6, <1>7, <1>8, Numbers8

\* What the numbers of a size have in common.
LEMMA OperandFacts ==
  ASSUME NEW w \in {Byte, Word}
  PROVE  /\ w \in Nat /\ 0 < w
         /\ \A v \in 0 .. w - 1 : v \in Nat /\ v \in Int
         /\ \A v \in Int : v % w \in 0 .. w - 1
<1>1. w \in Nat /\ 0 < w
  BY Sizes
<1> QED
  BY <1>1

LEMMA BitwiseOK ==
  ASSUME NEW w \in {Byte, Word}, NEW a \in 0 .. w - 1, NEW b \in 0 .. w - 1
  PROVE  /\ bitwise(a, b, Or) \in 0 .. w - 1 /\ bitwise(a, b, Or) \in Int
         /\ bitwise(a, b, And) \in 0 .. w - 1 /\ bitwise(a, b, And) \in Int
         /\ bitwise(a, b, Xor) \in 0 .. w - 1 /\ bitwise(a, b, Xor) \in Int
<1>1. a \in Nat /\ b \in Nat
  BY OperandFacts
<1>2. /\ bitwise(a, b, Or) \in Int /\ bitwise(a, b, And) \in Int /\ bitwise(a, b, Xor) \in Int
  BY <1>1, OrOK, AndOK, XorOK
<1>3. CASE w = Byte
  <2>1. a \in 0 .. 256 - 1 /\ b \in 0 .. 256 - 1
    BY <1>3 DEF Byte
  <2>2. /\ bitwise(a, b, Or) \in Octets /\ bitwise(a, b, And) \in Octets
        /\ bitwise(a, b, Xor) \in Octets
    BY <1>1, <2>1, OrOK, AndOK, XorOK
  <2> QED
    BY <1>2, <1>3, <2>2, OfSize
<1>4. CASE w = Word
  <2>1. /\ bitwise(a, b, Or) \in Words /\ bitwise(a, b, And) \in Words
        /\ bitwise(a, b, Xor) \in Words
    BY <1>1, OrOK, AndOK, XorOK
  <2> QED
    BY <1>2, <1>4, <2>1, OfSize
<1> QED
  BY <1>3, <1>4

LEMMA LogicResult ==
  ASSUME NEW f \in Flags, NEW w \in {Byte, Word}, NEW v \in 0 .. w - 1
  PROVE  ResultOK(Logic(f, v, w), w)
<1>1. v \in Int
  BY OperandFacts
<1>2. flag_logic(f, v, w) \in Flags
  BY <1>1, LogicOK
<1> QED
  BY <1>2 DEF ResultOK, Logic

LEMMA OperationOK ==
  ASSUME NEW f \in Flags, NEW w \in {Byte, Word}, NEW a \in 0 .. w - 1, NEW b \in 0 .. w - 1,
         NEW k \in 0..8
  PROVE  ResultOK(Operation(k, f, a, b, w), w)
<1>1. w \in Nat /\ 0 < w /\ a \in Int /\ b \in Int /\ f.cf \in Int /\ 0 \in Int
  BY OperandFacts, FlagBits
<1>2. a + b \in Int /\ a + b + f.cf \in Int /\ a - b - f.cf \in Int /\ a - b \in Int
      /\ b + f.cf \in Int
  BY <1>1
<1>3. /\ (a + b) % w \in 0 .. w - 1 /\ (a + b + f.cf) % w \in 0 .. w - 1
      /\ (a - b - f.cf) % w \in 0 .. w - 1 /\ (a - b) % w \in 0 .. w - 1
  BY <1>2, OperandFacts
<1>4. ResultOK(op_add(f, a, b, w), w)
  <2>1. flag_adc(f, a, b, 0, w) \in Flags
    BY <1>1, AdcOK
  <2> QED
    BY <1>3, <2>1 DEF ResultOK, op_add
<1>5. ResultOK(op_adc(f, a, b, w), w)
  <2>1. flag_adc(f, a, b, f.cf, w) \in Flags
    BY <1>1, AdcOK
  <2> QED
    BY <1>3, <2>1 DEF ResultOK, op_adc
<1>6. ResultOK(op_sbb(f, a, b, w), w)
  <2>1. flag_sbb(f, a, b, f.cf, w) \in Flags
    BY <1>1, <1>2, SubOK DEF flag_sbb
  <2> QED
    BY <1>3, <2>1 DEF ResultOK, op_sbb
<1>7. ResultOK(op_sub(f, a, b, w), w) /\ ResultOK(op_cmp(f, a, b, w), w)
  <2>1. flag_sub(f, a, b, w) \in Flags
    BY <1>1, SubOK
  <2> QED
    BY <1>3, <2>1 DEF ResultOK, op_sub, op_cmp
<1>8. /\ ResultOK(op_or(f, a, b, w), w) /\ ResultOK(op_and(f, a, b, w), w)
      /\ ResultOK(op_xor(f, a, b, w), w)
  BY BitwiseOK, LogicResult DEF op_or, op_and, op_xor
<1>9. ResultOK(op_test(f, a, b, w), w)
  <2>1. flag_logic(f, bitwise(a, b, And), w) \in Flags
    BY BitwiseOK, LogicOK
  <2> QED
    BY <2>1 DEF ResultOK, op_test
<1> QED
  BY <1>4, <1>5, <1>6, <1>7, <1>8, <1>9 DEF Operation

LEMMA StoredOK ==
  ASSUME NEW x, MachineOK(x), NEW w \in {Byte, Word}, NEW z, ResultOK(z, w)
  PROVE  /\ MachineOK(StoreRm(x, w, z))
         /\ \A i \in 0..7 : MachineOK(StoreR(x, i, w, z))
<1> DEFINE y == SetF(x, z.f)
<1>1. MachineOK(y)
  BY WithF DEF SetF, ResultOK
<1> HIDE DEF y
<1>2. "v" \in DOMAIN z => MachineOK(SetRm(y, w, z.v)) /\ \A i \in 0..7 : MachineOK(SetR(y, i, w, z.v))
  BY <1>1, SetRmOK, SetROK DEF ResultOK
<1> QED
  BY <1>1, <1>2 DEF StoreRm, StoreR, y

-----------------------------------------------------------------------------
\* The instructions on two operands.
LEMMA SizeOK ==
  ASSUME NEW op
  PROVE  Size(op) \in {Byte, Word}
BY DEF Size

\* What is read behind a ModR/M byte.
LEMMA ModRmParts ==
  ASSUME NEW x, MachineOK(x), NEW w \in {Byte, Word}
  PROVE  /\ MachineOK(modregrm(x)) /\ modregrm(x).f \in Flags /\ modregrm(x).reg \in 0..7
         /\ Rm(modregrm(x), w) \in 0 .. w - 1
         /\ R(modregrm(x), modregrm(x).reg, w) \in 0 .. w - 1
<1> DEFINE d == modregrm(x)
<1>1. MachineOK(d)
  BY ModRmOK
<1> HIDE DEF d
<1>2. d.f \in Flags /\ d.reg \in 0..7
  BY <1>1, Parts
<1>3. Rm(d, w) \in 0 .. w - 1 /\ R(d, d.reg, w) \in 0 .. w - 1
  BY <1>1, <1>2, RmOK, RegisterOK
<1> QED
  BY <1>1, <1>2, <1>3 DEF d

LEMMA FormsOK ==
  ASSUME NEW x, MachineOK(x), NEW w \in {Byte, Word}, NEW k \in 0..8
  PROVE  MachineOK(EG(x, w, k)) /\ MachineOK(GE(x, w, k)) /\ MachineOK(AI(x, w, k))
<1>1. MachineOK(EG(x, w, k)) /\ MachineOK(GE(x, w, k))
  <2> DEFINE d == modregrm(x)
  <2>1. /\ MachineOK(d) /\ d.f \in Flags /\ d.reg \in 0..7
        /\ Rm(d, w) \in 0 .. w - 1 /\ R(d, d.reg, w) \in 0 .. w - 1
    BY ModRmParts
  <2>2. /\ EG(x, w, k) = StoreRm(d, w, Operation(k, d.f, Rm(d, w), R(d, d.reg, w), w))
        /\ GE(x, w, k) = StoreR(d, d.reg, w, Operation(k, d.f, R(d, d.reg, w), Rm(d, w), w))
    BY DEF EG, GE
  <2> HIDE DEF d
  <2>3. /\ ResultOK(Operation(k, d.f, Rm(d, w), R(d, d.reg, w), w), w)
        /\ ResultOK(Operation(k, d.f, R(d, d.reg, w), Rm(d, w), w), w)
    BY <2>1, OperationOK
  <2> QED
    BY <2>1, <2>2, <2>3, StoredOK
<1>2. MachineOK(AI(x, w, k))
  <2>1. x.f \in Flags /\ R(x, AX, w) \in 0 .. w - 1 /\ Imm(x, w) \in 0 .. w - 1
        /\ MachineOK(SkipImm(x, w))
    BY Parts, RegisterOK, Names, CodeOK
  <2>2. ResultOK(Operation(k, x.f, R(x, AX, w), Imm(x, w), w), w)
    BY <2>1, OperationOK
  <2> QED
    BY <2>1, <2>2, StoredOK, Names DEF AI
<1> QED
  BY <1>1, <1>2

LEMMA TwoOperandsOK ==
  ASSUME NEW x, MachineOK(x), NEW op \in Octets, op % 8 \in 0..5, NEW k \in 0..8
  PROVE  MachineOK(TwoOperands(x, op, k))
<1> DEFINE w == Size(op)
           n == op % 8
<1>1. w \in {Byte, Word}
  BY SizeOK
<1>2. TwoOperands(x, op, k) = CASE n \in {0, 1} -> EG(x, w, k)
                                [] n \in {2, 3} -> GE(x, w, k)
                                [] n \in {4, 5} -> AI(x, w, k)
  BY DEF TwoOperands
<1> HIDE DEF w
<1>3. MachineOK(EG(x, w, k)) /\ MachineOK(GE(x, w, k)) /\ MachineOK(AI(x, w, k))
  BY <1>1, FormsOK
<1>4. n \in {0, 1} \/ n \in {2, 3} \/ n \in {4, 5}
  OBVIOUS
<1> HIDE DEF n
<1> QED
  BY <1>2, <1>3, <1>4

LEMMA ArithmeticOK ==
  ASSUME NEW x, MachineOK(x), NEW op \in Octets, op % 8 \in 0..5
  PROVE  /\ MachineOK(ADD(x, op)) /\ MachineOK(OR(x, op)) /\ MachineOK(ADC(x, op))
         /\ MachineOK(SBB(x, op)) /\ MachineOK(AND(x, op)) /\ MachineOK(SUB(x, op))
         /\ MachineOK(XOR(x, op)) /\ MachineOK(CMP(x, op))
<1>1. /\ 0 \in 0..8 /\ 1 \in 0..8 /\ 2 \in 0..8 /\ 3 \in 0..8 /\ 4 \in 0..8
      /\ 5 \in 0..8 /\ 6 \in 0..8 /\ 7 \in 0..8
  OBVIOUS
<1> QED
  BY <1>1, TwoOperandsOK, WithExited DEF ADD, OR, ADC, SBB, AND, SUB, XOR, CMP

LEMMA TestOK ==
  ASSUME NEW x, MachineOK(x), NEW op
  PROVE  MachineOK(TEST(x, op))
<1>1. 8 \in 0..8
  OBVIOUS
<1> QED
  BY <1>1, SizeOK, FormsOK DEF TEST

LEMMA Grp1OK ==
  ASSUME NEW x, MachineOK(x), NEW op \in {128, 129, 131}
  PROVE  MachineOK(GRP1(x, op))
<1> DEFINE d == modregrm(x)
           w == Size(op)
           b == IF op = 131 THEN Signed(Code8(d), Byte) % Word ELSE Imm(d, w)
           end == AdvanceIP(d, IF op = 129 THEN 2 ELSE 1)
<1>1. GRP1(x, op) = StoreRm(end, w, Operation(d.reg, d.f, Rm(d, w), b, w))
  BY DEF GRP1
<1>2. w \in {Byte, Word} /\ (op = 131 => w = Word)
  BY DEF Size
<1> HIDE DEF w
<1>3. /\ MachineOK(d) /\ d.f \in Flags /\ d.reg \in 0..7 /\ Rm(d, w) \in 0 .. w - 1
  BY <1>2, ModRmParts
<1> HIDE DEF d
<1>4. b \in 0 .. w - 1
  <2>1. Code8(d) \in Int /\ Imm(d, w) \in 0 .. w - 1
    BY <1>2, <1>3, CodeOK
  <2>2. Signed(Code8(d), Byte) \in Int
    BY <2>1, SignedOK, Sizes
  <2>3. Signed(Code8(d), Byte) % Word \in Words
    BY <2>2, ByteFacts
  <2> QED
    BY <1>2, <2>1, <2>3, OfSize
<1>5. MachineOK(end)
  BY <1>3, AdvanceOK
<1> HIDE DEF b, end
<1>6. d.reg \in 0..8
  BY <1>3
<1>7. ResultOK(Operation(d.reg, d.f, Rm(d, w), b, w), w)
  BY <1>2, <1>3, <1>4, <1>6, OperationOK
<1> QED
  BY <1>1, <1>2, <1>5, <1>7, StoredOK

\* INC and DEC.
LEMMA KeptOK ==
  ASSUME NEW w \in {Byte, Word}, NEW f \in Flags, NEW a \in 0 .. w - 1
  PROVE  /\ ResultOK(KeepCarry(op_add(f, a, 1, w), f), w)
         /\ ResultOK(KeepCarry(op_sub(f, a, 1, w), f), w)
<1>1. 1 \in 0 .. w - 1 /\ 0 \in 0..8 /\ 5 \in 0..8
  BY Sizes DEF Byte, Word
<1>2. ASSUME NEW v \in 0 .. w - 1, NEW g \in Flags
      PROVE  ResultOK(KeepCarry([v |-> v, f |-> g], f), w)
  <2>1. f.cf \in 0..1
    BY FlagBits
  <2>2. [g EXCEPT !.cf = f.cf] \in Flags
    BY <2>1, SetFlag
  <2>3. KeepCarry([v |-> v, f |-> g], f) = [v |-> v, f |-> [g EXCEPT !.cf = f.cf]]
    BY DEF KeepCarry
  <2> QED
    BY <2>2, <2>3 DEF ResultOK
<1>3. ResultOK(op_add(f, a, 1, w), w) /\ ResultOK(op_sub(f, a, 1, w), w)
  BY <1>1, OperationOK DEF Operation
<1>4. /\ (a + 1) % w \in 0 .. w - 1 /\ flag_adc(f, a, 1, 0, w) \in Flags
      /\ (a - 1) % w \in 0 .. w - 1 /\ flag_sub(f, a, 1, w) \in Flags
  BY <1>3 DEF ResultOK, op_add, op_sub
<1> QED
  BY <1>2, <1>4 DEF op_add, op_sub

LEMMA IncDecOK ==
  ASSUME NEW x, MachineOK(x), NEW i \in 0..7
  PROVE  MachineOK(INC(x, i)) /\ MachineOK(DEC(x, i))
<1>1. x.r[i] \in 0 .. Word - 1 /\ x.f \in Flags
  BY Parts, OfSize
<1> QED
  BY <1>1, KeptOK, StoredOK DEF INC, DEC

LEMMA Grp4OK ==
  ASSUME NEW x, MachineOK(x), modregrm(x).reg \in {0, 1}
  PROVE  MachineOK(GRP4(x))
<1> DEFINE d == modregrm(x)
           a == Rm(d, Byte)
<1>1. MachineOK(d) /\ d.f \in Flags /\ a \in 0 .. Byte - 1
  BY ModRmParts
<1>2. GRP4(x) = CASE d.reg = 0 -> StoreRm(d, Byte, KeepCarry(op_add(d.f, a, 1, Byte), d.f))
                  [] d.reg = 1 -> StoreRm(d, Byte, KeepCarry(op_sub(d.f, a, 1, Byte), d.f))
  BY DEF GRP4
<1>3. d.reg \in {0, 1}
  OBVIOUS
<1> HIDE DEF d, a
<1>4. /\ ResultOK(KeepCarry(op_add(d.f, a, 1, Byte), d.f), Byte)
      /\ ResultOK(KeepCarry(op_sub(d.f, a, 1, Byte), d.f), Byte)
  BY <1>1, KeptOK
<1> QED
  BY <1>1, <1>2, <1>3, <1>4, StoredOK

-----------------------------------------------------------------------------
\* Shifts: a recursive function of the number of steps.
LEMMA LeastNumber ==
  ASSUME NEW S, S \subseteq Nat, S # {}
  PROVE  \E n \in S : \A k \in S : n <= k
<1>1. PICK n \in S : \A k \in S : ~(<<k, n>> \in OpToRel(<, Nat))
  BY NatLessThanWellFounded, WFMin, Zenon
<1>2. \A k \in S : ~(k < n)
  BY <1>1 DEF OpToRel
<1> QED
  BY <1>2

LEMMA StepsTyped ==
  ASSUME NEW T, NEW g, g[0] \in T, \A i \in 1..31 : g[i - 1] \in T => g[i] \in T
  PROVE  \A i \in 0..31 : g[i] \in T
<1> DEFINE bad == {i \in 0..31 : g[i] \notin T}
<1>1. ASSUME bad # {}
      PROVE  FALSE
  <2>1. bad \subseteq Nat
    OBVIOUS
  <2>2. PICK n \in bad : \A k \in bad : n <= k
    BY <1>1, <2>1, LeastNumber
  <2>3. n \in 1..31 /\ n - 1 \in 0..31 /\ n - 1 \notin bad
    BY <2>1, <2>2
  <2> QED
    BY <2>2, <2>3
<1> QED
  BY <1>1

\* The value after every number of steps exists.
Steps(g, T, s, step) ==
  g \in [0..31 -> T] /\ g[0] = s /\ \A i \in 1..31 : g[i] = step[g[i - 1]]

LEMMA StepsExist ==
  ASSUME NEW T, NEW s \in T, NEW step \in [T -> T]
  PROVE  \E g : Steps(g, T, s, step)
<1> DEFINE Upto(n) == \E g \in [0..n -> T] : g[0] = s /\ \A i \in 1..n : g[i] = step[g[i - 1]]
           bad == {n \in 0..31 : ~Upto(n)}
<1>1. Upto(0)
  <2> DEFINE g == [i \in 0..0 |-> s]
  <2>1. g \in [0..0 -> T] /\ g[0] = s /\ \A i \in 1..0 : g[i] = step[g[i - 1]]
    OBVIOUS
  <2> QED
    BY <2>1
<1>2. ASSUME NEW n \in 1..31, Upto(n - 1)
      PROVE  Upto(n)
  <2>1. PICK g \in [0 .. n - 1 -> T] :
          g[0] = s /\ \A i \in 1 .. n - 1 : g[i] = step[g[i - 1]]
    BY <1>2
  <2> DEFINE h == [i \in 0..n |-> IF i = n THEN step[g[n - 1]] ELSE g[i]]
  <2>2. g[n - 1] \in T /\ step[g[n - 1]] \in T
    BY <1>2, <2>1
  <2>3. h \in [0..n -> T]
    <3>1. \A i \in 0..n : i # n => i \in 0 .. n - 1
      OBVIOUS
    <3> QED
      BY <2>1, <2>2, <3>1
  <2>4. h[0] = s
    BY <2>1, <1>2
  <2>5. ASSUME NEW i \in 1..n
        PROVE  h[i] = step[h[i - 1]]
    <3>1. i - 1 \in 0 .. n - 1 /\ i - 1 # n /\ i - 1 \in 0..n /\ i \in 0..n
      BY <2>5
    <3>2. h[i - 1] = g[i - 1]
      BY <3>1
    <3>3. CASE i = n
      BY <3>1, <3>2, <3>3
    <3>4. CASE i # n
      <4>1. i \in 1 .. n - 1
        BY <3>4
      <4>2. h[i] = g[i] /\ g[i] = step[g[i - 1]]
        BY <2>1, <3>1, <3>4, <4>1
      <4> QED
        BY <3>2, <4>2
    <3> QED
      BY <3>3, <3>4
  <2> HIDE DEF h
  <2> QED
    BY <2>3, <2>4, <2>5
<1> HIDE DEF Upto
<1>3. ASSUME bad # {}
      PROVE  FALSE
  <2>1. bad \subseteq Nat
    OBVIOUS
  <2>2. PICK n \in bad : \A k \in bad : n <= k
    BY <1>3, <2>1, LeastNumber
  <2>3. n # 0
    BY <1>1, <2>2
  <2>4. n \in 1..31 /\ n - 1 \in 0..31 /\ n - 1 \notin bad
    BY <2>1, <2>2, <2>3
  <2>5. Upto(n - 1)
    BY <2>4
  <2>6. Upto(n)
    BY <1>2, <2>4, <2>5
  <2> QED
    BY <2>2, <2>6
<1>4. Upto(31)
  BY <1>3
<1> QED
  BY <1>4 DEF Upto, Steps

LEMMA HalfOfSize ==
  ASSUME NEW w \in {Byte, Word}
  PROVE  w \div 2 \in Nat \ {0} /\ w = 2 * (w \div 2)
<1>1. w = 256 \/ w = 256 * 256
  BY DEF Byte, Word
<1> QED
  BY <1>1

LEMMA ShiftedNumbers ==
  ASSUME NEW half \in Nat \ {0}, NEW s \in 0 .. 2 * half - 1, NEW b \in 0..1
  PROVE  /\ ((2 * s) % (2 * half)) + b \in 0 .. 2 * half - 1
         /\ (2 * s) % (2 * half) \in 0 .. 2 * half - 1
         /\ s \div 2 + b * half \in 0 .. 2 * half - 1
         /\ s \div 2 \in 0 .. 2 * half - 1
         /\ s % 2 \in 0..1
<1>1. (2 * s) % (2 * half) \in 0 .. 2 * half - 2
  <2>1. CASE s < half
    <3>1. 2 * s < 2 * half /\ 2 * s \in Nat
      BY <2>1
    <3>2. (2 * s) % (2 * half) = 2 * s
      BY <3>1, ModSmall
    <3> QED
      BY <2>1, <3>2
  <2>2. CASE s >= half
    <3> DEFINE r == s - half
    <3>1. r \in Nat /\ r < half /\ s = half + r
      BY <2>2
    <3> HIDE DEF r
    <3>2. (2 * s) % (2 * half) = 2 * r
      <4>1. 2 * s = 2 * half + 2 * r /\ 2 * r < 2 * half
        BY <3>1
      <4> DEFINE q == 2 * half
                 t == 2 * r
      <4>2. q \in Nat \ {0} /\ t \in Nat /\ t < q
        BY <3>1, <4>1
      <4> HIDE DEF q, t
      <4>3. (q + t) % q = t
        BY <4>2
      <4> QED
        BY <4>1, <4>3 DEF q, t
    <3> QED
      BY <3>1, <3>2
  <2> QED
    BY <2>1, <2>2
<1>2. s \div 2 \in 0 .. half - 1 /\ s % 2 \in 0..1
  OBVIOUS
<1>3. b * half = 0 \/ b * half = half
  <2>1. b = 0 \/ b = 1
    OBVIOUS
  <2> QED
    BY <2>1
<1> QED
  BY <1>1, <1>2, <1>3

Shifting(w) == (0 .. w - 1) \X (0..1)

LEMMA ShiftStepOK ==
  ASSUME NEW w \in {Byte, Word}, NEW reg \in {0, 1, 2, 3, 4, 5, 7}, NEW x \in Shifting(w)
  PROVE  ShiftStep(reg, x, w) \in Shifting(w)
<1> DEFINE s == x[1]
           c == x[2]
           top == Sign(s, w)
           half == w \div 2
<1>1. s \in 0 .. w - 1 /\ c \in 0..1 /\ top \in 0..1
  BY SignBit DEF Shifting
<1>2. half \in Nat \ {0} /\ w = 2 * half
  BY HalfOfSize
<1>3. ShiftStep(reg, x, w) =
        CASE reg = 0 -> <<((2 * s) % w) + top, top>>
          [] reg = 1 -> <<s \div 2 + (s % 2) * half, s % 2>>
          [] reg = 2 -> <<((2 * s) % w) + c, top>>
          [] reg = 3 -> <<s \div 2 + c * half, s % 2>>
          [] reg = 4 -> <<(2 * s) % w, top>>
          [] reg = 5 -> <<s \div 2, s % 2>>
          [] reg = 7 -> <<s \div 2 + top * half, s % 2>>
  BY DEF ShiftStep
<1> HIDE DEF s, c, top, half
<1>4. s % 2 \in 0..1
  BY <1>1, <1>2, ShiftedNumbers
<1>5. /\ ((2 * s) % w) + top \in 0 .. w - 1
      /\ ((2 * s) % w) + c \in 0 .. w - 1
      /\ (2 * s) % w \in 0 .. w - 1
      /\ s \div 2 + (s % 2) * half \in 0 .. w - 1
      /\ s \div 2 + c * half \in 0 .. w - 1
      /\ s \div 2 + top * half \in 0 .. w - 1
      /\ s \div 2 \in 0 .. w - 1
  BY <1>1, <1>2, <1>4, ShiftedNumbers
<1> QED
  BY <1>1, <1>3, <1>4, <1>5 DEF Shifting

LEMMA ShiftOverflowOK ==
  ASSUME NEW reg \in {0, 1, 2, 3, 4, 5, 7}, NEW s, NEW x, NEW w
  PROVE  ShiftOverflow(reg, s, x, w) \in 0..1
BY SignBit, BoolBit, Bits DEF ShiftOverflow

LEMMA ShiftsOK ==
  ASSUME NEW f \in Flags, NEW w \in {Byte, Word}, NEW s \in 0 .. w - 1, NEW cnt \in Nat,
         NEW reg \in 0..7, reg = 6 => cnt = 0
  PROVE  op_grp2(f, reg, s, cnt, w).res \in 0 .. w - 1 /\ op_grp2(f, reg, s, cnt, w).f \in Flags
<1>1. CASE cnt = 0
  BY <1>1 DEF op_grp2
<1>2. CASE cnt # 0
  <2> DEFINE T == Shifting(w)
             start == <<s, f.cf>>
             Is(g) == g = [i \in 0..31 |-> IF i = 0 THEN start ELSE ShiftStep(reg, g[i - 1], w)]
             shift == CHOOSE g : Is(g)
             n == cnt % 32
             end == shift[n]
             of == IF n = 1 THEN ShiftOverflow(reg, s, end, w) ELSE f.of
             carried == [f EXCEPT !.cf = end[2], !.of = of]
             g1 == IF reg >= 4 THEN flag_szp(carried, end[1], w) ELSE carried
  <2>1. op_grp2(f, reg, s, cnt, w) = [res |-> end[1], f |-> g1]
    BY <1>2 DEF op_grp2
  <2>2. reg \in {0, 1, 2, 3, 4, 5, 7}
    BY <1>2
  <2>3. start \in T
    BY FlagBits DEF Shifting
  <2>4. \A z \in T : ShiftStep(reg, z, w) \in T
    BY <2>2, ShiftStepOK
  <2> HIDE DEF T, start
  <2>5. \E g : Is(g)
    <3> DEFINE step == [z \in T |-> ShiftStep(reg, z, w)]
    <3>1. step \in [T -> T]
      BY <2>4
    <3> HIDE DEF step
    <3>2. PICK g : Steps(g, T, start, step)
      BY <2>3, <3>1, StepsExist
    <3>6. g \in [0..31 -> T] /\ g[0] = start /\ \A i \in 1..31 : g[i] = step[g[i - 1]]
      BY <3>2 DEF Steps
    <3>3. ASSUME NEW i \in 1..31
          PROVE  g[i] = ShiftStep(reg, g[i - 1], w)
      <4>1. i - 1 \in 0..31
        BY <3>3
      <4>2. g[i - 1] \in T
        BY <3>6, <4>1
      <4> QED
        BY <3>6, <3>3, <4>2 DEF step
    <3>4. \A i \in 0..31 : i = 0 \/ i \in 1..31
      OBVIOUS
    <3>5. g = [i \in 0..31 |-> IF i = 0 THEN start ELSE ShiftStep(reg, g[i - 1], w)]
      BY <3>6, <3>3, <3>4, Zenon
    <3> QED
      BY <3>5
  <2>6. Is(shift)
    BY <2>5, Zenon
  <2> HIDE DEF shift
  <2>7. shift[0] = start /\ \A i \in 1..31 : shift[i] = ShiftStep(reg, shift[i - 1], w)
    <3>1. 0 \in 0..31 /\ \A i \in 1..31 : i \in 0..31 /\ i # 0
      OBVIOUS
    <3> QED
      BY <2>6, <3>1
  <2>8. \A i \in 0..31 : shift[i] \in T
    BY <2>3, <2>4, <2>7, StepsTyped
  <2>9. n \in 0..31
    OBVIOUS
  <2> HIDE DEF n
  <2>10. end \in T
    BY <2>8, <2>9
  <2> HIDE DEF end
  <2>11. end[1] \in 0 .. w - 1 /\ end[2] \in 0..1
    BY <2>10 DEF T, Shifting
  <2>12. of \in Overflows
    <3>1. n = 1 => of \in 0..1
      BY <2>2, ShiftOverflowOK
    <3>2. n # 1 => of \in Overflows
      BY FlagBits
    <3> QED
      BY <3>1, <3>2, OverflowBits
  <2> HIDE DEF of
  <2>13. carried \in Flags
    <3> DEFINE h == [f EXCEPT !.cf = end[2]]
    <3>1. h \in Flags
      BY <2>11, SetFlag
    <3> HIDE DEF h
    <3>2. [h EXCEPT !.of = of] \in Flags
      BY <2>12, <3>1, OverflowOK
    <3> QED
      BY <3>2 DEF h
  <2> HIDE DEF carried
  <2>14. end[1] \in Int
    BY <2>11, OperandFacts
  <2>15. g1 \in Flags
    BY <2>13, <2>14, SzpOK
  <2> HIDE DEF g1
  <2> QED
    BY <2>1, <2>11, <2>15
<1> QED
  BY <1>1, <1>2

LEMMA Grp2OK ==
  ASSUME NEW x, MachineOK(x), NEW op \in {192, 193, 208, 209, 210, 211}
  PROVE  MachineOK(GRP2(x, op))
<1> DEFINE d == modregrm(x)
           w == Size(op)
           byNumber == op \in {192, 193}
           cnt == CASE byNumber -> Code8(d)
                    [] op \in {208, 209} -> 1
                    [] op \in {210, 211} -> R(d, CX, Byte)
           end == IF byNumber THEN AdvanceIP(d, 1) ELSE d
           z == op_grp2(d.f, d.reg, Rm(d, w), cnt, w)
<1>1. GRP2(x, op) = IF d.reg = 6 /\ cnt # 0 THEN exit_or_restart(d)
                    ELSE SetRm(SetF(end, z.f), w, z.res)
  BY DEF GRP2
<1>2. w \in {Byte, Word}
  BY SizeOK
<1> HIDE DEF w
<1>3. MachineOK(d) /\ d.f \in Flags /\ d.reg \in 0..7 /\ Rm(d, w) \in 0 .. w - 1
  BY <1>2, ModRmParts
<1> HIDE DEF d
<1>4. cnt \in Nat
  <2>1. Code8(d) \in Nat /\ R(d, CX, Byte) \in Nat
    BY <1>3, CodeOK, RegisterOK, Names, Numbers8, OfSize
  <2> QED
    BY <2>1
<1>5. MachineOK(end)
  BY <1>3, AdvanceOK
<1> HIDE DEF cnt, end
<1>6. CASE d.reg = 6 /\ cnt # 0
  BY <1>1, <1>3, <1>6, WithExited
<1>7. CASE d.reg = 6 => cnt = 0
  <2>1. z.res \in 0 .. w - 1 /\ z.f \in Flags
    BY <1>2, <1>3, <1>4, <1>7, ShiftsOK
  <2> HIDE DEF z
  <2>2. MachineOK(SetF(end, z.f))
    BY <1>5, <2>1, WithF DEF SetF
  <2>3. MachineOK(SetRm(SetF(end, z.f), w, z.res))
    BY <1>2, <2>1, <2>2, SetRmOK
  <2> QED
    BY <1>1, <1>7, <2>3
<1> QED
  BY <1>6, <1>7

-----------------------------------------------------------------------------
\* Multiplication and division.
LEMMA QuotientSmall ==
  ASSUME NEW size \in Nat \ {0}, NEW a \in Nat, NEW n \in Nat \ {0}, a < size * n
  PROVE  a \div n \in 0 .. size - 1
<1> DEFINE q == a \div n
<1>1. q \in Nat /\ q * n <= a
  OBVIOUS
<1> HIDE DEF q
<1>2. q < size
  <2>1. ASSUME size <= q
        PROVE  FALSE
    <3>1. size * n <= q * n
      BY <1>1, <2>1
    <3> QED
      BY <1>1, <3>1
  <2> QED
    BY <1>1, <2>1
<1> QED
  BY <1>1, <1>2 DEF q

LEMMA ProductOfSize ==
  ASSUME NEW size \in Nat \ {0}, NEW a \in 0 .. size - 1, NEW b \in 0 .. size - 1
  PROVE  a * b \in Nat /\ a * b < size * size
<1>1. a * b \in Nat /\ a * b <= a * size
  OBVIOUS
<1>2. a * size < size * size /\ a * size \in Nat
  OBVIOUS
<1> QED
  BY <1>1, <1>2

Pair(z, w) == z.lo \in 0 .. w - 1 /\ z.hi \in 0 .. w - 1

LEMMA ProductsOK ==
  ASSUME NEW w \in {Byte, Word}, NEW a \in 0 .. w - 1, NEW b \in 0 .. w - 1
  PROVE  Pair(op_mul(a, b, w), w) /\ Pair(op_imul(a, b, w), w)
<1>1. w \in Nat \ {0} /\ a \in Int /\ b \in Int
  BY OperandFacts, Sizes
<1>2. Pair(op_mul(a, b, w), w)
  <2> DEFINE p == a * b
  <2>1. p \in Nat /\ p < w * w
    BY <1>1, ProductOfSize
  <2>2. op_mul(a, b, w) = [lo |-> p % w, hi |-> p \div w]
    BY DEF op_mul
  <2> HIDE DEF p
  <2>3. p % w \in 0 .. w - 1
    BY <2>1, OperandFacts
  <2>4. p \div w \in 0 .. w - 1
    BY <1>1, <2>1, QuotientSmall
  <2> QED
    BY <2>2, <2>3, <2>4 DEF Pair
<1>3. Pair(op_imul(a, b, w), w)
  <2> DEFINE p == Signed(a, w) * Signed(b, w)
             q == p \div w
  <2>1. Signed(a, w) \in Int /\ Signed(b, w) \in Int
    BY <1>1, SignedOK
  <2>2. p \in Int
    BY <2>1
  <2>3. op_imul(a, b, w) = [lo |-> p % w, hi |-> q % w]
    BY DEF op_imul
  <2> HIDE DEF p
  <2>4. q \in Int
    BY <1>1, <2>2
  <2> HIDE DEF q
  <2>5. p % w \in 0 .. w - 1 /\ q % w \in 0 .. w - 1
    BY <2>2, <2>4, OperandFacts
  <2> QED
    BY <2>3, <2>5 DEF Pair
<1> QED
  BY <1>2, <1>3

LEMMA QuotientsOK ==
  ASSUME NEW w \in {Byte, Word}, NEW n \in 0 .. w - 1
  PROVE  /\ \A a \in Nat : op_div(a, n, w).fault \in BOOLEAN
                           /\ (op_div(a, n, w).fault \/ Pair(op_div(a, n, w), w))
         /\ \A a \in Int : op_idiv(a, n, w).fault \in BOOLEAN
                           /\ (op_idiv(a, n, w).fault \/ Pair(op_idiv(a, n, w), w))
<1>1. w \in Nat \ {0} /\ n \in Int /\ n \in Nat /\ n < w
  BY OperandFacts, Sizes
<1>2. ASSUME NEW a \in Nat
      PROVE  op_div(a, n, w).fault \in BOOLEAN /\ (op_div(a, n, w).fault \/ Pair(op_div(a, n, w), w))
  <2>1. CASE n = 0 \/ a \div n >= w
    BY <2>1 DEF op_div
  <2>2. CASE ~(n = 0 \/ a \div n >= w)
    <3>1. n \in Nat \ {0}
      BY <1>1, <2>2
    <3>2. a \div n \in Nat /\ a % n \in 0 .. n - 1
      BY <3>1
    <3>3. a \div n \in 0 .. w - 1 /\ a % n \in 0 .. w - 1
      BY <1>1, <2>2, <3>1, <3>2
    <3>4. op_div(a, n, w) = [fault |-> FALSE, lo |-> a \div n, hi |-> a % n]
      BY <2>2 DEF op_div
    <3> QED
      BY <3>3, <3>4 DEF Pair
  <2> QED
    BY <2>1, <2>2
<1>3. ASSUME NEW a \in Int
      PROVE  op_idiv(a, n, w).fault \in BOOLEAN /\ (op_idiv(a, n, w).fault \/ Pair(op_idiv(a, n, w), w))
  <2> DEFINE s == Signed(n, w)
             q == CDiv(a, s)
             r == a - q * s
  <2>1. op_idiv(a, n, w) = IF n = 0 \/ Abs(q) >= w \div 2 THEN [fault |-> TRUE]
                           ELSE [fault |-> FALSE, lo |-> q % w, hi |-> r % w]
    BY DEF op_idiv
  <2>2. CASE n = 0
    BY <2>1, <2>2
  <2>3. CASE n # 0
    <3>1. s \in Int /\ s # 0
      BY <1>1, <2>3 DEF Signed
    <3> HIDE DEF s
    <3>2. q \in Int
      <4>1. Abs(s) \in Nat \ {0} /\ Abs(a) \in Nat
        BY <3>1, <1>3 DEF Abs
      <4>2. Abs(a) \div Abs(s) \in Int
        BY <4>1
      <4> QED
        BY <4>2 DEF CDiv
    <3> HIDE DEF q
    <3>3. r \in Int
      BY <1>3, <3>1, <3>2
    <3> HIDE DEF r
    <3>4. q % w \in 0 .. w - 1 /\ r % w \in 0 .. w - 1
      BY <3>2, <3>3, OperandFacts
    <3> QED
      BY <2>1, <3>4 DEF Pair
  <2> QED
    BY <2>2, <2>3
<1> QED
  BY <1>2, <1>3

LEMMA DoubleOK ==
  ASSUME NEW x, MachineOK(x), NEW w \in {Byte, Word}, NEW z, Pair(z, w)
  PROVE  MachineOK(Double(x, w, z))
<1>1. CASE w = Byte
  <2>1. Byte * z.hi + z.lo \in Words
    BY <1>1, Word16, OfSize DEF Pair
  <2> QED
    BY <1>1, <2>1, WithR, Names DEF Double
<1>2. CASE w = Word
  <2> DEFINE y == [x EXCEPT !.r[AX] = z.lo]
  <2>1. z.lo \in Words /\ z.hi \in Words
    BY <1>2, OfSize DEF Pair
  <2>2. MachineOK(y)
    BY <2>1, WithR, Names
  <2>3. Double(x, w, z) = [x EXCEPT !.r[AX] = z.lo, !.r[DX] = z.hi]
    BY <1>2, Sizes DEF Double
  <2>4. Double(x, w, z) = [y EXCEPT !.r[DX] = z.hi]
    BY <2>3
  <2> HIDE DEF y
  <2> QED
    BY <2>1, <2>2, <2>4, WithR, Names
<1> QED
  BY <1>1, <1>2

LEMMA MultiplyOK ==
  ASSUME NEW x, MachineOK(x), NEW w \in {Byte, Word}, NEW z, Pair(z, w)
  PROVE  MachineOK(Multiply(x, w, z))
<1> DEFINE f1 == [x.f EXCEPT !.cf = Bool(z.hi # 0)]
           f2 == [f1 EXCEPT !.of = Bool(z.hi # 0)]
           f3 == [f2 EXCEPT !.zf = 0]
<1>1. MulFlags(x.f, z.hi) = f3
  BY DEF MulFlags
<1>2. f1 \in Flags
  BY Parts, SetFlag, BoolBit
<1> HIDE DEF f1
<1>3. f2 \in Flags
  BY <1>2, SetFlag, BoolBit
<1> HIDE DEF f2
<1>4. f3 \in Flags
  BY <1>3, SetFlag, Bits
<1> HIDE DEF f3
<1>5. MachineOK(Double(x, w, z))
  BY DoubleOK
<1> QED
  BY <1>1, <1>4, <1>5, WithF DEF Multiply, SetF

LEMMA DivideOK ==
  ASSUME NEW x, MachineOK(x), NEW w \in {Byte, Word}, NEW z, z.fault \/ Pair(z, w)
  PROVE  MachineOK(Divide(x, w, z))
BY DoubleOK, IntCallOK DEF Divide

LEMMA DividendOK ==
  ASSUME NEW x, MachineOK(x), NEW w \in {Byte, Word}
  PROVE  Dividend(x, w) \in Nat /\ SignedDividend(x, w) \in Int
<1>1. x.r[AX] \in Nat /\ x.r[DX] \in Nat /\ x.r[AX] \in Int /\ x.r[DX] \in Int
  BY Parts, Names, Numbers8
<1>2. Word * x.r[DX] + x.r[AX] \in Nat
  BY <1>1, Sizes
<1>3. Signed(x.r[AX], Word) \in Int /\ Signed(x.r[DX], Word) \in Int
  <2>1. Word \in Int
    BY Sizes
  <2> QED
    BY <1>1, <2>1, SignedOK
<1>4. Word * Signed(x.r[DX], Word) + x.r[AX] \in Int
  BY <1>1, <1>3, Sizes
<1> QED
  BY <1>1, <1>2, <1>3, <1>4 DEF Dividend, SignedDividend

LEMMA Grp3OK ==
  ASSUME NEW x, MachineOK(x), NEW w \in {Byte, Word}
  PROVE  MachineOK(op_grp3(x, w))
<1> DEFINE d == modregrm(x)
           a == Rm(d, w)
           al == R(d, AX, w)
           y0 == SetF(SkipImm(d, w), flag_logic(d.f, bitwise(a, Imm(d, w), And), w))
           y2 == SetRm(d, w, w - 1 - a)
           y3 == SetRm(SetF(d, flag_sub(d.f, 0, a, w)), w, (-a) % w)
           y4 == Multiply(d, w, op_mul(al, a, w))
           y5 == Multiply(d, w, op_imul(al, a, w))
           y6 == Divide(d, w, op_div(Dividend(d, w), a, w))
           y7 == Divide(d, w, op_idiv(SignedDividend(d, w), a, w))
<1>1. op_grp3(x, w) = CASE d.reg = 0 -> y0
                        [] d.reg = 1 -> exit_or_restart(d)
                        [] d.reg = 2 -> y2
                        [] d.reg = 3 -> y3
                        [] d.reg = 4 -> y4
                        [] d.reg = 5 -> y5
                        [] d.reg = 6 -> y6
                        [] d.reg = 7 -> y7
  BY DEF op_grp3
<1>2. MachineOK(d) /\ d.f \in Flags /\ d.reg \in 0..7 /\ a \in 0 .. w - 1
  BY ModRmParts
<1> HIDE DEF d
<1>3. al \in 0 .. w - 1
  BY <1>2, RegisterOK, Names
<1> HIDE DEF a, al
<1>4. a \in Int /\ w \in Nat /\ 0 < w
  BY <1>2, OperandFacts
<1>5. MachineOK(y0)
  <2>1. Imm(d, w) \in 0 .. w - 1 /\ MachineOK(SkipImm(d, w))
    BY <1>2, CodeOK
  <2>2. bitwise(a, Imm(d, w), And) \in Int
    BY <1>2, <2>1, BitwiseOK
  <2>3. flag_logic(d.f, bitwise(a, Imm(d, w), And), w) \in Flags
    BY <1>2, <2>2, LogicOK
  <2> QED
    BY <2>1, <2>3, WithF DEF SetF
<1>6. MachineOK(y2)
  <2>1. w - 1 - a \in 0 .. w - 1
    BY <1>2, <1>4
  <2> QED
    BY <1>2, <2>1, SetRmOK
<1>7. MachineOK(y3)
  <2>1. 0 \in Int /\ -a \in Int
    BY <1>4
  <2>2. (-a) % w \in 0 .. w - 1
    BY <2>1, OperandFacts
  <2>3. flag_sub(d.f, 0, a, w) \in Flags
    BY <1>2, <1>4, <2>1, SubOK
  <2>4. MachineOK(SetF(d, flag_sub(d.f, 0, a, w)))
    BY <1>2, <2>3, WithF DEF SetF
  <2> QED
    BY <2>2, <2>4, SetRmOK
<1>8. MachineOK(y4) /\ MachineOK(y5)
  BY <1>2, <1>3, ProductsOK, MultiplyOK
<1>9. MachineOK(y6) /\ MachineOK(y7)
  <2>1. Dividend(d, w) \in Nat /\ SignedDividend(d, w) \in Int
    BY <1>2, DividendOK
  <2>2. /\ op_div(Dividend(d, w), a, w).fault \/ Pair(op_div(Dividend(d, w), a, w), w)
        /\ op_idiv(SignedDividend(d, w), a, w).fault
           \/ Pair(op_idiv(SignedDividend(d, w), a, w), w)
    BY <1>2, <2>1, QuotientsOK
  <2> QED
    BY <1>2, <2>2, DivideOK
<1>10. MachineOK(exit_or_restart(d))
  BY <1>2, WithExited
<1> HIDE DEF y0, y2, y3, y4, y5, y6, y7
<1> QED
  BY <1>1, <1>2, <1>5, <1>6, <1>7, <1>8, <1>9, <1>10

-----------------------------------------------------------------------------
\* Moves.
LEMMA ExchangeOK ==
  ASSUME NEW x, MachineOK(x), NEW op
  PROVE  /\ MachineOK(XCHG(x, op)) /\ MachineOK(MOV(x, op)) /\ MachineOK(LEA(x))
         /\ MachineOK(MOV_EI(x, op))
<1> DEFINE d == modregrm(x)
           w == Size(op)
<1>1. w \in {Byte, Word}
  BY SizeOK
<1>2. /\ XCHG(x, op) = SetRm(SetR(d, d.reg, w, Rm(d, w)), w, R(d, d.reg, w))
      /\ MOV(x, op) = IF op < 138 THEN SetRm(d, w, R(d, d.reg, w)) ELSE SetR(d, d.reg, w, Rm(d, w))
      /\ LEA(x) = IF d.mode = 3 THEN exit_or_restart(d) ELSE SetR(d, d.reg, Word, Offset(d))
      /\ MOV_EI(x, op) = SkipImm(SetRm(d, w, IF w = Byte THEN Code8(d)
                                             ELSE Read16Long(d, d.s[CS], d.ip)), w)
  BY DEF XCHG, MOV, LEA, MOV_EI
<1> HIDE DEF w
<1>3. /\ MachineOK(d) /\ d.reg \in 0..7
      /\ Rm(d, w) \in 0 .. w - 1 /\ R(d, d.reg, w) \in 0 .. w - 1
  BY <1>1, ModRmParts
<1> HIDE DEF d
<1>4. MachineOK(SetR(d, d.reg, w, Rm(d, w))) /\ MachineOK(SetRm(d, w, R(d, d.reg, w)))
  BY <1>1, <1>3, SetROK, SetRmOK
<1>5. MachineOK(XCHG(x, op)) /\ MachineOK(MOV(x, op))
  BY <1>1, <1>2, <1>3, <1>4, SetRmOK
<1>6. MachineOK(LEA(x))
  <2>1. Offset(d) \in 0 .. Word - 1
    BY <1>3, AddressOK, OfSize
  <2> QED
    BY <1>2, <1>3, <2>1, SetROK, WithExited
<1>7. MachineOK(MOV_EI(x, op))
  <2> DEFINE v == IF w = Byte THEN Code8(d) ELSE Read16Long(d, d.s[CS], d.ip)
  <2>1. v \in 0 .. w - 1
    BY <1>1, <1>3, CodeOK, ReadOK, OfSize
  <2>2. MachineOK(SetRm(d, w, v))
    BY <1>1, <1>3, <2>1, SetRmOK
  <2> QED
    BY <1>1, <1>2, <2>2, CodeOK
<1> QED
  BY <1>5, <1>6, <1>7

LEMMA ExchangeAXOK ==
  ASSUME NEW x, MachineOK(x), NEW i \in 0..7
  PROVE  MachineOK(XCHG_AX(x, i))
<1> DEFINE y == [x EXCEPT !.r[i] = x.r[AX]]
<1>1. x.r[AX] \in Words /\ x.r[i] \in Words
  BY Parts, Names
<1>2. XCHG_AX(x, i) = [y EXCEPT !.r[AX] = x.r[i]]
  BY DEF XCHG_AX
<1>3. MachineOK(y)
  BY <1>1, WithR
<1> HIDE DEF y
<1> QED
  BY <1>1, <1>2, <1>3, WithR, Names

\* A segment register that exists.
LEMMA SegmentMoveOK ==
  ASSUME NEW x, MachineOK(x), NEW op, modregrm(x).reg \in 0..5
  PROVE  MachineOK(MOV_S(x, op))
<1> DEFINE d == modregrm(x)
<1>1. MachineOK(d) /\ d.reg \in 0..5 /\ Rm(d, Word) \in 0 .. Word - 1
  BY ModRmParts
<1>2. MOV_S(x, op) = IF op = 140 THEN SetRm(d, Word, d.s[d.reg])
                                 ELSE [d EXCEPT !.s[d.reg] = Rm(d, Word)]
  BY DEF MOV_S
<1> HIDE DEF d
<1>3. d.s[d.reg] \in 0 .. Word - 1 /\ Rm(d, Word) \in Words
  BY <1>1, Parts, OfSize
<1> QED
  BY <1>1, <1>2, <1>3, SetRmOK, WithS

LEMMA PopOperandOK ==
  ASSUME NEW x, MachineOK(x)
  PROVE  MachineOK(POP_E(x))
<1> DEFINE d == modregrm(x)
<1>1. MachineOK(d)
  BY ModRmOK
<1>2. POP_E(x) = SetRm(Drop(d), Word, Top(d))
  BY DEF POP_E
<1> HIDE DEF d
<1>3. MachineOK(Drop(d)) /\ Top(d) \in 0 .. Word - 1
  BY <1>1, TopOK, OfSize
<1> QED
  BY <1>2, <1>3, SetRmOK

LEMMA MoveImmediateOK ==
  ASSUME NEW x, MachineOK(x), NEW op \in Nat
  PROVE  MachineOK(MOV_O(x, op)) /\ MachineOK(MOV_I(x, op))
<1>1. MachineOK(MOV_O(x, op))
  <2> DEFINE w == Size(op)
             o == Code16(x)
             y == IF op < 162 THEN SetR(x, AX, w, ReadLong(x, x.seg, o, w))
                              ELSE WriteLong(x, x.seg, o, R(x, AX, w), w)
  <2>1. w \in {Byte, Word}
    BY SizeOK
  <2>2. MOV_O(x, op) = AdvanceIP(y, 2)
    BY DEF MOV_O
  <2>3. o \in Words
    BY CodeOK
  <2> HIDE DEF w, o
  <2>4. MachineOK(SetR(x, AX, w, ReadLong(x, x.seg, o, w)))
    BY <2>1, ReadLongOK, SetROK, Names
  <2>5. MachineOK(WriteLong(x, x.seg, o, R(x, AX, w), w))
    BY <2>1, <2>3, RegisterOK, WriteLongOK, Names, Parts
  <2>6. MachineOK(y)
    BY <2>4, <2>5
  <2> HIDE DEF y
  <2>7. 2 \in Int
    OBVIOUS
  <2> QED
    BY <2>2, <2>6, <2>7, AdvanceOK
<1>2. MachineOK(MOV_I(x, op))
  <2> DEFINE w == IF op < 184 THEN Byte ELSE Word
             i == op % 8
  <2>1. w \in {Byte, Word}
    OBVIOUS
  <2>2. i \in 0..7
    OBVIOUS
  <2>3. MOV_I(x, op) = SkipImm(SetR(x, i, w, Imm(x, w)), w)
    BY DEF MOV_I
  <2> HIDE DEF w, i
  <2>4. MachineOK(SetR(x, i, w, Imm(x, w)))
    BY <2>1, <2>2, CodeOK, SetROK
  <2> QED
    BY <2>1, <2>3, <2>4, CodeOK
<1> QED
  BY <1>1, <1>2

LEMMA LoadPointerOK ==
  ASSUME NEW x, MachineOK(x), NEW i \in 0..5
  PROVE  MachineOK(LoadPointer(x, i))
<1> DEFINE d == modregrm(x)
           low == Read16(d, getea(d))
           high == Read16(d, getea(d) + 2)
           y == [d EXCEPT !.r[d.reg] = low]
<1>1. MachineOK(d)
  BY ModRmOK
<1>2. LoadPointer(x, i) = IF d.mode = 3 THEN exit_or_restart(d)
                          ELSE [d EXCEPT !.r[d.reg] = low, !.s[i] = high]
  BY DEF LoadPointer
<1> HIDE DEF d
<1>3. low \in Words /\ high \in Words /\ d.reg \in 0..7
  BY <1>1, ReadOK, Parts
<1> HIDE DEF low, high
<1>4. [d EXCEPT !.r[d.reg] = low, !.s[i] = high] = [y EXCEPT !.s[i] = high]
  OBVIOUS
<1>5. MachineOK(y)
  BY <1>1, <1>3, WithR
<1> HIDE DEF y
<1> QED
  BY <1>1, <1>2, <1>3, <1>4, <1>5, WithS, WithExited

LEMMA ConvertOK ==
  ASSUME NEW x, MachineOK(x)
  PROVE  MachineOK(CBW(x)) /\ MachineOK(CWD(x)) /\ MachineOK(XLAT(x))
<1>1. MachineOK(CBW(x))
  <2> DEFINE v == Signed(x.r[AX] % Byte, Byte) % Word
  <2>1. x.r[AX] % Byte \in Int /\ Byte \in Int
    <3>1. x.r[AX] \in Words
      BY Parts, Names
    <3>2. x.r[AX] % Byte \in Octets
      BY <3>1, Bytes16
    <3> QED
      BY <3>2, Numbers8, Sizes
  <2>2. Signed(x.r[AX] % Byte, Byte) \in Int
    BY <2>1, SignedOK
  <2>3. v \in Words
    BY <2>2, ByteFacts
  <2>4. CBW(x) = [x EXCEPT !.r[AX] = v]
    BY DEF CBW
  <2> HIDE DEF v
  <2> QED
    BY <2>3, <2>4, WithR, Names
<1>2. MachineOK(CWD(x))
  <2>1. 0 \in Words /\ Word - 1 \in Words
    BY Sizes DEF Words
  <2> QED
    BY <2>1, WithR, Names DEF CWD
<1>3. MachineOK(XLAT(x))
  <2> DEFINE v == Read8(x, x.seg * 16 + ((x.r[BX] + R(x, AX, Byte)) % Word))
  <2>1. v \in 0 .. Byte - 1
    BY ReadOK, OfSize
  <2>2. XLAT(x) = SetR(x, AX, Byte, v)
    BY DEF XLAT
  <2> HIDE DEF v
  <2> QED
    BY <2>1, <2>2, SetROK, Names
<1> QED
  BY <1>1, <1>2, <1>3

LEMMA PushAllOK ==
  ASSUME NEW x, MachineOK(x)
  PROVE  MachineOK(PUSHA(x)) /\ MachineOK(POPA(x))
<1>1. ASSUME NEW y, MachineOK(y), NEW i \in 0..7, NEW j \in 0..7
      PROVE  MachineOK(Push2(y, x.r, i, j))
  <2>1. x.r[i] \in Words /\ x.r[j] \in Words
    BY <1>1, Parts
  <2> QED
    BY <1>1, <2>1, PushOK DEF Push2
<1>2. MachineOK(PUSHA(x))
  BY <1>1, Names DEF PUSHA
<1>3. MachineOK(POPA(x))
  BY PopOK, TopOK, Names DEF POPA
<1> QED
  BY <1>2, <1>3

-----------------------------------------------------------------------------
\* Flags and decimal adjustments.
LEMMA SetFOK ==
  ASSUME NEW x, MachineOK(x), NEW f \in Flags
  PROVE  MachineOK(SetF(x, f))
BY WithF DEF SetF

LEMMA FlagMovesOK ==
  ASSUME NEW x, MachineOK(x), NEW op \in 156..159
  PROVE  MachineOK(FlagMoves(x, op))
<1>1. op \in {156, 157, 158, 159}
  OBVIOUS
<1>2. makeflags(x.f) \in Words
  BY Parts, MadeOK
<1>3. MachineOK(push16(x, makeflags(x.f)))
  BY <1>2, PushOK
<1>4. MachineOK(SetF(Drop(x), decodeflags(Top(x))))
  <2>1. Top(x) \in Int /\ MachineOK(Drop(x))
    BY TopOK, Numbers8
  <2> QED
    BY <2>1, DecodedOK, SetFOK
<1>5. MachineOK(SetF(x, decodeflags(Byte * (makeflags(x.f) \div Byte) + R(x, 4, Byte))))
  <2>1. makeflags(x.f) \div Byte \in Octets
    BY <1>2, Bytes16
  <2>2. R(x, 4, Byte) \in Octets
    <3>1. 4 \in 0..7
      OBVIOUS
    <3> QED
      BY <3>1, RegisterOK, OfSize
  <2>3. Byte * (makeflags(x.f) \div Byte) + R(x, 4, Byte) \in Int
    BY <2>1, <2>2, Word16, Numbers8
  <2>4. decodeflags(Byte * (makeflags(x.f) \div Byte) + R(x, 4, Byte)) \in Flags
    BY <2>3, DecodedOK
  <2> QED
    BY <2>4, SetFOK
<1>6. MachineOK(SetR(x, 4, Byte, makeflags(x.f) % Byte))
  <2>1. makeflags(x.f) % Byte \in Octets
    BY <1>2, Bytes16
  <2>2. makeflags(x.f) % Byte \in 0 .. Byte - 1
    BY <2>1, OfSize
  <2>3. 4 \in 0..7
    OBVIOUS
  <2> QED
    BY <2>2, <2>3, SetROK
<1> QED
  BY <1>1, <1>3, <1>4, <1>5, <1>6 DEF FlagMoves

LEMMA FlagSetsOK ==
  ASSUME NEW x, MachineOK(x), NEW op \in {245} \cup 248..253
  PROVE  MachineOK(FlagSets(x, op))
<1>1. x.f \in Flags /\ 1 - x.f.cf \in 0..1 /\ op % 2 \in 0..1
  BY Parts, FlagBits
<1>2. FlagSets(x, op) = CASE op = 245 -> SetF(x, [x.f EXCEPT !.cf = 1 - x.f.cf])
                          [] op \in {248, 249} -> SetF(x, [x.f EXCEPT !.cf = op % 2])
                          [] op \in {250, 251} -> SetF(x, [x.f EXCEPT !.ifl = op % 2])
                          [] op \in {252, 253} -> SetF(x, [x.f EXCEPT !.df = op % 2])
  <2>1. x.f = [b \in FlagNames |-> x.f[b]] /\ "f" \in DOMAIN x
    BY <1>1, Fields DEF Flags, MachineOK
  <2> QED
    BY <2>1 DEF FlagSets, SetF, FlagNames
<1>3. /\ [x.f EXCEPT !.cf = 1 - x.f.cf] \in Flags /\ [x.f EXCEPT !.cf = op % 2] \in Flags
      /\ [x.f EXCEPT !.ifl = op % 2] \in Flags /\ [x.f EXCEPT !.df = op % 2] \in Flags
  BY <1>1, SetFlag
<1>4. /\ MachineOK(SetF(x, [x.f EXCEPT !.cf = 1 - x.f.cf]))
      /\ MachineOK(SetF(x, [x.f EXCEPT !.cf = op % 2]))
      /\ MachineOK(SetF(x, [x.f EXCEPT !.ifl = op % 2]))
      /\ MachineOK(SetF(x, [x.f EXCEPT !.df = op % 2]))
  BY <1>3, SetFOK
<1>5. op = 245 \/ op \in {248, 249} \/ op \in {250, 251} \/ op \in {252, 253}
  OBVIOUS
<1> QED
  BY <1>2, <1>4, <1>5

\* An adjusted AL and AH, and flags.
Adjusted(z) == z.al \in Octets /\ z.ah \in Octets /\ z.f \in Flags

LEMMA TwoFlags ==
  ASSUME NEW f \in Flags, NEW a \in 0..1, NEW c \in 0..1
  PROVE  [f EXCEPT !.af = a, !.cf = c] \in Flags
<1> DEFINE g == [f EXCEPT !.af = a]
<1>1. g \in Flags
  BY SetFlag
<1> HIDE DEF g
<1>2. [g EXCEPT !.cf = c] \in Flags
  BY <1>1, SetFlag
<1> QED
  BY <1>2 DEF g

LEMMA BytesMod ==
  ASSUME NEW v \in Int
  PROVE  v % 256 \in Octets /\ v % 16 \in Octets /\ v % 256 \in Int
BY DEF Octets, Byte

LEMMA BcdOK ==
  ASSUME NEW f \in Flags, NEW al \in Octets
  PROVE  /\ DAA(f, al).al \in Octets /\ DAA(f, al).f \in Flags
         /\ DAS(f, al).al \in Octets /\ DAS(f, al).f \in Flags
<1>1. al \in Int
  BY Numbers8
<1>2. ASSUME NEW y \in Octets, NEW a \in 0..1, NEW c \in 0..1
      PROVE  flag_szp([f EXCEPT !.af = a, !.cf = c], y, 256) \in Flags
  <2>1. y \in Int
    BY <1>2, Numbers8
  <2>2. [f EXCEPT !.af = a, !.cf = c] \in Flags
    BY <1>2, TwoFlags, Zenon
  <2> QED
    BY <2>1, <2>2, SzpOK
<1>3. DAA(f, al).al \in Octets /\ DAA(f, al).f \in Flags
  <2> DEFINE low == al % 16 > 9 \/ f.af = 1
             y1 == IF low THEN (al + 6) % 256 ELSE al
             high == y1 > 153 \/ f.cf = 1
             y2 == IF high THEN (y1 + 96) % 256 ELSE y1
  <2>1. DAA(f, al) = [al |-> y2, f |-> flag_szp([f EXCEPT !.af = Bool(low), !.cf = Bool(high)], y2, 256)]
    BY DEF DAA
  <2>2. y1 \in Octets /\ y1 \in Int
    BY <1>1, BytesMod
  <2> HIDE DEF low, y1
  <2>3. y2 \in Octets
    BY <2>2, BytesMod
  <2> HIDE DEF high, y2
  <2>4. Bool(low) \in 0..1 /\ Bool(high) \in 0..1
    BY BoolBit
  <2>5. flag_szp([f EXCEPT !.af = Bool(low), !.cf = Bool(high)], y2, 256) \in Flags
    BY <1>2, <2>3, <2>4
  <2> QED
    BY <2>1, <2>3, <2>5
<1>4. DAS(f, al).al \in Octets /\ DAS(f, al).f \in Flags
  <2> DEFINE low == al % 16 > 9 \/ f.af = 1
             y1 == IF low THEN (al - 6) % 256 ELSE al
             borrow == IF low THEN Bool(al < 6) ELSE f.cf
             high == y1 \div 16 > 9 \/ borrow = 1
             y2 == IF high THEN (y1 - 96) % 256 ELSE y1
  <2>1. DAS(f, al) = [al |-> y2, f |-> flag_szp([f EXCEPT !.af = Bool(low), !.cf = Bool(high)], y2, 256)]
    BY DEF DAS
  <2>2. y1 \in Octets /\ y1 \in Int
    BY <1>1, BytesMod
  <2> HIDE DEF low, y1, borrow
  <2>3. y2 \in Octets
    BY <2>2, BytesMod
  <2> HIDE DEF high, y2
  <2>4. Bool(low) \in 0..1 /\ Bool(high) \in 0..1
    BY BoolBit
  <2>5. flag_szp([f EXCEPT !.af = Bool(low), !.cf = Bool(high)], y2, 256) \in Flags
    BY <1>2, <2>3, <2>4
  <2> QED
    BY <2>1, <2>3, <2>5
<1> QED
  BY <1>3, <1>4

LEMMA AsciiOK ==
  ASSUME NEW f \in Flags, NEW al \in Octets, NEW ah \in Octets, NEW base \in Octets
  PROVE  /\ Adjusted(AAA(f, al, ah)) /\ Adjusted(AAD(f, al, ah, base))
         /\ base # 0 => Adjusted(AAM(f, al, base))
<1>1. /\ al \in Nat /\ ah \in Nat /\ base \in Nat /\ al < 256 /\ base < 256
      /\ 0 \in Octets
  BY DEF Octets, Byte
<1>2. Adjusted(AAA(f, al, ah))
  <2> DEFINE low == al % 16 > 9 \/ f.af = 1
             v == (IF low THEN al + 6 ELSE al) % 16
             u == (ah + Bool(low)) % 256
             g == [f EXCEPT !.af = Bool(low), !.cf = Bool(low)]
  <2>1. AAA(f, al, ah) = [al |-> v, ah |-> u, f |-> g]
    BY DEF AAA
  <2>2. Bool(low) \in 0..1
    BY BoolBit
  <2>3. v \in Octets
    BY <1>1, BytesMod
  <2> HIDE DEF low
  <2>4. u \in Octets
    BY <1>1, <2>2, BytesMod
  <2>5. g \in Flags
    BY <2>2, TwoFlags, Zenon
  <2> HIDE DEF u, v, g
  <2> QED
    BY <2>1, <2>3, <2>4, <2>5 DEF Adjusted
<1>3. Adjusted(AAD(f, al, ah, base))
  <2> DEFINE n == ah * base + al
             v == n % 256
             h == flag_szp(f, v, 256)
             g == [h EXCEPT !.sf = 0]
  <2>1. AAD(f, al, ah, base) = [al |-> v, ah |-> 0, f |-> g]
    BY DEF AAD
  <2>2. n \in Int
    BY <1>1
  <2> HIDE DEF n
  <2>3. v \in Octets /\ v \in Int
    BY <2>2, BytesMod
  <2> HIDE DEF v
  <2>4. h \in Flags
    BY <2>3, SzpOK
  <2> HIDE DEF h
  <2>5. g \in Flags
    BY <2>4, SetFlag, Bits
  <2> HIDE DEF g
  <2> QED
    BY <1>1, <2>1, <2>3, <2>5 DEF Adjusted
<1>4. ASSUME base # 0
      PROVE  Adjusted(AAM(f, al, base))
  <2>1. base \in Nat \ {0}
    BY <1>1, <1>4
  <2>2. al % base \in 0 .. base - 1
    BY <1>1, <2>1
  <2>3. al \div base \in Nat /\ al \div base <= al
    <3> DEFINE q == al \div base
    <3>1. q \in Nat /\ q * base <= al
      BY <1>1, <2>1
    <3> HIDE DEF q
    <3>2. q <= q * base
      BY <2>1, <3>1
    <3> QED
      BY <1>1, <3>1, <3>2 DEF q
  <2>4. al % base \in Octets /\ al \div base \in Octets /\ al % base \in Int
    BY <1>1, <2>2, <2>3 DEF Octets, Byte
  <2>5. flag_szp(f, al % base, 256) \in Flags
    BY <2>4, SzpOK
  <2> QED
    BY <2>4, <2>5 DEF AAM, Adjusted
<1> QED
  BY <1>2, <1>3, <1>4

LEMMA DecimalOK ==
  ASSUME NEW x, MachineOK(x), NEW op \in {39, 47, 55, 63, 212, 213}
  PROVE  MachineOK(Decimal(x, op))
<1> DEFINE al == R(x, AX, Byte)
           ah == R(x, 4, Byte)
           base == Code8(x)
           end == IF op < 64 THEN x ELSE AdvanceIP(x, 1)
           set(z) == SetF([end EXCEPT !.r[AX] = Byte * z.ah + z.al], z.f)
           keepAH(z) == [al |-> z.al, ah |-> ah, f |-> z.f]
<1>1. Decimal(x, op) =
        CASE op = 39 -> set(keepAH(DAA(x.f, al)))
          [] op = 47 -> set(keepAH(DAS(x.f, al)))
          [] op = 55 -> set(AAA(x.f, al, ah))
          [] op = 63 -> exit_or_restart(x)
          [] op = 212 -> IF base = 0 THEN exit_or_restart(x) ELSE set(AAM(x.f, al, base))
          [] op = 213 -> set(AAD(x.f, al, ah, base))
  BY DEF Decimal
<1>2. al \in Octets /\ ah \in Octets /\ base \in Octets /\ x.f \in Flags
  <2>1. 4 \in 0..7
    OBVIOUS
  <2> QED
    BY <2>1, RegisterOK, Names, OfSize, CodeOK, Parts
<1>3. MachineOK(end)
  BY AdvanceOK
<1> HIDE DEF end
<1>4. ASSUME NEW z, Adjusted(z)
      PROVE  MachineOK(set(z))
  <2>1. Byte * z.ah + z.al \in Words
    BY <1>4, Word16 DEF Adjusted
  <2>2. MachineOK([end EXCEPT !.r[AX] = Byte * z.ah + z.al])
    BY <1>3, <2>1, WithR, Names
  <2> QED
    BY <1>4, <2>2, SetFOK DEF Adjusted
<1> HIDE DEF al, ah, base, set
<1>5. Adjusted(keepAH(DAA(x.f, al))) /\ Adjusted(keepAH(DAS(x.f, al)))
  BY <1>2, BcdOK DEF Adjusted
<1>6. /\ Adjusted(AAA(x.f, al, ah)) /\ Adjusted(AAD(x.f, al, ah, base))
      /\ base # 0 => Adjusted(AAM(x.f, al, base))
  BY <1>2, AsciiOK
<1> HIDE DEF keepAH
<1>7. MachineOK(exit_or_restart(x))
  BY WithExited
<1> QED
  BY <1>1, <1>4, <1>5, <1>6, <1>7

-----------------------------------------------------------------------------
\* Double words.
Doubles == Words \X Words

LEMMA DoubleParts ==
  ASSUME NEW v \in Doubles
  PROVE  v[1] \in Words /\ v[2] \in Words /\ v[1] \in Int /\ v[2] \in Int
BY Numbers8 DEF Doubles

LEMMA Register32OK ==
  ASSUME NEW x, MachineOK(x), NEW i \in 0..7
  PROVE  /\ R32(x, i) \in Doubles
         /\ \A v \in Doubles : MachineOK(SetR32(x, i, v))
<1>1. R32(x, i) \in Doubles
  BY Parts DEF R32, Doubles
<1>2. ASSUME NEW v \in Doubles
      PROVE  MachineOK(SetR32(x, i, v))
  <2> DEFINE y == [x EXCEPT !.r[i] = v[1]]
  <2>1. SetR32(x, i, v) = [y EXCEPT !.h[i] = v[2]]
    BY DEF SetR32
  <2>2. MachineOK(y)
    BY <1>2, DoubleParts, WithR
  <2> HIDE DEF y
  <2> QED
    BY <1>2, <2>1, <2>2, DoubleParts, WithH
<1> QED
  BY <1>1, <1>2

LEMMA Operand32OK ==
  ASSUME NEW x, MachineOK(x)
  PROVE  /\ Rm32(x) \in Doubles
         /\ \A v \in Doubles : MachineOK(SetRm32(x, v))
<1>1. x.rm \in 0..7 /\ getea(x) \in Int
  BY Parts, AddressOK
<1>2. Rm32(x) \in Doubles
  <2>1. <<Read16(x, getea(x)), Read16(x, getea(x) + 2)>> \in Doubles
    BY ReadOK DEF Doubles
  <2> QED
    BY <1>1, <2>1, Register32OK DEF Rm32
<1>3. ASSUME NEW v \in Doubles
      PROVE  MachineOK(SetRm32(x, v))
  <2>1. getea(x) + 2 \in Int
    BY <1>1
  <2>2. MachineOK(Write16(x, getea(x), v[1]))
    BY <1>1, <1>3, DoubleParts, Write16OK
  <2>3. MachineOK(Write16(Write16(x, getea(x), v[1]), getea(x) + 2, v[2]))
    <3> DEFINE y == Write16(x, getea(x), v[1])
               a == getea(x) + 2
    <3> HIDE DEF y, a
    <3>1. MachineOK(y) /\ a \in Int
      BY <2>1, <2>2 DEF y, a
    <3>2. MachineOK(Write16(y, a, v[2]))
      BY <1>3, <3>1, DoubleParts, Write16OK
    <3> QED
      BY <3>2 DEF y, a
  <2>4. MachineOK(SetR32(x, x.rm, v))
    BY <1>1, <1>3, Register32OK
  <2> QED
    BY <2>3, <2>4 DEF SetRm32
<1> QED
  BY <1>2, <1>3

LEMMA Push32OK ==
  ASSUME NEW x, MachineOK(x), NEW v \in Doubles
  PROVE  MachineOK(push32(x, v))
<1> DEFINE sp == (x.r[SP] - 4) % Word
           sp2 == (sp + 2) % Word
           n == [x EXCEPT !.r[SP] = sp]
           y == Write16Long(n, x.s[SS], sp, v[1])
<1>1. push32(x, v) = Write16Long(y, x.s[SS], sp2, v[2])
  BY DEF push32
<1>2. sp \in Words
  <2>1. x.r[SP] - 4 \in Int
    BY Names, Parts, Numbers8
  <2> QED
    BY <2>1, ByteFacts
<1> HIDE DEF sp
<1>3. sp2 \in Words
  <2>1. sp + 2 \in Int
    BY <1>2, Numbers8
  <2> QED
    BY <2>1, ByteFacts
<1> HIDE DEF sp2
<1>4. MachineOK(n)
  BY <1>2, WithR, Names
<1> HIDE DEF n
<1>5. x.s[SS] \in Words /\ v[1] \in Words /\ v[2] \in Words
  BY Names, Parts, DoubleParts
<1>6. MachineOK(y)
  BY <1>2, <1>4, <1>5, Write16LongOK
<1> HIDE DEF y
<1> QED
  BY <1>1, <1>3, <1>5, <1>6, Write16LongOK

LEMMA Pop32OK ==
  ASSUME NEW x, MachineOK(x)
  PROVE  /\ Top32(x) \in Doubles /\ MachineOK(Drop32(x)) /\ Code32(x) \in Doubles
         /\ \A i \in 0..7 : MachineOK(Pop32(x, i))
<1>1. Top32(x) \in Doubles
  BY ReadOK, TopOK DEF Top32, Doubles
<1>2. MachineOK(Drop32(x))
  <2>1. 4 \in Int
    OBVIOUS
  <2> QED
    BY <2>1, AddOK, Names DEF Drop32
<1>3. Code32(x) \in Doubles
  BY ReadOK, CodeOK DEF Code32, Doubles
<1> QED
  BY <1>1, <1>2, <1>3, Register32OK DEF Pop32

LEMMA PushAll32OK ==
  ASSUME NEW x, MachineOK(x)
  PROVE  MachineOK(PUSHAD(x)) /\ MachineOK(POPAD(x))
<1>1. ASSUME NEW y, MachineOK(y), NEW i \in 0..7, NEW j \in 0..7
      PROVE  MachineOK(Push64(y, x, i, j))
  <2>1. R32(x, i) \in Doubles /\ R32(x, j) \in Doubles
    BY <1>1, Register32OK
  <2> QED
    BY <1>1, <2>1, Push32OK DEF Push64
<1>2. MachineOK(PUSHAD(x))
  BY <1>1, Names DEF PUSHAD
<1>3. MachineOK(POPAD(x))
  BY Pop32OK, Names DEF POPAD
<1> QED
  BY <1>2, <1>3

-----------------------------------------------------------------------------
\* The flags of double words.
LEMMA Szp32OK ==
  ASSUME NEW f \in Flags, NEW v \in Doubles
  PROVE  flag_szp32(f, v) \in Flags /\ flag_logic32(f, v) \in Flags
<1> DEFINE f1 == [f EXCEPT !.zf = Bool(v = <<0, 0>>)]
           f2 == [f1 EXCEPT !.sf = Sign(v[2], Word)]
           f3 == [f2 EXCEPT !.pf = parity(v[1])]
           f4 == [f3 EXCEPT !.cf = 0]
           f5 == [f4 EXCEPT !.of = 0]
<1>1. flag_szp32(f, v) = f3 /\ flag_logic32(f, v) = f5
  BY DEF flag_szp32, flag_logic32
<1>2. f1 \in Flags
  BY SetFlag, BoolBit
<1> HIDE DEF f1
<1>3. f2 \in Flags
  BY <1>2, SetFlag, SignBit
<1> HIDE DEF f2
<1>4. f3 \in Flags
  BY <1>3, SetFlag, ParityBit, DoubleParts
<1> HIDE DEF f3
<1>5. f4 \in Flags
  BY <1>4, SetFlag, Bits
<1> HIDE DEF f4
<1>6. f5 \in Flags
  BY <1>5, SetFlag, Bits
<1> QED
  BY <1>1, <1>4, <1>6

LEMMA Add32OK ==
  ASSUME NEW f \in Flags, NEW a \in Doubles, NEW b \in Doubles
  PROVE  flag_add32(f, a, b) \in Flags /\ op_add32(a, b) \in Doubles
<1> DEFINE lo == flag_adc(f, a[1], b[1], 0, Word)
           hi == flag_adc(lo, a[2], b[2], lo.cf, Word)
           sum == <<(a[1] + b[1]) % Word, (a[2] + b[2] + lo.cf) % Word>>
           g == flag_szp32(hi, sum)
<1>1. flag_add32(f, a, b) = [g EXCEPT !.af = lo.af]
  BY DEF flag_add32
<1>2. /\ a[1] \in Int /\ a[2] \in Int /\ b[1] \in Int /\ b[2] \in Int
      /\ 0 \in Int /\ Word \in Nat /\ 0 < Word
  BY DoubleParts, Sizes
<1>3. lo \in Flags
  BY <1>2, AdcOK
<1> HIDE DEF lo
<1>4. lo.cf \in Int /\ lo.af \in 0..1
  BY <1>3, FlagBits
<1>5. hi \in Flags
  BY <1>2, <1>3, <1>4, AdcOK
<1> HIDE DEF hi
<1>6. sum \in Doubles
  <2>1. a[1] + b[1] \in Int /\ a[2] + b[2] + lo.cf \in Int
    BY <1>2, <1>4
  <2>2. (a[1] + b[1]) % Word \in Words /\ (a[2] + b[2] + lo.cf) % Word \in Words
    BY <2>1, ByteFacts
  <2> QED
    BY <2>2 DEF Doubles
<1> HIDE DEF sum
<1>7. g \in Flags
  BY <1>5, <1>6, Szp32OK
<1> HIDE DEF g
<1>8. flag_add32(f, a, b) \in Flags
  BY <1>1, <1>4, <1>7, SetFlag
<1>9. op_add32(a, b) \in Doubles
  <2>1. a[1] + b[1] \in Int
    BY <1>2
  <2>2. (a[1] + b[1]) % Word \in Words /\ 0 \in Words
    BY <2>1, ByteFacts, Numbers8
  <2> QED
    BY <2>2 DEF op_add32, Doubles
<1> QED
  BY <1>8, <1>9

LEMMA Sub32OK ==
  ASSUME NEW f \in Flags, NEW a \in Doubles, NEW b \in Doubles
  PROVE  flag_sub32(f, a, b) \in Flags
<1> DEFINE lo == a[1] - b[1]
           hi == a[2] - b[2] - Bool(lo < 0)
           dst == <<lo % Word, hi % Word>>
           cf == Bool(hi < 0)
           of == Bool(Sign(hi, Word) # Sign(a[2], Word) /\ Sign(a[2], Word) # Sign(b[2], Word))
           af == (Bit4(a[1]) + Bit4(b[1]) + Bit4(lo)) % 2
           g == flag_szp32(f, dst)
<1>1. flag_sub32(f, a, b) = [g EXCEPT !.cf = cf, !.of = of, !.af = af]
  BY DEF flag_sub32
<1>2. /\ a[1] \in Int /\ a[2] \in Int /\ b[1] \in Int /\ b[2] \in Int
  BY DoubleParts
<1>3. lo \in Int /\ hi \in Int
  <2>1. Bool(lo < 0) \in 0..1
    BY BoolBit
  <2> HIDE DEF lo
  <2>2. lo \in Int
    BY <1>2 DEF lo
  <2> QED
    BY <1>2, <2>1, <2>2
<1>4. cf \in 0..1 /\ of \in 0..1
  BY BoolBit
<1> HIDE DEF cf, of, hi, lo
<1>5. af \in 0..1
  BY <1>2, <1>3, HalfCarryBit
<1> HIDE DEF af
<1>6. dst \in Doubles
  BY <1>3, ByteFacts DEF Doubles
<1> HIDE DEF dst
<1>7. g \in Flags
  BY <1>6, Szp32OK, Zenon
<1> HIDE DEF g
<1>8. [g EXCEPT !.cf = cf, !.of = of, !.af = af] \in Flags
  BY <1>4, <1>5, <1>7, ThreeOK, Zenon
<1> QED
  BY <1>1, <1>8

LEMMA Xor32OK ==
  ASSUME NEW a \in Doubles, NEW b \in Doubles
  PROVE  Xor32(a, b) \in Doubles
<1>1. /\ a[1] \in 0 .. Word - 1 /\ a[2] \in 0 .. Word - 1
      /\ b[1] \in 0 .. Word - 1 /\ b[2] \in 0 .. Word - 1
  BY DoubleParts, OfSize
<1>2. bitwise(a[1], b[1], Xor) \in Words /\ bitwise(a[2], b[2], Xor) \in Words
  BY <1>1, BitwiseOK, OfSize
<1> QED
  BY <1>2 DEF Xor32, Doubles

-----------------------------------------------------------------------------
\* Shifts of double words.
LEMMA HalfWord ==
  Word \div 2 = 32768 /\ Word = 2 * 32768 /\ 32768 \in Nat \ {0}
<1>1. Word = 65536
  BY DEF Word, Byte
<1> QED
  BY <1>1

LEMMA TwiceHalfOK ==
  ASSUME NEW v \in Doubles, NEW b \in 0..1
  PROVE  Twice(v, b) \in Doubles /\ Half(v, b) \in Doubles
<1> DEFINE half == 32768
<1>1. half \in Nat \ {0} /\ Word = 2 * half
  BY HalfWord
<1>2. v[1] \in 0 .. 2 * half - 1 /\ v[2] \in 0 .. 2 * half - 1
  <2>1. v[1] \in 0 .. Word - 1 /\ v[2] \in 0 .. Word - 1
    BY DoubleParts, OfSize
  <2> HIDE DEF half
  <2> QED
    BY <1>1, <2>1
<1>3. Sign(v[1], Word) \in 0..1
  BY SignBit
<1>4. /\ Twice(v, b) = <<((2 * v[1]) % Word) + b, ((2 * v[2]) % Word) + Sign(v[1], Word)>>
      /\ Half(v, b) = <<v[1] \div 2 + half * (v[2] % 2), v[2] \div 2 + half * b>>
  BY DEF Twice, Half
<1> HIDE DEF half
<1>5. v[2] % 2 \in 0..1
  BY <1>1, <1>2, ShiftedNumbers
<1>6. /\ ((2 * v[1]) % Word) + b \in 0 .. Word - 1
      /\ ((2 * v[2]) % Word) + Sign(v[1], Word) \in 0 .. Word - 1
      /\ v[1] \div 2 + (v[2] % 2) * half \in 0 .. Word - 1
      /\ v[2] \div 2 + b * half \in 0 .. Word - 1
  BY <1>1, <1>2, <1>3, <1>5, ShiftedNumbers
<1>7. (v[2] % 2) * half = half * (v[2] % 2) /\ b * half = half * b
  BY <1>1, <1>5
<1>8. /\ ((2 * v[1]) % Word) + b \in Words
      /\ ((2 * v[2]) % Word) + Sign(v[1], Word) \in Words
      /\ v[1] \div 2 + half * (v[2] % 2) \in Words
      /\ v[2] \div 2 + half * b \in Words
  BY <1>6, <1>7, OfSize
<1> QED
  BY <1>4, <1>8 DEF Doubles

Shifting32 == Doubles \X (0..1) \X (0..1)

LEMMA ShiftStep32OK ==
  ASSUME NEW reg \in {0, 1, 2, 3, 4, 5, 7}, NEW x \in Shifting32
  PROVE  ShiftStep32(reg, x) \in Shifting32
<1> DEFINE v == x[1]
           c == x[2]
           top == Sign(v[2], Word)
           low == v[1] % 2
           sticky == Bool(x[3] = 1 \/ low = 1)
<1>1. ShiftStep32(reg, x) =
        CASE reg = 0 -> <<Twice(v, top), top, 0>>
          [] reg = 1 -> <<Half(v, sticky), low, sticky>>
          [] reg = 2 -> <<Twice(v, c), top, 0>>
          [] reg = 3 -> <<Half(v, c), low, 0>>
          [] reg = 4 -> <<Twice(v, 0), top, 0>>
          [] reg = 5 -> <<Half(v, 0), low, 0>>
          [] reg = 7 -> <<Half(v, top), low, 0>>
  BY DEF ShiftStep32
<1>2. v \in Doubles /\ c \in 0..1
  BY DEF Shifting32
<1>3. top \in 0..1 /\ low \in 0..1 /\ sticky \in 0..1 /\ 0 \in 0..1
  <2>1. v[1] \in Int
    BY <1>2, DoubleParts
  <2>2. low \in 0..1
    BY <2>1
  <2> QED
    BY <2>2, SignBit, BoolBit
<1> HIDE DEF v, c, top, low, sticky
<1>4. /\ Twice(v, top) \in Doubles /\ Twice(v, c) \in Doubles /\ Twice(v, 0) \in Doubles
      /\ Half(v, sticky) \in Doubles /\ Half(v, c) \in Doubles /\ Half(v, 0) \in Doubles
      /\ Half(v, top) \in Doubles
  BY <1>2, <1>3, TwiceHalfOK
<1> QED
  BY <1>1, <1>3, <1>4 DEF Shifting32

LEMMA ShiftOverflow32OK ==
  ASSUME NEW reg \in {0, 1, 2, 3, 4, 5, 7}, NEW v, NEW end \in Shifting32
  PROVE  ShiftOverflow32(reg, v, end) \in Overflows
<1> DEFINE top == Sign(end[1][2], Word)
           second == (end[1][2] \div 16384) % 2
<1>1. end[3] \in 0..1 /\ end[1][2] \in Int
  <2>1. end[3] \in 0..1 /\ end[1] \in Doubles
    BY DEF Shifting32
  <2> QED
    BY <2>1, DoubleParts
<1>2. second \in 0..1
  BY <1>1
<1>3. ShiftOverflow32(reg, v, end) =
        CASE reg \in {0, 2, 4} -> Bool(end[2] # top)
          [] reg = 1 /\ end[3] = 1 -> 255 - second
          [] reg = 3 \/ (reg = 1 /\ end[3] = 0) -> Bool(top # second)
          [] reg = 5 -> Sign(v[2], Word)
          [] reg = 7 -> 0
  BY DEF ShiftOverflow32
<1> HIDE DEF top, second
<1>4. Bool(end[2] # top) \in 0..1 /\ Bool(top # second) \in 0..1 /\ Sign(v[2], Word) \in 0..1
  BY SignBit, BoolBit
<1>5. 255 - second \in {254, 255}
  BY <1>2
<1> QED
  BY <1>1, <1>3, <1>4, <1>5, OverflowBits DEF Overflows

LEMMA Shifts32OK ==
  ASSUME NEW f \in Flags, NEW v \in Doubles, NEW cnt \in Nat, NEW reg \in 0..7,
         reg = 6 => cnt = 0
  PROVE  op_grp2_32(f, reg, v, cnt).res \in Doubles /\ op_grp2_32(f, reg, v, cnt).f \in Flags
<1>1. CASE cnt = 0
  BY <1>1 DEF op_grp2_32
<1>2. CASE cnt # 0
  <2> DEFINE T == Shifting32
             start == <<v, f.cf, 0>>
             Is(g) == g = [i \in 0..31 |-> IF i = 0 THEN start ELSE ShiftStep32(reg, g[i - 1])]
             shift == CHOOSE g : Is(g)
             n == cnt % 32
             end == shift[n]
             of == IF n = 1 THEN ShiftOverflow32(reg, v, end) ELSE f.of
             carried == [f EXCEPT !.cf = end[2], !.of = of]
             g1 == IF reg >= 4 THEN flag_szp32(carried, end[1]) ELSE carried
  <2>1. op_grp2_32(f, reg, v, cnt) = [res |-> end[1], f |-> g1]
    BY <1>2 DEF op_grp2_32
  <2>2. reg \in {0, 1, 2, 3, 4, 5, 7}
    BY <1>2
  <2>3. start \in T
    BY FlagBits, Bits DEF Shifting32
  <2>4. \A z \in T : ShiftStep32(reg, z) \in T
    BY <2>2, ShiftStep32OK
  <2> HIDE DEF T, start
  <2>5. \E g : Is(g)
    <3> DEFINE step == [z \in T |-> ShiftStep32(reg, z)]
    <3>1. step \in [T -> T]
      BY <2>4
    <3> HIDE DEF step
    <3>2. PICK g : Steps(g, T, start, step)
      BY <2>3, <3>1, StepsExist
    <3>6. g \in [0..31 -> T] /\ g[0] = start /\ \A i \in 1..31 : g[i] = step[g[i - 1]]
      BY <3>2 DEF Steps
    <3>3. ASSUME NEW i \in 1..31
          PROVE  g[i] = ShiftStep32(reg, g[i - 1])
      <4>1. i - 1 \in 0..31
        BY <3>3
      <4>2. g[i - 1] \in T
        BY <3>6, <4>1
      <4> QED
        BY <3>6, <3>3, <4>2 DEF step
    <3>4. \A i \in 0..31 : i = 0 \/ i \in 1..31
      OBVIOUS
    <3>5. g = [i \in 0..31 |-> IF i = 0 THEN start ELSE ShiftStep32(reg, g[i - 1])]
      BY <3>6, <3>3, <3>4, Zenon
    <3> QED
      BY <3>5
  <2>6. Is(shift)
    BY <2>5, Zenon
  <2> HIDE DEF shift
  <2>7. shift[0] = start /\ \A i \in 1..31 : shift[i] = ShiftStep32(reg, shift[i - 1])
    <3>1. 0 \in 0..31 /\ \A i \in 1..31 : i \in 0..31 /\ i # 0
      OBVIOUS
    <3> QED
      BY <2>6, <3>1
  <2>8. \A i \in 0..31 : shift[i] \in T
    BY <2>3, <2>4, <2>7, StepsTyped
  <2>9. n \in 0..31
    OBVIOUS
  <2> HIDE DEF n
  <2>10. end \in T
    BY <2>8, <2>9
  <2> HIDE DEF end
  <2>11. end[1] \in Doubles /\ end[2] \in 0..1
    BY <2>10 DEF T, Shifting32
  <2>12. of \in Overflows
    <3>1. n = 1 => ShiftOverflow32(reg, v, end) \in Overflows
      BY <2>2, <2>11, <2>10, ShiftOverflow32OK DEF T
    <3> QED
      BY <3>1, FlagBits
  <2> HIDE DEF of
  <2>13. carried \in Flags
    <3> DEFINE h == [f EXCEPT !.cf = end[2]]
    <3>1. h \in Flags
      BY <2>11, SetFlag
    <3> HIDE DEF h
    <3>2. [h EXCEPT !.of = of] \in Flags
      BY <2>12, <3>1, OverflowOK
    <3> QED
      BY <3>2 DEF h
  <2> HIDE DEF carried
  <2>15. g1 \in Flags
    BY <2>11, <2>13, Szp32OK
  <2> HIDE DEF g1
  <2> QED
    BY <2>1, <2>11, <2>15
<1> QED
  BY <1>1, <1>2

LEMMA ShrdOK ==
  ASSUME NEW x, MachineOK(x)
  PROVE  MachineOK(shrd(x))
<1> DEFINE d == modregrm(x)
           T == Doubles \X Doubles
           start == <<R32(d, d.reg), Rm32(d)>>
           Next2(z) == <<Half(z[1], 0), Half(z[2], z[1][1] % 2)>>
           Is(g) == g = [i \in 0..31 |-> IF i = 0 THEN start ELSE Next2(g[i - 1])]
           step == CHOOSE g : Is(g)
           n == Code8(d) % 32
           v == step[n][2]
<1>1. shrd(x) = SetF(SetRm32(AdvanceIP(d, 1), v), flag_logic32(d.f, v))
  BY DEF shrd
<1>2. MachineOK(d)
  BY ModRmOK
<1> HIDE DEF d
<1>3. start \in T
  BY <1>2, Parts, Register32OK, Operand32OK
<1>4. n \in 0..31
  <2>1. Code8(d) \in Int
    BY <1>2, CodeOK
  <2> QED
    BY <2>1
<1>5. \A z \in T : Next2(z) \in T
  <2>1. ASSUME NEW z \in T
        PROVE  Next2(z) \in T
    <3>1. z[1] \in Doubles /\ z[2] \in Doubles
      BY <2>1
    <3>2. z[1][1] \in Int
      BY <3>1, DoubleParts
    <3>3. z[1][1] % 2 \in 0..1 /\ 0 \in 0..1
      BY <3>2
    <3>4. Half(z[1], 0) \in Doubles /\ Half(z[2], z[1][1] % 2) \in Doubles
      BY <3>1, <3>3, TwiceHalfOK
    <3> QED
      BY <3>4
  <2> QED
    BY <2>1
<1> HIDE DEF T, start, Next2, n
<1>6. \E g : Is(g)
  <2> DEFINE st == [z \in T |-> Next2(z)]
  <2>1. st \in [T -> T]
    BY <1>5
  <2> HIDE DEF st
  <2>2. PICK g : Steps(g, T, start, st)
    BY <1>3, <2>1, StepsExist
  <2>3. g \in [0..31 -> T] /\ g[0] = start /\ \A i \in 1..31 : g[i] = st[g[i - 1]]
    BY <2>2 DEF Steps
  <2>4. ASSUME NEW i \in 1..31
        PROVE  g[i] = Next2(g[i - 1])
    <3>1. i - 1 \in 0..31
      BY <2>4
    <3>2. g[i - 1] \in T
      BY <2>3, <3>1
    <3> QED
      BY <2>3, <2>4, <3>2 DEF st
  <2>5. \A i \in 0..31 : i = 0 \/ i \in 1..31
    OBVIOUS
  <2>6. g = [i \in 0..31 |-> IF i = 0 THEN start ELSE Next2(g[i - 1])]
    BY <2>3, <2>4, <2>5, Zenon
  <2> QED
    BY <2>6
<1>7. Is(step)
  BY <1>6, Zenon
<1> HIDE DEF step
<1>8. step[0] = start /\ \A i \in 1..31 : step[i] = Next2(step[i - 1])
  <2>1. 0 \in 0..31 /\ \A i \in 1..31 : i \in 0..31 /\ i # 0
    OBVIOUS
  <2> QED
    BY <1>7, <2>1
<1>9. \A i \in 0..31 : step[i] \in T
  BY <1>3, <1>5, <1>8, StepsTyped
<1>10. v \in Doubles
  <2>1. step[n] \in T
    BY <1>4, <1>9
  <2> QED
    BY <2>1 DEF T
<1> HIDE DEF v
<1>11. flag_logic32(d.f, v) \in Flags
  BY <1>2, <1>10, Parts, Szp32OK
<1>12. MachineOK(SetRm32(AdvanceIP(d, 1), v))
  <2>1. MachineOK(AdvanceIP(d, 1))
    BY <1>2, AdvanceOK
  <2> QED
    BY <1>10, <2>1, Operand32OK
<1> QED
  BY <1>1, <1>11, <1>12, SetFOK

\* A word that is not 0 has a highest bit.
LEMMA HighestBit ==
  ASSUME NEW v \in Words, v # 0
  PROVE  \E n \in 0..15 : 2 ^ n <= v /\ v < 2 ^ (n + 1)
<1>1. v \in Nat /\ v # 0 /\ v < 65536
  BY SMTT(30) DEF Words, Word, Byte
<1>2. \E n \in {0, 1, 2, 3, 4, 5, 6, 7, 8, 9, 10, 11, 12, 13, 14, 15} :
        2 ^ n <= v /\ v < 2 ^ (n + 1)
  BY <1>1, SMTT(30)
<1>3. \A n \in {0, 1, 2, 3, 4, 5, 6, 7, 8, 9, 10, 11, 12, 13, 14, 15} : n \in 0..15
  OBVIOUS
<1> QED
  BY <1>2, <1>3, Zenon

LEMMA BsrOK ==
  ASSUME NEW x, MachineOK(x)
  PROVE  MachineOK(bsr(x))
<1> DEFINE d == modregrm(x)
           v == Rm32(d)
           highest(n) == CHOOSE i \in 0..15 : 2 ^ i <= n /\ n < 2 ^ (i + 1)
           low == IF v[2] # 0 THEN 16 + highest(v[2]) ELSE highest(v[1])
           y0 == [d EXCEPT !.f.zf = 0]
           y1 == [d EXCEPT !.f.zf = 1]
<1>1. bsr(x) = IF v = <<0, 0>> THEN y1 ELSE SetR32(y0, d.reg, <<low, 0>>)
  BY DEF bsr
<1>2. MachineOK(d) /\ d.f \in Flags /\ d.reg \in 0..7
  BY ModRmOK, Parts
<1> HIDE DEF d
<1>3. v \in Doubles /\ v[1] \in Words /\ v[2] \in Words
  BY <1>2, Operand32OK, DoubleParts
<1>4. MachineOK(y0) /\ MachineOK(y1)
  <2>1. [d.f EXCEPT !.zf = 0] \in Flags /\ [d.f EXCEPT !.zf = 1] \in Flags
    BY <1>2, SetFlag, Bits
  <2>2. /\ y0 = [d EXCEPT !.f = [d.f EXCEPT !.zf = 0]]
        /\ y1 = [d EXCEPT !.f = [d.f EXCEPT !.zf = 1]]
    BY <1>2, Fields DEF MachineOK
  <2> QED
    BY <1>2, <2>1, <2>2, WithF
<1> HIDE DEF y0, y1
<1>5. \A n \in Words : n # 0 => highest(n) \in 0..15
  BY HighestBit
<1> HIDE DEF highest
<1>6. v # <<0, 0>> => v[1] # 0 \/ v[2] # 0
  BY <1>3 DEF Doubles
<1>7. v # <<0, 0>> => low \in 0..31
  BY <1>3, <1>5, <1>6
<1> HIDE DEF low, v
<1>8. low \in 0..31 => <<low, 0>> \in Doubles
  <2>1. \A n \in 0..31 : n \in Words
    BY DEF Words, Word, Byte
  <2>2. 0 \in Words
    BY Numbers8
  <2> QED
    BY <2>1, <2>2, SMTT(30) DEF Doubles
<1> QED
  BY <1>1, <1>2, <1>4, <1>7, <1>8, Register32OK

LEMMA Opcode66OK ==
  ASSUME NEW x0, MachineOK(x0)
  PROVE  MachineOK(opcode66(x0))
<1> DEFINE op == Code8(x0)
           x == AdvanceIP(x0, 1)
           d == modregrm(x)
           y == AdvanceIP(x, 1)
           i == op % 8
           v1 == Xor32(R32(d, d.reg), Rm32(d))
           z1 == SetF(SetR32(d, d.reg, v1), flag_logic32(d.f, v1))
           v2 == Xor32(R32(x, AX), Code32(x))
           z2 == SetF(SetR32(AdvanceIP(x, 4), AX, v2), flag_logic32(x.f, v2))
           z3 == SetF(AdvanceIP(x, 4), flag_sub32(x.f, R32(x, AX), Code32(x)))
           v4 == R32(x, i)
           f4 == flag_add32(x.f, v4, <<1, 0>>)
           z4 == SetF(SetR32(x, i, op_add32(v4, <<1, 0>>)), [f4 EXCEPT !.cf = x.f.cf])
           z5 == push32(x, R32(x, i))
           z6 == Pop32(x, i)
           z7 == SetRm32(d, R32(d, d.reg))
           z8 == SetR32(d, d.reg, Rm32(d))
           z9 == push32(x, <<makeflags(x.f), IF x.f.of > 1 THEN 7 ELSE 4 * x.f.ac>>)
           z10 == SetF(Drop32(x), [decodeflags(Top32(x)[1]) EXCEPT !.ac = (Top32(x)[2] \div 4) % 2])
           lo == Read16Long(d, d.s[CS], d.ip)
           hi == Read16Long(d, d.s[CS], (d.ip + 2) % Word)
           z11 == AdvanceIP(SetRm32(d, <<lo, hi>>), 4)
           cnt == R(d, CX, Byte)
           g == op_grp2_32(d.f, d.reg, Rm32(d), cnt)
           z12 == SetRm32(SetF(d, g.f), g.res)
<1>1. opcode66(x0) =
        CASE op = 15 /\ Code8(x) = 172 -> shrd(y)
          [] op = 15 /\ Code8(x) = 189 -> bsr(y)
          [] op = 51 -> z1
          [] op = 53 -> z2
          [] op = 61 -> z3
          [] op \in 64..71 -> z4
          [] op \in 80..87 -> z5
          [] op \in 88..95 -> z6
          [] op = 96 -> PUSHAD(x)
          [] op = 97 -> POPAD(x)
          [] op = 137 -> z7
          [] op = 139 -> z8
          [] op = 156 -> z9
          [] op = 157 -> z10
          [] op = 199 -> z11
          [] op = 211 -> IF d.reg = 6 /\ cnt # 0 THEN exit_or_restart(d) ELSE z12
          [] OTHER -> exit_or_restart(x)
  BY DEF opcode66
<1>2. /\ MachineOK(x) /\ x.f \in Flags
      /\ MachineOK(d) /\ d.f \in Flags /\ d.reg \in 0..7
      /\ MachineOK(y)
      /\ MachineOK(exit_or_restart(d)) /\ MachineOK(exit_or_restart(x))
  <2>1. MachineOK(x)
    BY AdvanceOK
  <2> HIDE DEF x
  <2>2. MachineOK(d) /\ MachineOK(y)
    BY <2>1, ModRmOK, AdvanceOK
  <2> HIDE DEF d, y
  <2> QED
    BY <2>1, <2>2, Parts, WithExited
<1>3. op \in Octets /\ i \in 0..7
  <2>1. op \in Octets /\ op \in Int
    BY CodeOK
  <2> HIDE DEF op
  <2> QED
    BY <2>1
<1> HIDE DEF x, d, y, i, op
<1>5. /\ Rm32(d) \in Doubles /\ R32(d, d.reg) \in Doubles /\ R32(x, AX) \in Doubles
      /\ R32(x, i) \in Doubles /\ Code32(x) \in Doubles /\ <<1, 0>> \in Doubles
  <2>1. <<1, 0>> \in Doubles
    <3>1. 0 \in 0..7 /\ 1 \in 0..7
      OBVIOUS
    <3> QED
      BY <3>1, Numbers8 DEF Doubles
  <2> QED
    BY <1>2, <1>3, <2>1, Operand32OK, Register32OK, Pop32OK, Names
<1>6. MachineOK(shrd(y)) /\ MachineOK(bsr(y)) /\ MachineOK(PUSHAD(x)) /\ MachineOK(POPAD(x))
  BY <1>2, ShrdOK, BsrOK, PushAll32OK
<1>7. MachineOK(z1)
  <2>1. v1 \in Doubles
    BY <1>5, Xor32OK
  <2> HIDE DEF v1
  <2>2. MachineOK(SetR32(d, d.reg, v1)) /\ flag_logic32(d.f, v1) \in Flags
    BY <1>2, <2>1, Register32OK, Szp32OK
  <2> QED
    BY <2>2, SetFOK
<1>8. MachineOK(z2) /\ MachineOK(z3)
  <2>1. v2 \in Doubles
    BY <1>5, Xor32OK
  <2> HIDE DEF v2
  <2>2. 4 \in Int
    OBVIOUS
  <2>3. MachineOK(AdvanceIP(x, 4))
    BY <1>2, <2>2, AdvanceOK
  <2>4. MachineOK(SetR32(AdvanceIP(x, 4), AX, v2))
    BY <2>1, <2>3, Register32OK, Names
  <2>5. flag_logic32(x.f, v2) \in Flags /\ flag_sub32(x.f, R32(x, AX), Code32(x)) \in Flags
    BY <1>2, <1>5, <2>1, Szp32OK, Sub32OK
  <2> QED
    BY <2>3, <2>4, <2>5, SetFOK
<1>9. MachineOK(z4)
  <2>1. v4 \in Doubles
    BY <1>5
  <2> HIDE DEF v4
  <2>2. f4 \in Flags /\ op_add32(v4, <<1, 0>>) \in Doubles
    BY <1>2, <1>5, <2>1, Add32OK
  <2> HIDE DEF f4
  <2>3. x.f.cf \in 0..1
    BY <1>2, FlagBits
  <2>4. [f4 EXCEPT !.cf = x.f.cf] \in Flags
    BY <2>2, <2>3, SetFlag
  <2>5. MachineOK(SetR32(x, i, op_add32(v4, <<1, 0>>)))
    BY <1>2, <1>3, <2>2, Register32OK
  <2> QED
    BY <2>4, <2>5, SetFOK
<1>10. MachineOK(z5) /\ MachineOK(z6)
  BY <1>2, <1>3, <1>5, Push32OK, Pop32OK
<1>11. MachineOK(z7) /\ MachineOK(z8)
  BY <1>2, <1>5, Operand32OK, Register32OK
<1>12. MachineOK(z9)
  <2>1. x.f.ac \in 0..1
    BY <1>2, FlagBits
  <2> DEFINE upper == IF x.f.of > 1 THEN 7 ELSE 4 * x.f.ac
  <2>2. upper \in 0..7
    BY <2>1
  <2>3. makeflags(x.f) \in Words /\ upper \in Words
    BY <1>2, <2>2, MadeOK, Numbers8
  <2> HIDE DEF upper
  <2>4. <<makeflags(x.f), upper>> \in Doubles
    BY <2>3 DEF Doubles
  <2> QED
    BY <1>2, <2>4, Push32OK DEF upper
<1>13. MachineOK(z10)
  <2> DEFINE t == Top32(x)
             h == decodeflags(t[1])
  <2>1. MachineOK(Drop32(x)) /\ t \in Doubles
    BY <1>2, Pop32OK
  <2> HIDE DEF t
  <2>2. t[1] \in Int /\ t[2] \in Int /\ 4 \in Nat /\ 0 < 4
    BY <2>1, DoubleParts
  <2>3. h \in Flags /\ (t[2] \div 4) % 2 \in 0..1
    BY <2>2, DecodedOK, BitOf
  <2> HIDE DEF h
  <2>4. [h EXCEPT !.ac = (t[2] \div 4) % 2] \in Flags
    BY <2>3, SetFlag
  <2>5. MachineOK(SetF(Drop32(x), [h EXCEPT !.ac = (t[2] \div 4) % 2]))
    BY <2>1, <2>4, SetFOK
  <2> QED
    BY <2>5 DEF h, t
<1>14. MachineOK(z11)
  <2>1. <<lo, hi>> \in Doubles
    BY <1>2, ReadOK DEF Doubles
  <2> HIDE DEF lo, hi
  <2>2. MachineOK(SetRm32(d, <<lo, hi>>)) /\ 4 \in Int
    BY <1>2, <2>1, Operand32OK
  <2> QED
    BY <2>2, AdvanceOK
<1>15. op = 211 => (d.reg = 6 /\ cnt # 0) \/ MachineOK(z12)
  <2>1. cnt \in Nat
    BY <1>2, RegisterOK, Names, Numbers8, OfSize
  <2> HIDE DEF cnt
  <2>2. ASSUME op = 211, d.reg = 6 => cnt = 0
        PROVE  MachineOK(z12)
    <3>1. g.res \in Doubles /\ g.f \in Flags
      BY <1>2, <1>5, <2>1, <2>2, Shifts32OK
    <3> HIDE DEF g
    <3>2. MachineOK(SetF(d, g.f))
      BY <1>2, <3>1, SetFOK
    <3> QED
      BY <3>1, <3>2, Operand32OK
  <2> QED
    BY <2>2
<1> HIDE DEF z1, z2, z3, z4, z5, z6, z7, z8, z9, z10, z11, z12, cnt
<1> QED
  BY <1>1, <1>2, <1>6, <1>7, <1>8, <1>9, <1>10, <1>11, <1>12, <1>13, <1>14, <1>15

-----------------------------------------------------------------------------
\* Control transfers.
LEMMA ShortOK ==
  ASSUME NEW x, MachineOK(x), NEW taken
  PROVE  MachineOK(Short(x, taken))
<1>1. Code8(x) \in Int /\ Byte \in Int
  BY CodeOK, Sizes
<1>2. Signed(Code8(x), Byte) \in Int
  BY <1>1, SignedOK
<1> DEFINE n == 1 + (IF taken THEN Signed(Code8(x), Byte) ELSE 0)
<1>3. n \in Int
  BY <1>2
<1>4. Short(x, taken) = AdvanceIP(x, n)
  BY DEF Short
<1> HIDE DEF n
<1> QED
  BY <1>3, <1>4, AdvanceOK

LEMMA LoopsOK ==
  ASSUME NEW x, MachineOK(x), NEW op \in 224..227
  PROVE  MachineOK(Loops(x, op))
<1>1. MachineOK(Add(x, CX, -1))
  <2>1. -1 \in Int
    OBVIOUS
  <2> QED
    BY <2>1, AddOK, Names
<1>2. op = 224 \/ op = 225 \/ op = 226 \/ op = 227
  OBVIOUS
<1> QED
  BY <1>1, <1>2, ShortOK DEF Loops

LEMMA JumpCallOK ==
  ASSUME NEW x, MachineOK(x), NEW op \in 232..235
  PROVE  MachineOK(JumpCall(x, op))
<1> DEFINE n == AdvanceIP(x, 2)
           y1 == AdvanceIP(push16(n, n.ip), Code16(x))
           y2 == AdvanceIP(n, Code16(x))
           y3 == [x EXCEPT !.ip = Code16(x), !.s[CS] = Code16(n)]
<1>1. JumpCall(x, op) = CASE op = 232 -> y1
                          [] op = 233 -> y2
                          [] op = 234 -> y3
                          [] op = 235 -> Short(x, TRUE)
  BY DEF JumpCall
<1>2. MachineOK(n)
  <2>1. 2 \in Int
    OBVIOUS
  <2> QED
    BY <2>1, AdvanceOK
<1> HIDE DEF n
<1>3. Code16(x) \in Int /\ Code16(x) \in Words /\ Code16(n) \in Words /\ n.ip \in Words
  BY <1>2, CodeOK, Parts
<1>4. MachineOK(y1) /\ MachineOK(y2)
  <2>1. MachineOK(push16(n, n.ip))
    BY <1>2, <1>3, PushOK
  <2> QED
    BY <1>2, <1>3, <2>1, AdvanceOK
<1>5. MachineOK(y3)
  <2> DEFINE z == [x EXCEPT !.ip = Code16(x)]
  <2>1. MachineOK(z)
    BY <1>3, WithIP
  <2>2. y3 = [z EXCEPT !.s[CS] = Code16(n)]
    OBVIOUS
  <2> HIDE DEF z, y3
  <2> QED
    BY <1>3, <2>1, <2>2, WithS, Names
<1> HIDE DEF y1, y2, y3
<1>6. op = 232 \/ op = 233 \/ op = 234 \/ op = 235
  OBVIOUS
<1> QED
  BY <1>1, <1>4, <1>5, <1>6, ShortOK, ZenonT(40)

LEMMA CallFarOK ==
  ASSUME NEW x, MachineOK(x)
  PROVE  MachineOK(CallFar(x))
<1> DEFINE end == AdvanceIP(x, 4)
           a == push16(end, x.s[CS])
           b == push16(a, end.ip)
           ip == Code16(x)
           seg == Code16(AdvanceIP(x, 2))
           c == [b EXCEPT !.ip = ip]
<1>1. CallFar(x) = [b EXCEPT !.ip = ip, !.s[CS] = seg]
  BY DEF CallFar
<1>2. MachineOK(end)
  <2>1. 4 \in Int
    OBVIOUS
  <2> QED
    BY <2>1, AdvanceOK
<1>3. ip \in Words /\ seg \in Words
  <2>1. 2 \in Int
    OBVIOUS
  <2>2. MachineOK(AdvanceIP(x, 2))
    BY <2>1, AdvanceOK
  <2> QED
    BY <2>2, CodeOK
<1> HIDE DEF end, ip, seg
<1>4. MachineOK(a)
  BY <1>2, Parts, Names, PushOK
<1> HIDE DEF a
<1>5. MachineOK(b)
  BY <1>2, <1>4, Parts, PushOK
<1> HIDE DEF b
<1>6. MachineOK(c)
  BY <1>3, <1>5, WithIP
<1>7. CallFar(x) = [c EXCEPT !.s[CS] = seg]
  BY <1>1
<1> HIDE DEF c
<1> QED
  BY <1>3, <1>6, <1>7, WithS, Names

LEMMA ReturnsOK ==
  ASSUME NEW x, MachineOK(x), NEW op
  PROVE  MachineOK(Ret(x, op)) /\ MachineOK(Retf(x, op)) /\ MachineOK(Iret(x))
<1>1. MachineOK(PopIP(x)) /\ MachineOK(PopS(PopIP(x), CS))
  BY PopOK, Names
<1>2. Read16Long(x, x.s[CS], x.ip) \in Int
  BY ReadOK, Numbers8
<1>3. MachineOK(Ret(x, op))
  BY <1>1, <1>2, AddOK, Names DEF Ret
<1> DEFINE y == PopS(PopIP(x), CS)
<1>4. Retf(x, op) = IF op = 203 THEN y ELSE Add(y, SP, Read16Long(x, x.s[CS], x.ip))
  BY DEF Retf
<1>5. Iret(x) = SetF(Drop(y), decodeflags(Top(y)))
  BY DEF Iret
<1>6. MachineOK(y)
  BY <1>1
<1> HIDE DEF y
<1>7. MachineOK(Retf(x, op))
  BY <1>2, <1>4, <1>6, AddOK, Names
<1>8. MachineOK(Iret(x))
  <2>1. Top(y) \in Int /\ MachineOK(Drop(y))
    BY <1>6, TopOK, Numbers8
  <2> QED
    BY <1>5, <2>1, DecodedOK, SetFOK
<1> QED
  BY <1>3, <1>7, <1>8

LEMMA IntOK ==
  ASSUME NEW x, MachineOK(x), NEW op \in 204..206
  PROVE  MachineOK(INT(x, op))
<1>1. op = 204 \/ op = 205 \/ op = 206
  OBVIOUS
<1>2. MachineOK(AdvanceIP(x, 1))
  BY AdvanceOK
<1> QED
  BY <1>1, <1>2, IntCallOK DEF INT

LEMMA Grp5OK ==
  ASSUME NEW x, MachineOK(x)
  PROVE  MachineOK(op_grp5(x))
<1> DEFINE d == modregrm(x)
           a == Rm(d, Word)
           far(z) == [z EXCEPT !.ip = Read16Unsafe(z, getea(z)),
                               !.s[CS] = Read16Unsafe(z, getea(z) + 2)]
           y0 == StoreRm(d, Word, KeepCarry(op_add(d.f, a, 1, Word), d.f))
           y1 == StoreRm(d, Word, KeepCarry(op_sub(d.f, a, 1, Word), d.f))
           y2 == [push16(d, d.ip) EXCEPT !.ip = a]
           y4 == [d EXCEPT !.ip = a]
           p == push16(push16(d, d.s[CS]), d.ip)
<1>1. op_grp5(x) = CASE d.reg = 0 -> y0
                     [] d.reg = 1 -> y1
                     [] d.reg = 2 -> y2
                     [] d.reg = 4 -> y4
                     [] d.reg \in {3, 5} /\ d.mode = 3 -> exit_or_restart(d)
                     [] d.reg = 3 /\ d.mode # 3 -> far(p)
                     [] d.reg = 5 /\ d.mode # 3 -> far(d)
                     [] d.reg = 6 -> push16(d, a)
                     [] d.reg = 7 -> exit_or_restart(d)
  BY DEF op_grp5
<1>2. MachineOK(d) /\ d.f \in Flags /\ d.reg \in 0..7 /\ a \in 0 .. Word - 1 /\ a \in Words
  BY ModRmParts, OfSize
<1> HIDE DEF d, a
<1>3. ASSUME NEW z, MachineOK(z)
      PROVE  MachineOK(far(z))
  <2> DEFINE ip == Read16Unsafe(z, getea(z))
             seg == Read16Unsafe(z, getea(z) + 2)
             u == [z EXCEPT !.ip = ip]
  <2>1. ip \in Words /\ seg \in Words
    BY <1>3, ReadOK
  <2>2. far(z) = [u EXCEPT !.s[CS] = seg]
    OBVIOUS
  <2> HIDE DEF ip, seg
  <2>3. MachineOK(u)
    BY <1>3, <2>1, WithIP
  <2> HIDE DEF u, far
  <2> QED
    BY <2>1, <2>2, <2>3, WithS, Names
<1> HIDE DEF far
<1>4. MachineOK(y0) /\ MachineOK(y1)
  <2>1. /\ ResultOK(KeepCarry(op_add(d.f, a, 1, Word), d.f), Word)
        /\ ResultOK(KeepCarry(op_sub(d.f, a, 1, Word), d.f), Word)
    BY <1>2, KeptOK
  <2> QED
    BY <1>2, <2>1, StoredOK
<1>5. MachineOK(y2) /\ MachineOK(y4)
  <2>1. d.ip \in Words
    BY <1>2, Parts
  <2>2. MachineOK(push16(d, d.ip))
    BY <1>2, <2>1, PushOK
  <2> QED
    BY <1>2, <2>2, WithIP
<1>6. MachineOK(p)
  <2>1. d.ip \in Words /\ d.s[CS] \in Words
    BY <1>2, Parts, Names
  <2>2. MachineOK(push16(d, d.s[CS]))
    BY <1>2, <2>1, PushOK
  <2> QED
    BY <2>1, <2>2, PushOK
<1>7. MachineOK(far(p)) /\ MachineOK(far(d))
  BY <1>2, <1>3, <1>6
<1>8. MachineOK(push16(d, a)) /\ MachineOK(exit_or_restart(d))
  BY <1>2, PushOK, WithExited
<1> HIDE DEF y0, y1, y2, y4, p
<1> QED
  BY <1>1, <1>2, <1>4, <1>5, <1>7, <1>8

LEMMA PortsOK ==
  ASSUME NEW x, MachineOK(x), NEW op \in 228..231 \cup 236..239
  PROVE  MachineOK(Ports(x, op))
<1> DEFINE p == IF op < 236 THEN Code8(x) ELSE x.r[DX]
           end == IF op < 236 THEN AdvanceIP(x, 1) ELSE x
           a == IF p \in InPorts THEN SetR(end, AX, Byte, portin(x, p)) ELSE exit_or_restart(x)
           b == portout(end, p, R(x, AX, Byte))
           c == portout16(end, p, x.r[AX])
<1>1. Ports(x, op) = CASE op \in {228, 236} -> a
                       [] op \in {229, 237} -> exit_or_restart(x)
                       [] op \in {230, 238} -> b
                       [] op \in {231, 239} -> c
  BY DEF Ports
<1>2. MachineOK(end) /\ MachineOK(exit_or_restart(x))
  BY AdvanceOK, WithExited
<1> HIDE DEF end, p
<1>3. MachineOK(a)
  <2>1. p \in InPorts => portin(x, p) \in 0 .. Byte - 1
    BY PortInOK, OfSize
  <2> QED
    BY <1>2, <2>1, SetROK, Names
<1>4. MachineOK(b) /\ MachineOK(c)
  <2>1. R(x, AX, Byte) \in Octets /\ x.r[AX] \in Words
    BY RegisterOK, Parts, OfSize, Names
  <2> QED
    BY <1>2, <2>1, PortOutOK
<1> HIDE DEF a, b, c
<1>5. op \in {228, 236} \/ op \in {229, 237} \/ op \in {230, 238} \/ op \in {231, 239}
  OBVIOUS
<1> QED
  BY <1>1, <1>2, <1>3, <1>4, <1>5

LEMMA Addresses ==
  64 \in Words /\ 108 \in Words
<1>1. 64 < Word /\ 108 < Word
  BY DEF Word, Byte
<1> QED
  BY <1>1, Sizes DEF Words

\* The callbacks of devices/rom.c.
LEMMA ROMExecOK ==
  ASSUME NEW x, MachineOK(x), NEW n \in Octets \ Services
  PROVE  MachineOK(ROMExec(x, n))
<1> DEFINE v == Read16Long(x, 64, 108)
           tick == Write16Long(x, 64, 108, (v + 1) % Word)
           none == [x EXCEPT !.r[AX] = 0]
<1>1. ROMExec(x, n) = CASE n \in {4, 9, 28} -> x
                        [] n = 8 -> tick
                        [] n = 17 -> none
                        [] n = 32 \/ n \notin {4, 8, 9, 17, 28} \cup Services -> exit_or_restart(x)
  BY DEF ROMExec
<1>2. (v + 1) % Word \in Words
  <2>1. v \in Int
    BY ReadOK, Numbers8
  <2> HIDE DEF v
  <2> QED
    BY <2>1, ByteFacts
<1> HIDE DEF v
<1>3. MachineOK(tick)
  BY <1>2, Addresses, Write16LongOK
<1>4. MachineOK(none)
  BY WithR, Names, Numbers8
<1> HIDE DEF tick, none
<1> QED
  BY <1>1, <1>3, <1>4, WithExited

\* The words CPUID answers are words.
LEMMA AnswersOK ==
  /\ \A i \in 0..3 : <<1, 29806, 28265, 25927>>[i + 1] \in Words
  /\ \A i \in 0..3 : <<0, 27749, 18789, 30062>>[i + 1] \in Words
  /\ \A i \in 0..3 : <<1026, 0, 1, 0>>[i + 1] \in Words
  /\ \A i \in 0..3 : <<0, 0, 0, 0>>[i + 1] \in Words
<1>1. /\ 29806 < Word /\ 28265 < Word /\ 25927 < Word /\ 27749 < Word /\ 18789 < Word
      /\ 30062 < Word /\ 1026 < Word
  BY DEF Word, Byte
<1>2. /\ 29806 \in Words /\ 28265 \in Words /\ 25927 \in Words /\ 27749 \in Words
      /\ 18789 \in Words /\ 30062 \in Words /\ 1026 \in Words
  BY <1>1, Sizes DEF Words
<1>3. 0 \in Words /\ 1 \in Words
  BY Numbers8
<1>4. \A i \in 0..3 : i = 0 \/ i = 1 \/ i = 2 \/ i = 3
  OBVIOUS
<1> QED
  BY <1>2, <1>3, <1>4

LEMMA ExtendedOK ==
  ASSUME NEW x, MachineOK(x), NEW op
  PROVE  MachineOK(Extended(x, op))
<1> DEFINE end == AdvanceIP(x, 1)
           answer == IF x.r[AX] = 0 /\ x.h[AX] = 0
                     THEN [lo |-> <<1, 29806, 28265, 25927>>, hi |-> <<0, 27749, 18789, 30062>>]
                     ELSE [lo |-> <<1026, 0, 1, 0>>, hi |-> <<0, 0, 0, 0>>]
           put(f, words) == [i \in 0..7 |-> IF i < 4 THEN words[i + 1] ELSE f[i]]
           to == IF x.f.zf = 1 THEN Code16(end) ELSE 0
           jump == AdvanceIP(end, 2 + to)
           r == put(x.r, answer.lo)
           h == put(x.h, answer.hi)
           id == [end EXCEPT !.r = r, !.h = h]
<1>1. Extended(x, op) = CASE op = 132 -> jump
                          [] op = 160 -> push16(end, x.s[FS])
                          [] op = 161 -> PopS(end, FS)
                          [] op = 168 -> push16(end, x.s[GS])
                          [] op = 169 -> PopS(end, GS)
                          [] op = 162 -> id
                          [] OTHER -> exit_or_restart(x)
  BY DEF Extended
<1>2. MachineOK(end)
  BY AdvanceOK
<1>3. r \in [0..7 -> Words] /\ h \in [0..7 -> Words]
  <2>1. \A i \in 0..3 : answer.lo[i + 1] \in Words /\ answer.hi[i + 1] \in Words
    BY AnswersOK
  <2> HIDE DEF answer
  <2>2. \A i \in 0..7 : ~(i < 4) \/ i \in 0..3
    OBVIOUS
  <2>3. \A i \in 0..7 : x.r[i] \in Words /\ x.h[i] \in Words
    BY Parts
  <2> QED
    BY <2>1, <2>2, <2>3
<1> HIDE DEF end, r, h
<1>4. MachineOK(id)
  <2> DEFINE y == [end EXCEPT !.r = r]
  <2>1. MachineOK(y)
    BY <1>2, <1>3, WithRs
  <2> HIDE DEF y
  <2>2. MachineOK([y EXCEPT !.h = h])
    BY <1>3, <2>1, WithHs
  <2> QED
    BY <2>2 DEF y
<1>5. MachineOK(jump)
  <2>1. Code16(end) \in Int /\ 0 \in Int
    BY <1>2, CodeOK
  <2>2. 2 + to \in Int
    BY <2>1
  <2> HIDE DEF to
  <2> QED
    BY <1>2, <2>2, AdvanceOK
<1>6. /\ MachineOK(push16(end, x.s[FS])) /\ MachineOK(push16(end, x.s[GS]))
      /\ MachineOK(PopS(end, FS)) /\ MachineOK(PopS(end, GS))
  <2>1. x.s[FS] \in Words /\ x.s[GS] \in Words
    BY Parts, Names
  <2> QED
    BY <1>2, <2>1, PushOK, PopOK, Names
<1> HIDE DEF id, jump
<1> QED
  BY <1>1, <1>4, <1>5, <1>6, WithExited

-----------------------------------------------------------------------------
\* The dispatch of an opcode.
LEMMA PrefixSegment ==
  ASSUME NEW b \in DOMAIN PrefixOf
  PROVE  PrefixOf[b] \in 0..5
BY DEF PrefixOf

\* Behind its prefixes there is an opcode that is no prefix.
LEMMA SkipPrefixesOK ==
  ASSUME NEW x, MachineOK(x), ~\A k \in 0 .. Word - 1 : IsPrefix(x, k)
  PROVE  /\ MachineOK(SkipPrefixes(x))
         /\ Code8(SkipPrefixes(x)) \notin DOMAIN PrefixOf
<1> DEFINE at(k) == Code8(AdvanceIP(x, k))
           First(k) == ~IsPrefix(x, k) /\ \A i \in 0..k-1 : IsPrefix(x, i)
           n == CHOOSE k \in 0 .. Word - 1 : First(k)
           y == AdvanceIP(x, n)
           b == n > 0
           v == IF n = 0 THEN x.s[DS] ELSE x.s[PrefixOf[at(n - 1)]]
           z == [y EXCEPT !.over = b, !.seg = v]
<1>1. SkipPrefixes(x) = z
  BY DEF SkipPrefixes
<1>2. \E k \in 0 .. Word - 1 : First(k)
  <2> DEFINE S == {k \in 0 .. Word - 1 : ~IsPrefix(x, k)}
  <2>1. S \subseteq Nat /\ S # {}
    BY Sizes
  <2>2. PICK k \in S : \A i \in S : k <= i
    BY <2>1, LeastNumber
  <2>3. k \in 0 .. Word - 1 /\ ~IsPrefix(x, k)
    OBVIOUS
  <2>4. ASSUME NEW i \in 0 .. k - 1
        PROVE  IsPrefix(x, i)
    <3>1. i \in 0 .. Word - 1 /\ ~(k <= i)
      BY <2>3, Sizes
    <3> QED
      BY <2>2, <3>1
  <2> QED
    BY <2>3, <2>4
<1>3. n \in 0 .. Word - 1 /\ First(n)
  BY <1>2
<1> HIDE DEF n
<1>4. n \in Nat /\ b \in BOOLEAN
  BY <1>3, Sizes
<1>5. at(n) \notin DOMAIN PrefixOf
  BY <1>3 DEF IsPrefix
<1>6. v \in Words
  <2>1. n # 0 => at(n - 1) \in DOMAIN PrefixOf
    <3>1. n # 0 => n - 1 \in 0 .. n - 1
      BY <1>4
    <3> QED
      BY <1>3, <3>1 DEF IsPrefix
  <2> HIDE DEF at
  <2>2. n # 0 => PrefixOf[at(n - 1)] \in 0..5
    BY <2>1, PrefixSegment
  <2> QED
    BY <2>2, Parts, Names
<1>7. MachineOK(y)
  BY <1>4, AdvanceOK
<1>8. Code8(y) \notin DOMAIN PrefixOf
  BY <1>5
<1> HIDE DEF y, v, b
<1>9. MachineOK(z)
  BY <1>4, <1>6, <1>7, WithSegment, Zenon
<1>10. z.mem = y.mem /\ z.s = y.s /\ z.ip = y.ip
  BY <1>7, Fields DEF MachineOK
<1>11. Code8(z) = Code8(y)
  BY <1>10 DEF Code8, cell, Linear
<1> HIDE DEF z
<1> QED
  BY <1>1, <1>8, <1>9, <1>11

LEMMA SegmentStackOK ==
  ASSUME NEW x, MachineOK(x)
  PROVE  /\ \A op \in {6, 14, 22, 30} : MachineOK(PushSegment(x, op))
         /\ \A op \in {7, 23, 31} : MachineOK(PopSegment(x, op))
<1>1. \A op \in {6, 14, 22, 30} : (op - 6) \div 8 \in 0..5
  OBVIOUS
<1>2. \A op \in {7, 23, 31} : (op - 7) \div 8 \in 0..5
  OBVIOUS
<1>3. \A i \in 0..5 : x.s[i] \in Words
  BY Parts
<1>4. \A op \in {6, 14, 22, 30} : MachineOK(PushSegment(x, op))
  BY <1>1, <1>3, PushOK DEF PushSegment
<1>5. \A op \in {7, 23, 31} : MachineOK(PopSegment(x, op))
  BY <1>2, PopOK DEF PopSegment
<1> QED
  BY <1>4, <1>5

LEMMA LowOK ==
  ASSUME NEW x, MachineOK(x), NEW op \in 0..63, op \notin DOMAIN PrefixOf
  PROVE  MachineOK(ExecuteLow(x, op))
<1> DEFINE ext == Extended(x, Code8(x))
<1>1. ExecuteLow(x, op) =
        CASE op \in {6, 14, 22, 30} -> PushSegment(x, op)
          [] op \in {7, 23, 31} -> PopSegment(x, op)
          [] op = 15 -> ext
          [] op \in {39, 47, 55, 63} -> Decimal(x, op)
          [] op \in 0..5 -> ADD(x, op)
          [] op \in 8..13 -> OR(x, op)
          [] op \in 16..21 -> ADC(x, op)
          [] op \in 24..29 -> SBB(x, op)
          [] op \in 32..37 -> AND(x, op)
          [] op \in 40..45 -> SUB(x, op)
          [] op \in 48..53 -> XOR(x, op)
          [] op \in 56..61 -> CMP(x, op)
  BY DEF ExecuteLow
<1>2. MachineOK(ext)
  BY ExtendedOK
<1> HIDE DEF ext
<1>3. \/ op \in {6, 14, 22, 30} \/ op \in {7, 23, 31} \/ op = 15 \/ op \in {39, 47, 55, 63}
      \/ op \in 0..5 \/ op \in 8..13 \/ op \in 16..21 \/ op \in 24..29 \/ op \in 32..37
      \/ op \in 40..45 \/ op \in 48..53 \/ op \in 56..61
  BY DEF PrefixOf
<1>4. op \in {6, 14, 22, 30} => MachineOK(PushSegment(x, op))
  BY SegmentStackOK
<1>5. op \in {7, 23, 31} => MachineOK(PopSegment(x, op))
  BY SegmentStackOK
<1>6. op \in {39, 47, 55, 63} => MachineOK(Decimal(x, op))
  <2>1. op \in {39, 47, 55, 63} => op \in {39, 47, 55, 63, 212, 213}
    OBVIOUS
  <2> QED
    BY <2>1, DecimalOK
<1> DEFINE A == op \in 0..5 \/ op \in 8..13 \/ op \in 16..21 \/ op \in 24..29 \/ op \in 32..37
                \/ op \in 40..45 \/ op \in 48..53 \/ op \in 56..61
<1>7. op \in Octets
  BY DEF Octets, Byte
<1>8. A => op % 8 \in 0..5
  OBVIOUS
<1> HIDE DEF A
<1>9. A => /\ MachineOK(ADD(x, op)) /\ MachineOK(OR(x, op)) /\ MachineOK(ADC(x, op))
           /\ MachineOK(SBB(x, op)) /\ MachineOK(AND(x, op)) /\ MachineOK(SUB(x, op))
           /\ MachineOK(XOR(x, op)) /\ MachineOK(CMP(x, op))
  BY <1>7, <1>8, ArithmeticOK
<1> QED
  BY <1>1, <1>2, <1>3, <1>4, <1>5, <1>6, <1>9 DEF A

LEMMA MiddleOK ==
  ASSUME NEW x, MachineOK(x), NEW op \in 64..159,
         op = 99 => Code8(x) \notin Services,
         op \in {140, 142} => modregrm(x).reg \in 0..5
  PROVE  MachineOK(ExecuteMiddle(x, op))
<1> DEFINE rom == AdvanceIP(ROMExec(x, Code8(x)), 1)
           push == push16(x, x.r[op - 80])
<1>1. ExecuteMiddle(x, op) =
        CASE op \in 64..71 -> INC(x, op - 64)
          [] op \in 72..79 -> DEC(x, op - 72)
          [] op \in 80..87 -> push
          [] op \in 88..95 -> PopR(x, op - 88)
          [] op = 96 -> PUSHA(x)
          [] op = 97 -> POPA(x)
          [] op = 99 -> rom
          [] op = 102 -> opcode66(x)
          [] op \in 112..127 -> Jcc(x, op)
          [] op \in {128, 129, 131} -> GRP1(x, op)
          [] op \in {132, 133} -> TEST(x, op)
          [] op \in {134, 135} -> XCHG(x, op)
          [] op \in 136..139 -> MOV(x, op)
          [] op \in {140, 142} -> MOV_S(x, op)
          [] op = 141 -> LEA(x)
          [] op = 143 -> POP_E(x)
          [] op \in 144..151 -> XCHG_AX(x, op - 144)
          [] op = 152 -> CBW(x)
          [] op = 153 -> CWD(x)
          [] op = 154 -> CallFar(x)
          [] op = 155 -> x
          [] op \in 156..159 -> FlagMoves(x, op)
          [] OTHER -> exit_or_restart(x)
  BY DEF ExecuteMiddle
<1>2. /\ op \in 64..71 => op - 64 \in 0..7
      /\ op \in 72..79 => op - 72 \in 0..7
      /\ op \in 80..87 => op - 80 \in 0..7
      /\ op \in 88..95 => op - 88 \in 0..7
      /\ op \in 144..151 => op - 144 \in 0..7
  OBVIOUS
<1>3. op \in 64..71 => MachineOK(INC(x, op - 64))
  BY <1>2, IncDecOK
<1>4. op \in 72..79 => MachineOK(DEC(x, op - 72))
  BY <1>2, IncDecOK
<1>5. op \in 80..87 => MachineOK(push)
  BY <1>2, Parts, PushOK
<1>6. op \in 88..95 => MachineOK(PopR(x, op - 88))
  BY <1>2, PopOK
<1>7. op = 99 => MachineOK(rom)
  <2>1. ASSUME op = 99
        PROVE  MachineOK(rom)
    <3>1. Code8(x) \in Octets \ Services
      BY <2>1, CodeOK
    <3>2. MachineOK(ROMExec(x, Code8(x)))
      BY <3>1, ROMExecOK
    <3> QED
      BY <3>2, AdvanceOK
  <2> QED
    BY <2>1
<1>8. /\ op \in {128, 129, 131} => MachineOK(GRP1(x, op))
      /\ op \in {140, 142} => MachineOK(MOV_S(x, op))
  BY Grp1OK, SegmentMoveOK
<1>9. op \in 144..151 => MachineOK(XCHG_AX(x, op - 144))
  BY <1>2, ExchangeAXOK
<1>10. op \in 156..159 => MachineOK(FlagMoves(x, op))
  BY FlagMovesOK
<1>11. /\ MachineOK(PUSHA(x)) /\ MachineOK(POPA(x)) /\ MachineOK(opcode66(x))
       /\ MachineOK(Jcc(x, op)) /\ MachineOK(TEST(x, op))
       /\ MachineOK(XCHG(x, op)) /\ MachineOK(MOV(x, op)) /\ MachineOK(LEA(x))
       /\ MachineOK(POP_E(x)) /\ MachineOK(CBW(x)) /\ MachineOK(CWD(x))
       /\ MachineOK(CallFar(x)) /\ MachineOK(exit_or_restart(x))
  BY PushAllOK, Opcode66OK, ShortOK, TestOK, ExchangeOK, PopOperandOK, ConvertOK, CallFarOK,
     WithExited DEF Jcc
<1> HIDE DEF rom, push
<1> QED
  BY <1>1, <1>3, <1>4, <1>5, <1>6, <1>7, <1>8, <1>9, <1>10, <1>11, SMTT(60)

LEMMA HighOK ==
  ASSUME NEW x, MachineOK(x), NEW op \in 160..255,
         op = 254 => modregrm(x).reg \in 0..1
  PROVE  MachineOK(ExecuteHigh(x, op))
<1> DEFINE stop == [x EXCEPT !.hlt = TRUE]
           grp3 == op_grp3(x, Size(op))
           rep == op_rep(x, op - 242)
<1>1. ExecuteHigh(x, op) =
        CASE op \in 160..163 -> MOV_O(x, op)
          [] op \in 164..167 \cup 170..175 -> StringOp(x, op)
          [] op \in {168, 169} -> TEST(x, op)
          [] op \in 176..191 -> MOV_I(x, op)
          [] op \in {192, 193} \cup 208..211 -> GRP2(x, op)
          [] op \in {194, 195} -> Ret(x, op)
          [] op = 196 -> LoadPointer(x, ES)
          [] op = 197 -> LoadPointer(x, DS)
          [] op \in {198, 199} -> MOV_EI(x, op)
          [] op \in {202, 203} -> Retf(x, op)
          [] op \in 204..206 -> INT(x, op)
          [] op = 207 -> Iret(x)
          [] op \in {212, 213} -> Decimal(x, op)
          [] op = 215 -> XLAT(x)
          [] op \in 224..227 -> Loops(x, op)
          [] op \in 228..231 \cup 236..239 -> Ports(x, op)
          [] op \in 232..235 -> JumpCall(x, op)
          [] op = 240 -> x
          [] op \in {242, 243} -> rep
          [] op = 244 -> stop
          [] op = 245 \/ op \in 248..253 -> FlagSets(x, op)
          [] op \in {246, 247} -> grp3
          [] op = 254 -> GRP4(x)
          [] op = 255 -> op_grp5(x)
          [] OTHER -> exit_or_restart(x)
  BY DEF ExecuteHigh
<1>2. op \in 164..167 \cup 170..175 => MachineOK(StringOp(x, op))
  <2>1. op \in 164..167 \cup 170..175 => op \in Moving \cup Comparing
    BY DEF Moving, Comparing
  <2> QED
    BY <2>1, StringOpOK
<1>3. op \in {192, 193} \cup 208..211 => MachineOK(GRP2(x, op))
  <2>1. op \in {192, 193} \cup 208..211 => op \in {192, 193, 208, 209, 210, 211}
    OBVIOUS
  <2> QED
    BY <2>1, Grp2OK
<1>4. op \in {212, 213} => MachineOK(Decimal(x, op))
  <2>1. op \in {212, 213} => op \in {39, 47, 55, 63, 212, 213}
    OBVIOUS
  <2> QED
    BY <2>1, DecimalOK
<1>5. op \in 228..231 \cup 236..239 => MachineOK(Ports(x, op))
  BY PortsOK
<1>6. op = 245 \/ op \in 248..253 => MachineOK(FlagSets(x, op))
  <2>1. op = 245 \/ op \in 248..253 => op \in {245} \cup 248..253
    OBVIOUS
  <2> QED
    BY <2>1, FlagSetsOK
<1>7. op = 254 => MachineOK(GRP4(x))
  <2>1. op = 254 => modregrm(x).reg \in {0, 1}
    OBVIOUS
  <2> QED
    BY <2>1, Grp4OK
<1>8. /\ op \in 204..206 => MachineOK(INT(x, op))
      /\ op \in 224..227 => MachineOK(Loops(x, op))
      /\ op \in 232..235 => MachineOK(JumpCall(x, op))
  BY IntOK, LoopsOK, JumpCallOK
<1>9. op \in Nat
  OBVIOUS
<1>10. /\ MachineOK(MOV_O(x, op)) /\ MachineOK(MOV_I(x, op)) /\ MachineOK(TEST(x, op))
       /\ MachineOK(Ret(x, op)) /\ MachineOK(Retf(x, op)) /\ MachineOK(Iret(x))
       /\ MachineOK(LoadPointer(x, ES)) /\ MachineOK(LoadPointer(x, DS))
       /\ MachineOK(MOV_EI(x, op)) /\ MachineOK(XLAT(x)) /\ MachineOK(op_grp5(x))
       /\ MachineOK(exit_or_restart(x))
  BY <1>9, MoveImmediateOK, TestOK, ReturnsOK, LoadPointerOK, ExchangeOK, ConvertOK, Grp5OK,
     WithExited, Names
<1>11. MachineOK(rep) /\ MachineOK(grp3) /\ MachineOK(stop)
  <2>1. TRUE \in BOOLEAN
    OBVIOUS
  <2> QED
    BY <2>1, RepOK, SizeOK, Grp3OK, WithHlt
<1> HIDE DEF stop, grp3, rep
<1> QED
  BY <1>1, <1>2, <1>3, <1>4, <1>5, <1>6, <1>7, <1>8, <1>10, <1>11, SMTT(60)

\* One instruction of those that are followed.
LEMMA ExecuteOK ==
  ASSUME NEW x0, MachineOK(x0), Followed(x0)
  PROVE  MachineOK(Execute(x0))
<1> DEFINE x == SkipPrefixes(x0)
           op == Code8(x)
           next == AdvanceIP(x, 1)
<1>1. Execute(x0) = CASE op < 64 -> ExecuteLow(next, op)
                      [] op \in 64..159 -> ExecuteMiddle(next, op)
                      [] op > 159 -> ExecuteHigh(next, op)
  BY DEF Execute
<1>2. /\ ~\A k \in 0 .. Word - 1 : IsPrefix(x0, k)
      /\ op \in {140, 142} => modregrm(next).reg \in 0..5
      /\ op = 254 => modregrm(next).reg \in 0..1
      /\ op = 99 => Code8(next) \notin Services
  BY DEF Followed
<1>3. MachineOK(x) /\ op \notin DOMAIN PrefixOf
  BY <1>2, SkipPrefixesOK
<1> HIDE DEF x
<1>4. MachineOK(next) /\ op \in Octets
  BY <1>3, AdvanceOK, CodeOK
<1>5. op \in 0..63 \/ op \in 64..159 \/ op \in 160..255
  BY <1>4 DEF Octets, Byte
<1> HIDE DEF op, next
<1>6. op \in 0..63 => MachineOK(ExecuteLow(next, op))
  BY <1>3, <1>4, LowOK
<1>7. op \in 64..159 => MachineOK(ExecuteMiddle(next, op))
  BY <1>2, <1>4, MiddleOK
<1>8. op \in 160..255 => MachineOK(ExecuteHigh(next, op))
  BY <1>2, <1>4, HighOK
<1> QED
  BY <1>1, <1>5, <1>6, <1>7, <1>8

LEMMA InterruptedOK ==
  ASSUME NEW x, MachineOK(x), NEW request
  PROVE  MachineOK(Interrupted(x, request))
<1>1. FALSE \in BOOLEAN
  OBVIOUS
<1> DEFINE y == [x EXCEPT !.hlt = FALSE]
<1>2. MachineOK(y)
  BY <1>1, WithHlt
<1>3. Interrupted(x, request) = IF Accepts(x, request) THEN intcall86(y, request) ELSE x
  BY DEF Interrupted
<1> HIDE DEF y
<1> QED
  BY <1>2, <1>3, IntCallOK

LEMMA TurnOK ==
  ASSUME NEW x, MachineOK(x), NEW request, Goes(x, request)
  PROVE  MachineOK(Turn(x, request))
<1> DEFINE n == Interrupted(x, request)
<1>1. Turn(x, request) = IF n.hlt THEN n ELSE Execute(n)
  BY DEF Turn
<1>2. n.hlt \/ Followed(n)
  BY DEF Goes
<1>3. MachineOK(n)
  BY InterruptedOK
<1> HIDE DEF n
<1> QED
  BY <1>1, <1>2, <1>3, ExecuteOK

-----------------------------------------------------------------------------
\* The memory a program is loaded into.
Piece(b) == DOMAIN b \subseteq 0 .. Meg - 1 /\ b \in [DOMAIN b -> Octets]

LEMMA TogetherOK ==
  ASSUME NEW pieces, \A b \in pieces : Piece(b)
  PROVE  Piece(Together(pieces))
<1> DEFINE D == UNION {DOMAIN b : b \in pieces}
           pick(a) == CHOOSE b \in pieces : a \in DOMAIN b
<1>1. Together(pieces) = [a \in D |-> pick(a)[a]]
  BY DEF Together
<1>2. ASSUME NEW a \in D
      PROVE  a \in 0 .. Meg - 1 /\ pick(a)[a] \in Octets
  <2>1. \E b \in pieces : a \in DOMAIN b
    OBVIOUS
  <2>2. pick(a) \in pieces /\ a \in DOMAIN pick(a)
    BY <2>1
  <2> HIDE DEF pick
  <2> QED
    BY <2>2 DEF Piece
<1> HIDE DEF D, pick
<1>3. D \subseteq 0 .. Meg - 1
  BY <1>2
<1>4. [a \in D |-> pick(a)[a]] \in [D -> Octets]
  BY <1>2
<1> QED
  BY <1>1, <1>3, <1>4 DEF Piece

LEMMA AtOK ==
  ASSUME NEW bytes \in Seq(Octets), NEW a \in Nat, a + Len(bytes) <= Meg
  PROVE  Piece(At(bytes, a))
<1> DEFINE D == a .. (a + Len(bytes) - 1)
<1>1. At(bytes, a) = [x \in D |-> bytes[x - a + 1]]
  BY DEF At
<1>2. Len(bytes) \in Nat /\ \A i \in 1 .. Len(bytes) : bytes[i] \in Octets
  OBVIOUS
<1>3. Meg \in Nat
  BY Sizes
<1>4. D \subseteq 0 .. Meg - 1
  BY <1>2, <1>3
<1>5. \A x \in D : x - a + 1 \in 1 .. Len(bytes)
  BY <1>2
<1> HIDE DEF D
<1>6. [x \in D |-> bytes[x - a + 1]] \in [D -> Octets]
  BY <1>2, <1>5
<1> QED
  BY <1>1, <1>4, <1>6 DEF Piece

LEMMA CodeIsBytes ==
  ASSUME NEW t \in DOMAIN Code
  PROVE  Code[t] \in Seq(Octets) /\ Len(Code[t]) < 64
<1>1. Code["compare"] \in Seq(Octets) /\ Len(Code["compare"]) < 64
  BY DEF Code, Exit, Octets, Byte
<1>2. Code["sum"] \in Seq(Octets) /\ Len(Code["sum"]) < 64
  BY DEF Code, Exit, Octets, Byte
<1>3. Code["product"] \in Seq(Octets) /\ Len(Code["product"]) < 64
  BY DEF Code, Exit, Octets, Byte
<1>4. Code["signed"] \in Seq(Octets) /\ Len(Code["signed"]) < 64
  BY DEF Code, Exit, Octets, Byte
<1>5. Code["shift"] \in Seq(Octets) /\ Len(Code["shift"]) < 64
  BY DEF Code, Exit, Octets, Byte
<1>6. Code["decimal"] \in Seq(Octets) /\ Len(Code["decimal"]) < 64
  BY DEF Code, Exit, Octets, Byte
<1>7. Code["borrow"] \in Seq(Octets) /\ Len(Code["borrow"]) < 64
  BY DEF Code, Exit, Octets, Byte
<1>8. Code["ascii"] \in Seq(Octets) /\ Len(Code["ascii"]) < 64
  BY DEF Code, Exit, Octets, Byte
<1>9. Code["unpack"] \in Seq(Octets) /\ Len(Code["unpack"]) < 64
  BY DEF Code, Exit, Octets, Byte
<1>10. Code["searchloop"] \in Seq(Octets) /\ Len(Code["searchloop"]) < 64
  BY DEF Code, Exit, Octets, Byte
<1>11. Code["matchloop"] \in Seq(Octets) /\ Len(Code["matchloop"]) < 64
  BY DEF Code, Exit, Octets, Byte
<1>12. Code["copy"] \in Seq(Octets) /\ Len(Code["copy"]) < 64
  BY DEF Code, Exit, Octets, Byte
<1>13. Code["fill"] \in Seq(Octets) /\ Len(Code["fill"]) < 64
  BY DEF Code, Exit, Octets, Byte
<1>14. Code["search"] \in Seq(Octets) /\ Len(Code["search"]) < 64
  BY DEF Code, Exit, Octets, Byte
<1>15. Code["match"] \in Seq(Octets) /\ Len(Code["match"]) < 64
  BY DEF Code, Exit, Octets, Byte
<1>16. Code["recurse"] \in Seq(Octets) /\ Len(Code["recurse"]) < 64
  BY DEF Code, Exit, Octets, Byte
<1>17. Code["frame"] \in Seq(Octets) /\ Len(Code["frame"]) < 64
  BY DEF Code, Exit, Octets, Byte
<1>18. Code["save"] \in Seq(Octets) /\ Len(Code["save"]) < 64
  BY DEF Code, Exit, Octets, Byte
<1>19. Code["save32"] \in Seq(Octets) /\ Len(Code["save32"]) < 64
  BY DEF Code, Exit, Octets, Byte
<1>20. Code["far"] \in Seq(Octets) /\ Len(Code["far"]) < 64
  BY DEF Code, Exit, Octets, Byte
<1>21. Code["wide"] \in Seq(Octets) /\ Len(Code["wide"]) < 64
  BY DEF Code, Exit, Octets, Byte
<1>22. Code["output"] \in Seq(Octets) /\ Len(Code["output"]) < 64
  BY DEF Code, Exit, Octets, Byte
<1>23. Code["indirect"] \in Seq(Octets) /\ Len(Code["indirect"]) < 64
  BY DEF Code, Exit, Octets, Byte
<1>24. Code["wait"] \in Seq(Octets) /\ Len(Code["wait"]) < 64
  BY DEF Code, Exit, Octets, Byte
<1>25. DOMAIN Code = {"compare", "sum", "product", "signed", "shift", "decimal", "borrow",
                     "ascii", "unpack", "searchloop", "matchloop", "copy", "fill", "search",
                     "match", "recurse", "frame", "save", "save32", "far", "wide", "output",
                     "indirect", "wait"}
  BY DEF Code
<1> QED
  BY <1>1, <1>2, <1>3, <1>4, <1>5, <1>6, <1>7, <1>8, <1>9, <1>10, <1>11, <1>12,
     <1>13, <1>14, <1>15, <1>16, <1>17, <1>18, <1>19, <1>20, <1>21, <1>22, <1>23,
     <1>24, <1>25

LEMMA DataIsBytes ==
  \A b \in Data : Piece(b)
<1> DEFINE table == <<2, 0, 0, 3, 5, 6, 7, 8, 9, 0, 1, 2, 0, 0, 0, 0, 6, 0, 0, 1>>
           string == <<5, 6, 2, 8>>
<1> DEFINE ds == 8192
           es == 12288
<1>1. table \in Seq(Octets) /\ string \in Seq(Octets)
  BY SMT DEF Octets, Byte
<1>2. ds + Len(table) <= Meg /\ es + Len(string) <= Meg /\ ds \in Nat /\ es \in Nat
  BY SMT DEF Meg, Word, Byte
<1>3. Data = {At(table, ds), At(string, es)}
  BY SMT DEF Data
<1> HIDE DEF table, string, ds, es
<1>4. Piece(At(table, ds)) /\ Piece(At(string, es))
  BY <1>1, <1>2, AtOK
<1> QED
  BY <1>3, <1>4

LEMMA ROMIsBytes ==
  ASSUME NEW V, V \subseteq Octets
  PROVE  \A b \in ROM(V) : Piece(b)
<1> DEFINE address(n) == <<(4 * n) % Byte, (4 * n) \div Byte, 0, 240>>
           vector(n) == IF n = 8 THEN At(<<0, 32, 0, 240>>, 32) ELSE At(address(n), 4 * n)
           back(n) == <<99, n, 207, 0>>
           stub(n) == At(back(n), 983040 + 4 * n)
           timer == At(TimerStub, 991232)
           pairs == {{vector(n), stub(n)} : n \in V}
           pieces == UNION pairs
<1>1. ROM(V) = pieces \cup {timer}
  BY SMT DEF ROM
<1>2. Piece(At(TimerStub, 991232))
  <2> DEFINE here == 991232
  <2>1. TimerStub \in Seq(Octets) /\ Len(TimerStub) = 12
    BY SMT DEF TimerStub, Octets, Byte
  <2>2. here + 12 <= Meg /\ here \in Nat
    BY SMT DEF Meg, Word, Byte
  <2> HIDE DEF here
  <2>3. here + Len(TimerStub) <= Meg
    BY <2>1, <2>2
  <2>4. Piece(At(TimerStub, here))
    BY <2>1, <2>2, <2>3, AtOK
  <2> QED
    BY <2>4, SMT DEF here
<1>3. 0 \in Octets /\ 240 \in Octets /\ 99 \in Octets /\ 207 \in Octets /\ 32 \in Octets
  BY DEF Octets, Byte
<1>4. ASSUME NEW n \in V
      PROVE  Piece(vector(n)) /\ Piece(stub(n))
  <2>1. n \in Octets /\ n \in Nat /\ n < 256
    BY DEF Octets, Byte
  <2>2. Meg = 1048576
    BY DEF Meg, Word, Byte
  <2>3. (4 * n) % Byte \in Octets /\ (4 * n) \div Byte \in Octets
    BY <2>1 DEF Octets, Byte
  <2>4. address(n) \in Seq(Octets) /\ Len(address(n)) = 4
    BY <1>3, <2>3
  <2>5. back(n) \in Seq(Octets) /\ Len(back(n)) = 4
    BY <1>3, <2>1
  <2>6. <<0, 32, 0, 240>> \in Seq(Octets) /\ Len(<<0, 32, 0, 240>>) = 4
    BY <1>3
  <2> HIDE DEF address, back
  <2>7. Piece(At(address(n), 4 * n))
    <3> DEFINE here == 4 * n
    <3>1. here \in Nat /\ here + 4 <= Meg
      BY <2>1, <2>2, SMT
    <3> HIDE DEF here
    <3>2. Piece(At(address(n), here))
      BY <2>4, <3>1, AtOK
    <3> QED
      BY <3>2 DEF here
  <2>8. Piece(At(back(n), 983040 + 4 * n))
    <3> DEFINE here == 983040 + 4 * n
    <3>1. here \in Nat /\ here + 4 <= Meg
      BY <2>1, <2>2, SMT
    <3> HIDE DEF here
    <3>2. Piece(At(back(n), here))
      BY <2>5, <3>1, AtOK
    <3> QED
      BY <3>2, SMT DEF here
  <2>9. Piece(At(<<0, 32, 0, 240>>, 32))
    <3> DEFINE quad == <<0, 32, 0, 240>>
    <3>1. 32 \in Nat /\ 32 + 4 <= Meg /\ quad \in Seq(Octets) /\ Len(quad) = 4
      BY <2>2, <2>6, SMT
    <3> HIDE DEF quad
    <3>2. Piece(At(quad, 32))
      BY <3>1, AtOK
    <3> QED
      BY <3>2 DEF quad
  <2> QED
    BY <2>7, <2>8, <2>9, SMT
<1>5. Piece(timer)
  BY <1>2, SMT
<1> HIDE DEF vector, stub, timer
<1>6. \A b \in pieces : Piece(b)
  <2>1. ASSUME NEW b \in pieces
        PROVE  Piece(b)
    <3>1. PICK pair \in pairs : b \in pair
      OBVIOUS
    <3>2. PICK n \in V : pair = {vector(n), stub(n)}
      BY <3>1
    <3> QED
      BY <1>4, <3>1, <3>2
  <2> QED
    BY <2>1
<1> HIDE DEF pieces
<1> QED
  BY <1>1, <1>5, <1>6

LEMMA LoadOK ==
  ASSUME NEW j \in Jobs
  PROVE  MachineOK(Load(j))
<1> DEFINE V == {0, 8, 9, 28, 32}
           memory == Together({At(Code[j.task], 4096)} \cup Data \cup ROM(V))
           f == decodeflags(j.flags)
<1>1. /\ j.task \in DOMAIN Code
      /\ j.r \in [0..7 -> Words] /\ j.h \in [0..7 -> Words] /\ j.flags \in Int
  BY JobsAssumption, Numbers8
<1>2. Piece(memory)
  <2>1. V \subseteq Octets
    BY DEF Octets, Byte
  <2>2. \A b \in ROM(V) : Piece(b)
    BY <2>1, ROMIsBytes
  <2> HIDE DEF V
  <2>3. Piece(At(Code[j.task], 4096))
    <3>1. Code[j.task] \in Seq(Octets) /\ Len(Code[j.task]) < 64
      BY <1>1, CodeIsBytes
    <3>2. Len(Code[j.task]) \in Nat
      BY <3>1
    <3> DEFINE cs == 4096
    <3>3. cs + Len(Code[j.task]) <= Meg /\ cs \in Nat
      BY <3>1, <3>2, SMT DEF Meg, Word, Byte
    <3> HIDE DEF cs
    <3>4. Piece(At(Code[j.task], cs))
      BY <3>1, <3>3, AtOK
    <3> QED
      BY <3>4, SMT DEF cs
  <2> QED
    BY <2>2, <2>3, DataIsBytes, TogetherOK
<1>3. f \in Flags
  BY <1>1, DecodedOK
<1>4. Segments \in [0..5 -> Words]
  <2>1. 768 \in Words /\ 256 \in Words /\ 1024 \in Words /\ 512 \in Words /\ 0 \in Words
    <3>1. 1024 < Word
      BY DEF Word, Byte
    <3> QED
      BY <3>1, Sizes DEF Words
  <2>2. \A i \in 0..5 : i = 0 \/ i = 1 \/ i = 2 \/ i = 3 \/ i = 4 \/ i = 5
    OBVIOUS
  <2>3. \A i \in 0..5 : <<768, 256, 1024, 512, 0, 0>>[i + 1] \in Words
    BY <2>1, <2>2
  <2> QED
    BY <2>3 DEF Segments
<1> HIDE DEF memory, f
<1> DEFINE x == [Reset EXCEPT !.r = j.r, !.h = j.h, !.s = Segments, !.f = f, !.mem = memory]
<1>5. Load(j) = x
  BY DEF Load, memory, f
<1>6. DOMAIN x = DOMAIN Reset
  OBVIOUS
<1>7. /\ x.r = j.r /\ x.h = j.h /\ x.s = Segments /\ x.f = f /\ x.mem = memory
      /\ x.ip = 0 /\ x.seg = 0 /\ x.disp = 0 /\ x.mode = 0 /\ x.reg = 0 /\ x.rm = 0
      /\ x.hlt = FALSE /\ x.exited = FALSE /\ x.over = FALSE /\ x.ports = <<>>
  BY DEF Reset
<1> HIDE DEF x
<1>8. /\ x.ports \in [DOMAIN x.ports -> Words]
      /\ \A p \in InPorts \cap DOMAIN x.ports : x.ports[p] < Byte
  <2>1. DOMAIN x.ports = {}
    BY <1>7
  <2>2. x.ports = [p \in {} |-> 0]
    BY <1>7
  <2> QED
    BY <2>1, <2>2
<1>9. 0 \in Words /\ 0 \in 0..3 /\ 0 \in 0..7
  BY Numbers8
<1>10. DOMAIN x.mem \subseteq 0 .. Meg - 1 /\ x.mem \in [DOMAIN x.mem -> Octets]
  BY <1>2, <1>7 DEF Piece
<1>11. /\ x.r \in [0..7 -> Words] /\ x.h \in [0..7 -> Words] /\ x.s \in [0..5 -> Words]
       /\ x.f \in Flags
  BY <1>1, <1>3, <1>4, <1>7
<1>12. /\ x.ip \in Words /\ x.seg \in Words /\ x.disp \in Words
       /\ x.mode \in 0..3 /\ x.reg \in 0..7 /\ x.rm \in 0..7
       /\ x.hlt \in BOOLEAN /\ x.exited \in BOOLEAN /\ x.over \in BOOLEAN
  BY <1>7, <1>9
<1> QED
  BY <1>5, <1>6, <1>8, <1>10, <1>11, <1>12 DEF MachineOK

-----------------------------------------------------------------------------
\* The invariant of a session: TypeOK, and the job is one of Jobs.
Typed == TypeOK /\ job \in Jobs

LEMMA TypedAtFirst ==
  Init => Typed
<1> SUFFICES ASSUME Init
             PROVE  Typed
  OBVIOUS
<1>1. job \in Jobs /\ irqs = job.irqs /\ m = Load(job) /\ plain = Load(job)
  BY DEF Init, m, plain
<1>2. job.task \in DOMAIN Code /\ job.irqs \in Nat
  BY <1>1, JobsAssumption
<1>3. MachineOK(m) /\ MachineOK(plain)
  BY <1>1, LoadOK
<1> QED
  BY <1>1, <1>2, <1>3 DEF Typed, TypeOK

LEMMA TypedTurns ==
  ASSUME Typed, NEW request, Run(request)
  PROVE  Typed'
<1> DEFINE taken == Accepts(m, request)
           turns(x) == x = "real" \/ (resume = <<>> /\ ~taken)
           asked(x) == IF x = "real" THEN request ELSE 0
           rests(x) == [x EXCEPT !.hlt = @ /\ ~taken]
<1>1. /\ MachineOK(m) /\ MachineOK(plain)
      /\ job \in Jobs /\ job.task \in DOMAIN Code /\ irqs \in 0 .. job.irqs
  BY DEF Typed, TypeOK
<1>2. /\ request # 0 => irqs > 0 /\ taken
      /\ \A x \in {"real", "plain"} : turns(x) => Goes(cpu[x], asked(x))
      /\ cpu' = [x \in {"real", "plain"} |-> IF turns(x) THEN Turn(cpu[x], asked(x))
                                                         ELSE rests(cpu[x])]
      /\ irqs' = IF taken THEN irqs - 1 ELSE irqs
      /\ job' = job
  BY DEF Run
<1>3. taken => request # 0
  BY DEF Accepts
<1>4. irqs' \in 0 .. job.irqs
  <2>1. job.irqs \in Nat
    BY <1>1, JobsAssumption
  <2> HIDE DEF taken
  <2> QED
    BY <1>1, <1>2, <1>3, <2>1
<1>5. ASSUME NEW x, MachineOK(x)
      PROVE  MachineOK(rests(x))
  <2>1. x.hlt \in BOOLEAN
    BY <1>5, Parts
  <2>2. (x.hlt /\ ~taken) \in BOOLEAN
    OBVIOUS
  <2>3. rests(x) = [x EXCEPT !.hlt = (x.hlt /\ ~taken)]
    OBVIOUS
  <2> HIDE DEF taken, rests
  <2> QED
    BY <1>5, <2>2, <2>3, WithHlt
<1> HIDE DEF rests, taken
<1>6. MachineOK(m')
  <2>1. turns("real") /\ Goes(cpu["real"], asked("real"))
    BY <1>2
  <2>2. m' = Turn(cpu["real"], asked("real"))
    BY <1>2, <2>1 DEF m
  <2> HIDE DEF asked, turns
  <2> QED
    BY <1>1, <2>1, <2>2, TurnOK DEF m
<1>7. MachineOK(plain')
  <2>1. turns("plain") => Goes(cpu["plain"], asked("plain"))
    BY <1>2
  <2>2. plain' = IF turns("plain") THEN Turn(cpu["plain"], asked("plain"))
                                   ELSE rests(cpu["plain"])
    BY <1>2 DEF plain
  <2> HIDE DEF asked, turns
  <2> QED
    BY <1>1, <1>5, <2>1, <2>2, TurnOK DEF plain
<1> QED
  BY <1>1, <1>2, <1>4, <1>6, <1>7 DEF Typed, TypeOK

\* Whatever instructions are executed and wherever interrupts arrive, every
\* register stays a word and every flag in its bits, every store is a byte in the
\* first megabyte, and no job takes more interrupts than it has (cpu/cpu.c: exec86, with arith.c, repops.c, opcode66.c).
THEOREM MachineStaysTyped ==
  Spec => []TypeOK
<1>1. Init => Typed
  BY TypedAtFirst
<1>2. Typed /\ [Next]_vars => Typed'
  <2> SUFFICES ASSUME Typed, [Next]_vars
               PROVE  Typed'
    OBVIOUS
  <2>1. CASE Next
    BY <2>1, TypedTurns DEF Next
  <2>2. CASE UNCHANGED vars
    BY <2>2 DEF Typed, TypeOK, vars, m, plain
  <2> QED
    BY <2>1, <2>2
<1>3. Typed => TypeOK
  BY DEF Typed
<1> QED
  BY <1>1, <1>2, <1>3, PTL DEF Spec

-----------------------------------------------------------------------------
\* Numbers of several words, and decimal numbers.
LEMMA SumWrapsOnce ==
  ASSUME NEW size \in Nat \ {0}, NEW x \in Nat, x < 2 * size
  PROVE  /\ x % size = IF x < size THEN x ELSE x - size
         /\ x \div size = IF x < size THEN 0 ELSE 1
  OBVIOUS

LEMMA DifferenceWraps ==
  ASSUME NEW size \in Nat \ {0}, NEW x \in Int, -size <= x, x < size
  PROVE  x % size = IF x < 0 THEN x + size ELSE x
  OBVIOUS

LEMMA AddFlags ==
  ASSUME NEW f \in Flags, NEW size, NEW v1, NEW v2, NEW v3
  PROVE  flag_adc(f, v1, v2, v3, size).cf = Bool(v1 + v2 + v3 >= size)
  BY DEF flag_adc, flag_szp, Flags, FlagNames

\* ADD and ADC, then SUB and SBB of the same number of two words: the carry says
\* that the sum wrapped, and the first number comes back (arith.c, flags.c).
THEOREM LongSumTakenBack ==
  ASSUME NEW f \in Flags, NEW size \in Nat \ {0},
         NEW lo1 \in 0..(size - 1), NEW hi1 \in 0..(size - 1),
         NEW lo2 \in 0..(size - 1), NEW hi2 \in 0..(size - 1)
  PROVE  LET lo == op_add(f, lo1, lo2, size)
             hi == op_adc(lo.f, hi1, hi2, size)
             low == op_sub(hi.f, lo.v, lo2, size)
             high == op_sbb(low.f, hi.v, hi2, size)
         IN  /\ hi.f.cf = Bool(hi1 + hi2 + ((lo1 + lo2) \div size) >= size)
             /\ low.v = lo1 /\ high.v = hi1
<1> SUFFICES ASSUME NEW lo, lo = op_add(f, lo1, lo2, size),
                    NEW hi, hi = op_adc(lo.f, hi1, hi2, size),
                    NEW low, low = op_sub(hi.f, lo.v, lo2, size),
                    NEW high, high = op_sbb(low.f, hi.v, hi2, size)
             PROVE  /\ hi.f.cf = Bool(hi1 + hi2 + ((lo1 + lo2) \div size) >= size)
                    /\ low.v = lo1 /\ high.v = hi1
  OBVIOUS
<1>0. lo.f \in Flags /\ hi.f \in Flags /\ low.f \in Flags
  <2>1. lo.f \in Flags /\ lo.v \in Int
    <3>1. 0 \in Int /\ lo1 \in Int /\ lo2 \in Int /\ 0 < size
      OBVIOUS
    <3>2. flag_adc(f, lo1, lo2, 0, size) \in Flags
      BY <3>1, AdcOK
    <3> QED
      BY <3>1, <3>2 DEF op_add
  <2>2. hi.f \in Flags
    <3>1. hi1 \in Int /\ hi2 \in Int /\ 0 < size /\ lo.f.cf \in Int
      BY <2>1, FlagBits
    <3>2. flag_adc(lo.f, hi1, hi2, lo.f.cf, size) \in Flags
      BY <2>1, <3>1, AdcOK
    <3> QED
      BY <3>2 DEF op_adc
  <2>3. low.f \in Flags
    <3>1. lo2 \in Int /\ 0 < size
      OBVIOUS
    <3>2. flag_sub(hi.f, lo.v, lo2, size) \in Flags
      BY <2>1, <2>2, <3>1, SubOK
    <3> QED
      BY <3>2 DEF op_sub
  <2> QED
    BY <2>1, <2>2, <2>3
<1>1. lo.v = (lo1 + lo2) % size /\ lo.f.cf = Bool(lo1 + lo2 >= size)
  BY <1>0, AddFlags DEF op_add
<1>2. hi.v = (hi1 + hi2 + lo.f.cf) % size /\ hi.f.cf = Bool(hi1 + hi2 + lo.f.cf >= size)
  BY <1>0, AddFlags DEF op_adc
<1>3. low.v = (lo.v - lo2) % size /\ low.f.cf = Bool(lo.v < lo2)
  BY <1>0, SubFlags DEF op_sub
<1>4. high.v = (hi.v - hi2 - low.f.cf) % size
  BY DEF op_sbb
<1> DEFINE s == lo1 + lo2
           c == Bool(s >= size)
           t == hi1 + hi2 + c
<1>5. /\ s \in Nat /\ s < 2 * size /\ c \in 0..1 /\ t \in Nat /\ t < 2 * size
  BY DEF Bool
<1>6. s % size = (IF s < size THEN s ELSE s - size) /\ s \div size = c
  <2>1. s \in Nat /\ s < 2 * size
    BY <1>5
  <2> HIDE DEF s
  <2>2. /\ s % size = (IF s < size THEN s ELSE s - size)
        /\ s \div size = IF s < size THEN 0 ELSE 1
    BY <2>1, SumWrapsOnce
  <2> QED
    BY <2>1, <2>2 DEF Bool
<1>7. t % size = IF t < size THEN t ELSE t - size
  <2> HIDE DEF t
  <2> QED
    BY <1>5, SumWrapsOnce
<1>8. low.v = lo1
  <2> DEFINE d == lo.v - lo2
  <2>1. d = IF s < size THEN lo1 ELSE lo1 - size
    BY <1>1, <1>6
  <2>2. d \in Int /\ -size <= d /\ d < size
    BY <2>1
  <2> HIDE DEF d
  <2>3. d % size = IF d < 0 THEN d + size ELSE d
    BY <2>2, DifferenceWraps
  <2>4. low.v = d % size
    BY <1>3 DEF d
  <2> QED
    BY <2>1, <2>3, <2>4
<1>9. low.f.cf = c
  BY <1>1, <1>3, <1>6 DEF Bool
<1>10. high.v = hi1
  <2> DEFINE d == hi.v - hi2 - c
  <2>1. d = IF t < size THEN hi1 ELSE hi1 - size
    BY <1>1, <1>2, <1>5, <1>7
  <2>2. d \in Int /\ -size <= d /\ d < size
    BY <2>1
  <2> HIDE DEF d
  <2>3. d % size = IF d < 0 THEN d + size ELSE d
    BY <2>2, DifferenceWraps
  <2>4. high.v = d % size
    BY <1>4, <1>9 DEF d
  <2> QED
    BY <2>1, <2>3, <2>4
<1> QED
  BY <1>1, <1>2, <1>6, <1>8, <1>10

Doubled(v, b, size) == ((2 * v) % size) + b

LEMMA SignIs ==
  ASSUME NEW half, NEW size, Halved(size, half), NEW v, v \in 0..(size - 1)
  PROVE  Sign(v, size) = (IF v < half THEN 0 ELSE 1) /\ size \div 2 = half
<1>1. size \in Nat \ {0} /\ half \in Nat \ {0} /\ size = 2 * half
  BY DEF Halved
<1>2. size \div 2 = half
  BY <1>1, Halves
<1>3. v % size = v
  BY <1>1, ModSmall
<1> QED
  BY <1>1, <1>2, <1>3 DEF Sign, Bool

LEMMA DoubledIs ==
  ASSUME NEW half, NEW size, Halved(size, half), NEW v, v \in 0..(size - 1), NEW b \in 0..1
  PROVE  /\ Doubled(v, b, size) = IF v < half THEN 2 * v + b ELSE 2 * v - size + b
         /\ Doubled(v, b, size) \div 2 = IF v < half THEN v ELSE v - half
         /\ Doubled(v, b, size) % 2 = b
<1>0. size \in Nat \ {0} /\ half \in Nat \ {0} /\ size = 2 * half
  BY DEF Halved
<1> DEFINE e == (2 * v) % size
           w == IF v < half THEN v ELSE v - half
<1>1. e = 2 * w /\ w \in Nat
  <2> DEFINE x == 2 * v
  <2>1. x \in Nat /\ x < 2 * size /\ (x < size <=> v < half)
    BY <1>0
  <2> HIDE DEF x
  <2>2. x % size = IF x < size THEN x ELSE x - size
    BY <1>0, <2>1, SumWrapsOnce
  <2> QED
    BY <1>0, <2>1, <2>2 DEF x
<1> HIDE DEF e
<1>2. (2 * w + b) \div 2 = w /\ (2 * w + b) % 2 = b
  <2> HIDE DEF w
  <2> QED
    BY <1>1
<1>3. Doubled(v, b, size) = 2 * w + b
  BY <1>1 DEF Doubled, e
<1>4. 2 * w + b = IF v < half THEN 2 * v + b ELSE 2 * v - size + b
  BY <1>0
<1> QED
  BY <1>2, <1>3, <1>4

LEMMA ShiftSteps ==
  ASSUME NEW x, NEW size
  PROVE  /\ ShiftStep(2, x, size) = <<((2 * x[1]) % size) + x[2], Sign(x[1], size)>>
         /\ ShiftStep(3, x, size) = <<x[1] \div 2 + x[2] * (size \div 2), x[1] % 2>>
         /\ ShiftStep(4, x, size) = <<(2 * x[1]) % size, Sign(x[1], size)>>
         /\ ShiftStep(7, x, size) =
              <<x[1] \div 2 + Sign(x[1], size) * (size \div 2), x[1] % 2>>
<1>1. ShiftStep(2, x, size) = <<((2 * x[1]) % size) + x[2], Sign(x[1], size)>>
  BY DEF ShiftStep
<1>2. ShiftStep(3, x, size) = <<x[1] \div 2 + x[2] * (size \div 2), x[1] % 2>>
  BY DEF ShiftStep
<1>3. ShiftStep(4, x, size) = <<(2 * x[1]) % size, Sign(x[1], size)>>
  BY DEF ShiftStep
<1>4. ShiftStep(7, x, size) = <<x[1] \div 2 + Sign(x[1], size) * (size \div 2), x[1] % 2>>
  BY DEF ShiftStep
<1> QED
  BY <1>1, <1>2, <1>3, <1>4

\* A number of two words shifted up by SHL and RCL comes back by SAR and RCR, if
\* its two highest bits are equal (cpu.c: op_grp2).
THEOREM LongShiftTakenBack ==
  ASSUME NEW half, NEW size, Halved(size, half), NEW quarter, Halved(half, quarter),
         NEW lo \in 0..(size - 1), NEW hi \in 0..(size - 1), NEW carry,
         hi < quarter \/ size - quarter <= hi,
         NEW low, low = ShiftStep(4, <<lo, carry>>, size),
         NEW high, high = ShiftStep(2, <<hi, low[2]>>, size),
         NEW back, back = ShiftStep(7, high, size)
  PROVE  back[1] = hi /\ ShiftStep(3, <<low[1], back[2]>>, size)[1] = lo
<1>0. /\ size \in Nat \ {0} /\ half \in Nat \ {0} /\ size = 2 * half
      /\ quarter \in Nat \ {0} /\ half = 2 * quarter
  BY DEF Halved
<1> DEFINE b == Sign(lo, size)
           h == Doubled(hi, b, size)
           l == Doubled(lo, 0, size)
<1>1. size \div 2 = half /\ b = IF lo < half THEN 0 ELSE 1
  BY SignIs
<1>2. b \in 0..1 /\ 0 \in 0..1
  BY <1>1
<1>3. low = <<l, b>>
  <2> DEFINE x == <<lo, carry>>
  <2>1. x[1] = lo /\ low = ShiftStep(4, x, size)
    OBVIOUS
  <2> HIDE DEF x
  <2>2. low = <<(2 * x[1]) % size, Sign(x[1], size)>>
    BY <2>1, ShiftSteps
  <2>3. l = (2 * lo) % size
    <3> DEFINE y == 2 * lo
    <3>1. y \in Nat
      OBVIOUS
    <3> HIDE DEF y
    <3>2. (y % size) + 0 = y % size
      BY <1>0, <3>1
    <3> QED
      BY <3>2 DEF Doubled, y
  <2> HIDE DEF l
  <2> QED
    BY <2>1, <2>2, <2>3
<1>4. low[1] = l /\ low[2] = b
  BY <1>3
<1>5. high = <<h, Sign(hi, size)>>
  <2> DEFINE x == <<hi, low[2]>>
  <2>1. x[1] = hi /\ x[2] = b /\ high = ShiftStep(2, x, size)
    BY <1>4
  <2> HIDE DEF x
  <2>2. high = <<((2 * x[1]) % size) + x[2], Sign(x[1], size)>>
    BY <2>1, ShiftSteps
  <2> QED
    BY <2>1, <2>2 DEF Doubled
<1> HIDE DEF b, h, l
<1>6. back = <<h \div 2 + Sign(h, size) * half, h % 2>>
  <2>1. back = <<high[1] \div 2 + Sign(high[1], size) * (size \div 2), high[1] % 2>>
    BY ShiftSteps
  <2>2. high[1] = h
    BY <1>5
  <2> QED
    BY <1>1, <2>1, <2>2
<1>7. ShiftStep(3, <<low[1], back[2]>>, size)[1] = l \div 2 + back[2] * half
  <2> DEFINE x == <<low[1], back[2]>>
  <2>1. x[1] = l /\ x[2] = back[2]
    BY <1>4
  <2> HIDE DEF x
  <2>2. ShiftStep(3, x, size) = <<x[1] \div 2 + x[2] * (size \div 2), x[1] % 2>>
    BY ShiftSteps
  <2> QED
    BY <1>1, <2>1, <2>2 DEF x
<1>8. /\ h = IF hi < half THEN 2 * hi + b ELSE 2 * hi - size + b
      /\ h \div 2 = IF hi < half THEN hi ELSE hi - half
      /\ h % 2 = b
  BY <1>2, DoubledIs DEF h
<1>9. l \div 2 = IF lo < half THEN lo ELSE lo - half
  BY <1>2, DoubledIs DEF l
<1>10. Sign(h, size) = IF hi < half THEN 0 ELSE 1
  <2>1. /\ h \in 0..(size - 1)
        /\ h < half <=> hi < half
    BY <1>0, <1>2, <1>8
  <2> QED
    BY <2>1, SignIs
<1>11. back[1] = hi
  <2>1. back[1] = h \div 2 + Sign(h, size) * half
    BY <1>6
  <2> QED
    BY <1>0, <1>8, <1>10, <2>1
<1>12. back[2] = b
  BY <1>6, <1>8
<1>13. l \div 2 + b * half = lo
  BY <1>0, <1>1, <1>9
<1> QED
  BY <1>7, <1>11, <1>12, <1>13

LEMMA ProductDivided ==
  ASSUME NEW a \in Nat, NEW b \in Nat \ {0}
  PROVE  (a * b) \div b = a /\ (a * b) % b = 0
OBVIOUS

LEMMA TwoHalves ==
  ASSUME NEW p \in Int, NEW size \in Nat \ {0}
  PROVE  size * (p \div size) + (p % size) = p
OBVIOUS

\* MUL and then DIV by the same operand gives the first one and no remainder, and
\* never the interrupt of a division (arith.c, cpu.c: GRP3).
THEOREM DivisionUndoesProduct ==
  ASSUME NEW size \in Nat \ {0}, NEW a \in 0..(size - 1), NEW b \in 1..(size - 1),
         NEW x, x = op_mul(a, b, size)
  PROVE  op_div(size * x.hi + x.lo, b, size) = [fault |-> FALSE, lo |-> a, hi |-> 0]
<1> DEFINE p == a * b
<1>1. p \in Nat /\ a \in Nat /\ b \in Nat \ {0}
  OBVIOUS
<1>2. p \div b = a /\ p % b = 0
  BY <1>1, ProductDivided
<1> HIDE DEF p
<1>3. x.hi = p \div size /\ x.lo = p % size
  BY DEF op_mul, p
<1>4. size * x.hi + x.lo = p
  BY <1>1, <1>3, TwoHalves
<1>5. ~(b = 0 \/ p \div b >= size)
  BY <1>2
<1> QED
  BY <1>2, <1>4, <1>5 DEF op_div

LEMMA SignedRange ==
  ASSUME NEW half, NEW size, Halved(size, half), NEW v, v \in 0..(size - 1)
  PROVE  /\ Signed(v, size) \in Int /\ -half <= Signed(v, size) /\ Signed(v, size) < half
         /\ Signed(v, size) = IF v < half THEN v ELSE v - size
<1>1. size \in Nat \ {0} /\ half \in Nat \ {0} /\ size = 2 * half /\ v \in Nat /\ v < size
  BY DEF Halved
<1>2. Sign(v, size) = IF v < half THEN 0 ELSE 1
  BY SignIs
<1> QED
  BY <1>1, <1>2 DEF Signed

LEMMA ProductRange ==
  ASSUME NEW n \in Nat, NEW a \in Int, NEW b \in Int, -n <= a, a <= n, -n <= b, b <= n
  PROVE  -(n * n) <= a * b /\ a * b <= n * n
OBVIOUS

LEMMA SignedQuotient ==
  ASSUME NEW a \in Int, NEW b \in Int, b # 0
  PROVE  CDiv(a * b, b) = a
<1> DEFINE p == a * b
           x == Abs(a)
           y == Abs(b)
<1>1. x \in Nat /\ y \in Nat \ {0} /\ p \in Int
  BY DEF Abs
<1>2. Abs(p) = x * y
  <2>1. CASE 0 <= a /\ 0 < b
    BY <2>1 DEF Abs
  <2>2. CASE 0 <= a /\ b < 0
    BY <2>2 DEF Abs
  <2>3. CASE a < 0 /\ 0 < b
    BY <2>3 DEF Abs
  <2>4. CASE a < 0 /\ b < 0
    BY <2>4 DEF Abs
  <2> QED
    BY <2>1, <2>2, <2>3, <2>4
<1>3. Abs(p) \div y = x
  <2> HIDE DEF x, y
  <2> QED
    BY <1>1, <1>2, ProductDivided
<1>4. (p < 0) = (b < 0) \/ a = 0 <=> 0 <= a
  <2>1. CASE 0 < a
    <3>1. 0 < b => p > 0
      BY <2>1
    <3>2. b < 0 => p < 0
      BY <2>1
    <3> HIDE DEF p
    <3> QED
      BY <1>1, <2>1, <3>1, <3>2
  <2>2. CASE a = 0
    BY <2>2
  <2>3. CASE a < 0
    <3>1. 0 < b => p < 0
      BY <2>3
    <3>2. b < 0 => p > 0
      BY <2>3
    <3> HIDE DEF p
    <3> QED
      BY <1>1, <2>3, <3>1, <3>2
  <2> QED
    BY <2>1, <2>2, <2>3
<1> HIDE DEF p
<1>5. CDiv(p, b) = IF (p < 0) = (b < 0) THEN x ELSE -x
  BY <1>3 DEF CDiv
<1>6. CDiv(p, b) = a
  <2>1. x = IF a < 0 THEN -a ELSE a
    BY DEF Abs
  <2> HIDE DEF x
  <2> QED
    BY <1>4, <1>5, <2>1
<1> QED
  BY <1>6 DEF p

\* The word or byte that holds a signed number gives that number back.
LEMMA SignedBack ==
  ASSUME NEW half, NEW size, Halved(size, half), NEW q \in Int, -half <= q, q < half
  PROVE  q % size \in 0..(size - 1) /\ Signed(q % size, size) = q
<1>1. size \in Nat \ {0} /\ half \in Nat \ {0} /\ size = 2 * half
  BY DEF Halved
<1> DEFINE v == q % size
<1>2. v = IF q < 0 THEN q + size ELSE q
  <2>1. CASE q < 0
    <3>1. size * (q \div size) + (q % size) = q
      BY <1>1, TwoHalves
    <3>2. q \div size = -1
      BY <1>1, <2>1
    <3>3. q % size \in Int
      BY <1>1
    <3> QED
      BY <1>1, <2>1, <3>1, <3>2, <3>3
  <2>2. CASE q >= 0
    BY <1>1, <2>2, ModSmall
  <2> QED
    BY <2>1, <2>2
<1> HIDE DEF v
<1>3. v \in 0..(size - 1) /\ (v < half <=> q >= 0)
  BY <1>1, <1>2
<1>4. Signed(v, size) = IF v < half THEN v ELSE v - size
  BY <1>3, SignedRange
<1>5. Signed(v, size) = q
  BY <1>1, <1>2, <1>3, <1>4
<1> QED
  BY <1>3, <1>5 DEF v

LEMMA HighHalf ==
  ASSUME NEW half \in Nat \ {0}, NEW size, size = 2 * half, NEW p \in Int,
         -(half * half) <= p, p <= half * half
  PROVE  p \div size \in Int /\ -half <= p \div size /\ p \div size < half
<1> DEFINE q == p \div size
<1>1. size \in Nat \ {0}
  OBVIOUS
<1>2. q \in Int /\ size * q <= p /\ p < size * q + size
  BY <1>1
<1> HIDE DEF q
<1>3. q < half
  <2> SUFFICES ASSUME q >= half PROVE FALSE
    BY <1>2
  <2>1. size * q >= size * half
    BY <1>1, <1>2
  <2>2. size * half = half * half + half * half /\ half * half > 0
    OBVIOUS
  <2> QED
    BY <1>2, <2>1, <2>2
<1>4. -half <= q
  <2> SUFFICES ASSUME q < -half PROVE FALSE
    BY <1>2
  <2>1. q + 1 <= -half
    BY <1>2
  <2>2. size * (q + 1) <= size * (-half)
    BY <1>1, <1>2, <2>1
  <2>3. size * (-half) = -(half * half) - (half * half) /\ half * half > 0
    OBVIOUS
  <2>4. size * (q + 1) = size * q + size
    BY <1>1, <1>2
  <2> QED
    BY <1>2, <2>2, <2>3, <2>4
<1> QED
  BY <1>2, <1>3, <1>4 DEF q

\* IMUL and then IDIV by the same operand gives the first one and no remainder; only
\* the most negative number, whose quotient the code refuses although it fits, is
\* left out (arith.c, cpu.c: GRP3).
THEOREM SignedDivisionUndoesProduct ==
  ASSUME NEW half, NEW size, Halved(size, half), NEW a \in 0..(size - 1), a # half,
         NEW b \in 1..(size - 1), NEW x, x = op_imul(a, b, size)
  PROVE  op_idiv(size * Signed(x.hi, size) + x.lo, b, size) = [fault |-> FALSE, lo |-> a, hi |-> 0]
<1>0. size \in Nat \ {0} /\ half \in Nat \ {0} /\ size = 2 * half
  BY DEF Halved
<1>1. a \in 0..(size - 1) /\ b \in 0..(size - 1) /\ b # 0
  BY <1>0
<1> DEFINE u == Signed(a, size)
           w == Signed(b, size)
           p == u * w
           q == p \div size
<1>2. /\ u \in Int /\ -half <= u /\ u < half
      /\ u = IF a < half THEN a ELSE a - size
  BY <1>1, SignedRange
<1>3. /\ w \in Int /\ -half <= w /\ w < half
      /\ w = IF b < half THEN b ELSE b - size
  BY <1>1, SignedRange
<1>4. x.lo = p % size /\ x.hi = q % size
  BY DEF op_imul
<1>5. w # 0 /\ -half < u
  BY <1>0, <1>1, <1>2, <1>3
<1>6. CDiv(p, w) = u
  BY <1>2, <1>3, <1>5, SignedQuotient
<1> HIDE DEF u, w
<1>7. p \in Int /\ -(half * half) <= p /\ p <= half * half
  BY <1>0, <1>2, <1>3, ProductRange
<1>8. p - u * w = 0
  BY <1>2, <1>3
<1> HIDE DEF p
<1>9. q \in Int /\ -half <= q /\ q < half
  BY <1>0, <1>7, HighHalf
<1>10. size * q + (p % size) = p
  BY <1>0, <1>7, TwoHalves
<1> HIDE DEF q
<1>11. Signed(q % size, size) = q
  BY <1>9, SignedBack
<1>12. size * Signed(x.hi, size) + x.lo = p
  BY <1>4, <1>10, <1>11
<1>13. ~(b = 0 \/ Abs(u) >= size \div 2)
  <2>1. size \div 2 = half
    BY <1>0, Halves
  <2>2. Abs(u) < half
    BY <1>0, <1>2, <1>5 DEF Abs
  <2>3. Abs(u) \in Int
    BY <1>2 DEF Abs
  <2> QED
    BY <1>0, <1>1, <2>1, <2>2, <2>3
<1>14. u % size = a
  <2>1. CASE a < half
    BY <1>0, <1>1, <1>2, <2>1, ModSmall
  <2>2. CASE a >= half
    <3>1. u = a - size /\ -size <= u /\ u < 0
      BY <1>0, <1>1, <1>2, <2>2
    <3>2. u \div size = -1
      BY <1>0, <1>2, <3>1
    <3>3. size * (u \div size) + (u % size) = u
      BY <1>0, <1>2, TwoHalves
    <3>4. u % size \in Int
      BY <1>0, <1>2
    <3> QED
      BY <1>0, <1>1, <3>1, <3>2, <3>3, <3>4
  <2> QED
    BY <1>0, <1>1, <2>1, <2>2
<1>15. 0 % size = 0
  BY <1>0
<1> QED
  BY <1>6, <1>8, <1>12, <1>13, <1>14, <1>15 DEF op_idiv, w

-----------------------------------------------------------------------------
\* A byte of two digits, 0 to 9 each.
Packed(t, u) == 16 * t + u
Digits == 0..9

LEMMA Nibbles ==
  ASSUME NEW d \in Int, NEW e \in 0..15
  PROVE  (16 * d + e) \div 16 = d /\ (16 * d + e) % 16 = e
OBVIOUS

LEMMA ThreeBits ==
  ASSUME NEW t \in Int, NEW v \in Int, NEW k \in 0..1
  PROVE  ((t % 2) + (v % 2) + ((t + v + k) % 2)) % 2 = k
OBVIOUS

LEMMA ByteWraps ==
  ASSUME NEW x \in Int
  PROVE  /\ 0 <= x /\ x < 256 => x % 256 = x
         /\ 256 <= x /\ x < 512 => x % 256 = x - 256
         /\ -256 <= x /\ x < 0 => x % 256 = x + 256
         /\ x % 256 \in 0..255 /\ (x % 256) % 16 = x % 16
<1>1. x % 256 \in 0..255
  OBVIOUS
<1>2. (x % 256) % 16 = x % 16
  <2> DEFINE q == x \div 256
  <2>1. x = 256 * q + (x % 256) /\ q \in Int
    OBVIOUS
  <2> HIDE DEF q
  <2>2. PICK y \in 0..255 : y = x % 256
    BY <1>1
  <2>3. (256 * q + y) % 16 = y % 16
    BY <2>1
  <2> QED
    BY <2>1, <2>2, <2>3
<1> QED
  BY <1>1, <1>2

LEMMA ByteAdd ==
  ASSUME NEW x \in Int, NEW k \in Int
  PROVE  ((x % 256) + k) % 256 = (x + k) % 256
<1> DEFINE q == x \div 256
           y == x % 256
<1>1. x = 256 * q + y /\ q \in Int /\ y \in Int
  OBVIOUS
<1> HIDE DEF q, y
<1>2. (256 * q + y + k) % 256 = (y + k) % 256
  BY <1>1
<1> QED
  BY <1>1, <1>2 DEF y

LEMMA HalfCarry ==
  ASSUME NEW f \in Flags, NEW v1, NEW v2, NEW size
  PROVE  /\ flag_adc(f, v1, v2, 0, size).af = (Bit4(v1) + Bit4(v2) + Bit4(v1 + v2 + 0)) % 2
         /\ flag_sub(f, v1, v2, size).af = (Bit4(v1) + Bit4(v2) + Bit4(v1 - v2)) % 2
  BY DEF flag_adc, flag_sub, flag_szp, Flags, FlagNames

Marked(f, a, c) == [f EXCEPT !.af = a, !.cf = c]
Corrected(f, a, c, v) == flag_szp([f EXCEPT !.af = a, !.cf = c], v, 256)

LEMMA CarryPasses ==
  ASSUME NEW f \in Flags, NEW a, NEW c, NEW v
  PROVE  Corrected(f, a, c, v).cf = c /\ Marked(f, a, c).cf = c
BY DEF Marked, Corrected, flag_szp, Flags, FlagNames

LEMMA AdjustedCarry ==
  ASSUME NEW f \in Flags, NEW al
  PROVE  /\ DAA(f, al).f.cf =
              Bool((IF al % 16 > 9 \/ f.af = 1 THEN (al + 6) % 256 ELSE al) > 153 \/ f.cf = 1)
         /\ DAS(f, al).f.cf =
              Bool((IF al % 16 > 9 \/ f.af = 1 THEN (al - 6) % 256 ELSE al) \div 16 > 9
                   \/ (IF al % 16 > 9 \/ f.af = 1 THEN Bool(al < 6) ELSE f.cf) = 1)
<1> DEFINE low == al % 16 > 9 \/ f.af = 1
           x == IF low THEN (al + 6) % 256 ELSE al
           high == x > 153 \/ f.cf = 1
           y == IF high THEN (x + 96) % 256 ELSE x
           a == IF low THEN (al - 6) % 256 ELSE al
           borrow == IF low THEN Bool(al < 6) ELSE f.cf
           big == a \div 16 > 9 \/ borrow = 1
           b == IF big THEN (a - 96) % 256 ELSE a
<1>1. DAA(f, al).f = Corrected(f, Bool(low), Bool(high), y)
  BY DEF DAA, Corrected
<1>2. DAS(f, al).f = Corrected(f, Bool(low), Bool(big), b)
  BY DEF DAS, Corrected
<1>3. DAA(f, al).f.cf = Bool(high)
  <2> HIDE DEF low, high, y
  <2>1. Corrected(f, Bool(low), Bool(high), y).cf = Bool(high)
    BY CarryPasses
  <2> QED
    BY <1>1, <2>1, Zenon
<1>4. DAS(f, al).f.cf = Bool(big)
  <2> HIDE DEF low, big, b
  <2>1. Corrected(f, Bool(low), Bool(big), b).cf = Bool(big)
    BY CarryPasses
  <2> QED
    BY <1>2, <2>1, Zenon
<1> QED
  BY <1>3, <1>4, Zenon

\* ADD and DAA of two bytes of decimal digits: the digits of their sum, and a carry
\* when it has three (cpu.c: DAA).  Left out are the sums FAh to FFh.
THEOREM PackedSumIsDecimal ==
  ASSUME NEW f \in Flags, NEW t \in Digits, NEW u \in Digits, NEW v \in Digits, NEW w \in Digits,
         Packed(t, u) + Packed(v, w) \notin 250..255,
         NEW g, g = op_add(f, Packed(t, u), Packed(v, w), 256),
         NEW x, x = DAA(g.f, g.v)
  PROVE  LET sum == 10 * t + u + 10 * v + w
         IN  /\ x.al = Packed((sum \div 10) % 10, sum % 10)
             /\ x.f.cf = sum \div 100
<1> USE DEF Digits
<1> DEFINE sum == 10 * t + u + 10 * v + w
           D == t + v
           E == u + w
           s == 16 * D + E
           c == IF E > 9 THEN 1 ELSE 0
           D1 == D + c
           E1 == E - 10 * c
<1>1. /\ D \in 0..18 /\ E \in 0..18 /\ s \in Nat /\ c \in 0..1
      /\ D1 \in 0..19 /\ E1 \in 0..9
  OBVIOUS
<1>2. Packed(t, u) + Packed(v, w) = s /\ Packed(t, u) + Packed(v, w) + 0 = s
  BY DEF Packed
<1>3. g.v = s % 256 /\ g.f \in Flags /\ g.f.cf = Bool(s >= 256)
  <2>1. g.v = s % 256 /\ g.f = flag_adc(f, Packed(t, u), Packed(v, w), 0, 256)
    BY <1>2 DEF op_add
  <2>2. Packed(t, u) \in Int /\ Packed(v, w) \in Int /\ 0 \in Int /\ 256 \in Nat /\ 0 < 256
    BY DEF Packed
  <2>3. g.f \in Flags
    BY <2>1, <2>2, AdcOK
  <2>4. g.f.cf = Bool(s >= 256)
    BY <1>2, <2>1, AddFlags
  <2> QED
    BY <2>1, <2>3, <2>4
<1>4. g.f.af = IF E >= 16 THEN 1 ELSE 0
  <2>1. g.f.af = (Bit4(Packed(t, u)) + Bit4(Packed(v, w)) + Bit4(s)) % 2
    BY <1>2, HalfCarry DEF op_add
  <2>2. Bit4(Packed(t, u)) = t % 2 /\ Bit4(Packed(v, w)) = v % 2
    BY DEF Bit4, Packed
  <2> DEFINE k == IF E >= 16 THEN 1 ELSE 0
  <2>3. s = 16 * (t + v + k) + (E - 16 * k) /\ E - 16 * k \in 0..15 /\ k \in 0..1
    OBVIOUS
  <2>4. s \div 16 = t + v + k
    BY <2>3
  <2>5. Bit4(s) = (t + v + k) % 2
    BY <2>4 DEF Bit4
  <2> HIDE DEF k
  <2>6. ((t % 2) + (v % 2) + ((t + v + k) % 2)) % 2 = k
    BY <2>3, ThreeBits
  <2> QED
    BY <2>1, <2>2, <2>5, <2>6 DEF k
<1>5. (g.v % 16 > 9 \/ g.f.af = 1) <=> c = 1
  <2>1. g.v % 16 = s % 16
    BY <1>1, <1>3, ByteWraps, SMTT(30)
  <2>2. s % 16 = IF E >= 16 THEN E - 16 ELSE E
    BY <1>1
  <2> QED
    BY <1>1, <1>4, <2>1, <2>2
<1> DEFINE y == IF g.v % 16 > 9 \/ g.f.af = 1 THEN (g.v + 6) % 256 ELSE g.v
           z == 16 * D1 + E1
<1>6. z \in Nat /\ z < 512 /\ z = s + 6 * c
  OBVIOUS
<1>7. y = z % 256
  <2>1. CASE c = 1
    <3>1. y = ((s % 256) + 6) % 256
      BY <1>3, <1>5, <2>1
    <3>2. y = (s + 6) % 256
      BY <1>1, <3>1, ByteAdd
    <3> QED
      BY <1>1, <1>6, <2>1, <3>2
  <2>2. CASE c = 0
    BY <1>1, <1>3, <1>5, <1>6, <2>2
  <2> QED
    BY <1>1, <2>1, <2>2
<1>8. s \notin 250..255
  BY <1>2
<1> HIDE DEF s, c, y, z
<1>9. /\ z < 256 => y = z
      /\ z >= 256 => y = z - 256
  BY <1>6, <1>7, ByteWraps
<1>10. (y > 153 \/ g.f.cf = 1) <=> D1 > 9
  <2>1. g.f.cf = 1 <=> s >= 256
    BY <1>1, <1>3 DEF Bool
  <2>2. CASE s >= 256
    BY <1>1, <1>6, <2>1, <2>2 DEF s, c, z
  <2>3. CASE s < 256 /\ D1 > 9
    <3>1. z >= 160
      BY <1>1, <2>3 DEF z
    <3>2. z < 256
      BY <1>1, <1>6, <1>8, <2>3
    <3> QED
      BY <1>1, <1>6, <1>9, <2>3, <3>1, <3>2
  <2>4. CASE s < 256 /\ D1 <= 9
    <3>1. z <= 153
      BY <1>1, <2>4 DEF z
    <3> QED
      BY <1>1, <1>6, <1>9, <2>1, <2>4, <3>1
  <2> QED
    BY <1>1, <2>2, <2>3, <2>4
<1>11. x.al = (IF y > 153 \/ g.f.cf = 1 THEN (y + 96) % 256 ELSE y)
  BY DEF DAA, y
<1>12. x.f.cf = IF D1 > 9 THEN 1 ELSE 0
  BY <1>3, <1>10, AdjustedCarry DEF y, Bool
<1>13. x.al = IF D1 > 9 THEN 16 * (D1 - 10) + E1 ELSE 16 * D1 + E1
  <2>1. CASE D1 > 9
    <3>1. x.al = ((z % 256) + 96) % 256
      BY <1>7, <1>10, <1>11, <2>1
    <3>2. x.al = (z + 96) % 256
      BY <1>6, <3>1, ByteAdd
    <3>3. z + 96 = 16 * (D1 - 10) + E1 + 256
      BY <1>1 DEF z
    <3>4. 256 <= z + 96 /\ z + 96 < 512 /\ z + 96 \in Int
      BY <1>1, <2>1, <3>3
    <3>5. (z + 96) % 256 = z + 96 - 256
      <4> DEFINE n == z + 96
      <4>1. n \in Int /\ 256 <= n /\ n < 512
        BY <3>4
      <4> HIDE DEF n
      <4>2. n % 256 = n - 256
        BY <4>1
      <4> QED
        BY <1>6, <4>2 DEF n
    <3> QED
      BY <1>1, <2>1, <3>2, <3>3, <3>5
  <2>2. CASE D1 <= 9
    <3>1. z < 256
      BY <1>1, <2>2 DEF z
    <3> QED
      BY <1>1, <1>9, <1>10, <1>11, <2>2, <3>1 DEF z
  <2> QED
    BY <1>1, <2>1, <2>2
<1>14. sum = 10 * D1 + E1
  BY DEF c
<1> HIDE DEF D, E, D1, E1, sum
<1>15. sum \div 10 = D1 /\ sum % 10 = E1
  BY <1>1, <1>14
<1>16. sum \div 100 = (IF D1 > 9 THEN 1 ELSE 0) /\ D1 % 10 = (IF D1 > 9 THEN D1 - 10 ELSE D1)
  BY <1>1, <1>14
<1> QED
  BY <1>1, <1>12, <1>13, <1>15, <1>16 DEF Packed, sum

\* SUB and DAS of two bytes of decimal digits: the digits of their difference, and
\* a borrow when it is negative (cpu.c: DAS).  Left out are the operands for which
\* the code forgets the borrow: SUB and the adjustment of the low digit borrow both,
\* and the difference looks small.
THEOREM PackedDifferenceIsDecimal ==
  ASSUME NEW f \in Flags, NEW t \in Digits, NEW u \in Digits, NEW v \in Digits, NEW w \in Digits,
         ~(10 * t + u < 10 * v + w /\ u < w /\ (Packed(t, u) - Packed(v, w)) % 256 < 160),
         NEW g, g = op_sub(f, Packed(t, u), Packed(v, w), 256),
         NEW x, x = DAS(g.f, g.v)
  PROVE  LET rest == 10 * t + u - (10 * v + w)
         IN  /\ x.al = Packed((rest \div 10) % 10, rest % 10)
             /\ x.f.cf = IF rest < 0 THEN 1 ELSE 0
<1> USE DEF Digits
<1> DEFINE rest == 10 * t + u - (10 * v + w)
           D == t - v
           E == u - w
           s == 16 * D + E
           c == IF E < 0 THEN 1 ELSE 0
           D1 == D - c
           E1 == E + 10 * c
<1>1. /\ D \in -9..9 /\ E \in -9..9 /\ s \in Int /\ c \in 0..1
      /\ D1 \in -10..9 /\ E1 \in 0..9 /\ -256 <= s /\ s < 256
  OBVIOUS
<1>2. Packed(t, u) - Packed(v, w) = s /\ (Packed(t, u) < Packed(v, w) <=> s < 0)
  BY DEF Packed
<1>3. g.v = s % 256 /\ g.f \in Flags /\ g.f.cf = Bool(s < 0)
  <2>1. g.v = s % 256 /\ g.f = flag_sub(f, Packed(t, u), Packed(v, w), 256)
    BY <1>2 DEF op_sub
  <2>2. Packed(t, u) \in Int /\ Packed(v, w) \in Int /\ 256 \in Nat /\ 0 < 256
    BY DEF Packed
  <2>3. g.f \in Flags
    BY <2>1, <2>2, SubOK
  <2>4. g.f.cf = Bool(Packed(t, u) < Packed(v, w))
    BY <2>1, SubFlags
  <2>5. g.f.cf = Bool(s < 0)
    BY <1>2, <2>4 DEF Bool
  <2> QED
    BY <2>1, <2>3, <2>5
<1>4. g.f.af = c
  <2>1. g.f.af = (Bit4(Packed(t, u)) + Bit4(Packed(v, w)) + Bit4(s)) % 2
    BY <1>2, HalfCarry DEF op_sub
  <2>2. Bit4(Packed(t, u)) = t % 2 /\ Bit4(Packed(v, w)) = v % 2
    BY DEF Bit4, Packed
  <2>3. s = 16 * (t - v - c) + (E + 16 * c) /\ E + 16 * c \in 0..15 /\ c \in 0..1
    OBVIOUS
  <2>4. s \div 16 = t - v - c
    BY <2>3
  <2>5. Bit4(s) = (t - v - c) % 2
    BY <2>4 DEF Bit4
  <2> HIDE DEF c
  <2>6. ((t % 2) + (v % 2) + ((t - v - c) % 2)) % 2 = c
    BY <2>3
  <2> QED
    BY <2>1, <2>2, <2>5, <2>6
<1>5. (g.v % 16 > 9 \/ g.f.af = 1) <=> c = 1
  <2>1. g.v % 16 = s % 16
    BY <1>1, <1>3, ByteWraps
  <2>2. s % 16 = IF E < 0 THEN E + 16 ELSE E
    BY <1>1
  <2> QED
    BY <1>1, <1>4, <2>1, <2>2
<1> DEFINE y == IF g.v % 16 > 9 \/ g.f.af = 1 THEN (g.v - 6) % 256 ELSE g.v
           d == IF g.v % 16 > 9 \/ g.f.af = 1 THEN Bool(g.v < 6) ELSE g.f.cf
           z == 16 * D1 + E1
<1>6. z \in Int /\ -160 <= z /\ z <= 153 /\ z = s - 6 * c
  OBVIOUS
<1>7. y = z % 256
  <2>1. CASE c = 1
    <3>1. y = ((s % 256) + (-6)) % 256
      BY <1>1, <1>3, <1>5, <2>1
    <3>2. y = (s + (-6)) % 256
      BY <1>1, <3>1, ByteAdd
    <3> QED
      BY <1>1, <1>6, <2>1, <3>2
  <2>2. CASE c = 0
    BY <1>1, <1>3, <1>5, <1>6, <2>2
  <2> QED
    BY <1>1, <2>1, <2>2
<1>8. rest = 10 * D1 + E1
  OBVIOUS
<1>9. rest < 0 <=> D1 < 0
  BY <1>1, <1>8
<1>10. rest < 0 /\ c = 1 => s % 256 >= 160
  BY <1>2
<1> HIDE DEF s, c, y, z, d
<1>11. y = IF D1 < 0 THEN z + 256 ELSE z
  <2>1. CASE D1 < 0
    <3>1. z < 0
      BY <1>1, <2>1 DEF z
    <3> QED
      BY <1>6, <1>7, <2>1, <3>1, ByteWraps
  <2>2. CASE D1 >= 0
    <3>1. z >= 0
      BY <1>1, <2>2 DEF z
    <3> QED
      BY <1>1, <1>6, <1>7, <2>2, <3>1, ByteWraps
  <2> QED
    BY <1>1, <2>1, <2>2
<1>12. (y \div 16 > 9 \/ d = 1) <=> D1 < 0
  <2>1. CASE D1 >= 0
    <3>1. y = 16 * D1 + E1
      BY <1>1, <1>11, <2>1 DEF z
    <3>2. y \div 16 = D1
      BY <1>1, <3>1
    <3>3. d # 1
      <4>1. CASE c = 1
        <5>1. s = y + 6 /\ y >= 0 /\ s >= 0
          BY <1>1, <1>6, <1>11, <2>1, <3>1, <4>1
        <5>2. s % 256 = s
          BY <1>1, <5>1, ByteWraps
        <5>3. ~(g.v < 6)
          BY <1>1, <1>3, <1>6, <1>11, <2>1, <5>1, <5>2
        <5> QED
          BY <1>5, <4>1, <5>3 DEF d, Bool
      <4>2. CASE c = 0
        <5>1. ~(s < 0)
          BY <1>1, <1>6, <2>1, <4>2 DEF z
        <5> QED
          BY <1>3, <1>5, <4>2, <5>1 DEF d, Bool
      <4> QED
        BY <1>1, <4>1, <4>2
    <3> QED
      BY <1>1, <2>1, <3>2, <3>3
  <2>2. CASE D1 < 0 /\ c = 1
    <3>1. s % 256 >= 160
      BY <1>9, <1>10, <2>2
    <3>2. s = 16 * D1 + E1 + 6 /\ y = 16 * D1 + E1 + 256
      BY <1>1, <1>6, <1>11, <2>2 DEF z
    <3>3. -256 <= s /\ s < 0
      BY <1>1, <2>2, <3>2
    <3>4. s % 256 = s + 256
      BY <1>1, <3>3, ByteWraps
    <3>5. D1 >= -6
      BY <1>1, <3>1, <3>2, <3>4
    <3>6. y \div 16 = D1 + 16
      BY <1>1, <3>2
    <3> QED
      BY <1>1, <2>2, <3>5, <3>6
  <2>3. CASE D1 < 0 /\ c = 0
    <3>1. s < 0
      BY <1>1, <1>6, <2>3 DEF z
    <3>2. d = 1
      BY <1>3, <1>5, <2>3, <3>1 DEF d, Bool
    <3> QED
      BY <2>3, <3>2
  <2> QED
    BY <1>1, <2>1, <2>2, <2>3
<1>13. x.al = (IF y \div 16 > 9 \/ d = 1 THEN (y - 96) % 256 ELSE y)
  BY DEF DAS, y, d
<1>14. x.f.cf = IF D1 < 0 THEN 1 ELSE 0
  <2>1. x.f.cf = Bool(y \div 16 > 9 \/ d = 1)
    BY <1>3, AdjustedCarry DEF y, d
  <2> QED
    BY <1>12, <2>1 DEF Bool
<1>15. x.al = IF D1 < 0 THEN 16 * (D1 + 10) + E1 ELSE 16 * D1 + E1
  <2>1. CASE D1 < 0
    <3>1. x.al = (y - 96) % 256
      BY <1>12, <1>13, <2>1
    <3>2. y - 96 = 16 * (D1 + 10) + E1
      BY <1>1, <1>11, <2>1 DEF z
    <3> DEFINE n == 16 * (D1 + 10) + E1
    <3>3. n \in 0..255
      BY <1>1, <2>1
    <3>4. x.al = n % 256
      BY <3>1, <3>2
    <3> HIDE DEF n
    <3>5. x.al = n
      BY <3>3, <3>4
    <3> QED
      BY <2>1, <3>5 DEF n
  <2>2. CASE D1 >= 0
    BY <1>1, <1>11, <1>12, <1>13, <2>2 DEF z
  <2> QED
    BY <1>1, <2>1, <2>2
<1> HIDE DEF D, E, D1, E1, rest
<1>16. rest \div 10 = D1 /\ rest % 10 = E1
  BY <1>1, <1>8
<1>17. D1 % 10 = IF D1 < 0 THEN D1 + 10 ELSE D1
  BY <1>1
<1> QED
  BY <1>1, <1>9, <1>14, <1>15, <1>16, <1>17 DEF Packed, rest

\* AAA after ADD of two digits in AX: the tens in AH, the ones in AL, and a carry
\* when there are tens (cpu.c: AAA).
THEOREM UnpackedSumIsDecimal ==
  ASSUME NEW f \in Flags, NEW u \in Digits, NEW w \in Digits, NEW ah \in Octets,
         NEW g, g = op_add(f, u, w, 256), NEW x, x = AAA(g.f, g.v, ah)
  PROVE  /\ x.al = (u + w) % 10
         /\ x.ah = (ah + ((u + w) \div 10)) % 256
         /\ x.f.cf = (u + w) \div 10
<1> USE DEF Digits, Octets, Byte
<1> DEFINE E == u + w
<1>1. E \in 0..18 /\ u + w + 0 = E
  OBVIOUS
<1>2. g.v = E /\ g.f \in Flags
  <2>1. u \in Int /\ w \in Int /\ 0 \in Int /\ 256 \in Nat /\ 0 < 256
    OBVIOUS
  <2>2. flag_adc(f, u, w, 0, 256) \in Flags
    BY <2>1, AdcOK
  <2>3. E % 256 = E
    BY <1>1
  <2> QED
    BY <2>2, <2>3 DEF op_add
<1>3. g.f.af = IF E >= 16 THEN 1 ELSE 0
  <2>1. g.f.af = (Bit4(u) + Bit4(w) + Bit4(E)) % 2
    <3>1. g.f.af = (Bit4(u) + Bit4(w) + Bit4(u + w + 0)) % 2
      BY HalfCarry DEF op_add
    <3> HIDE DEF E
    <3> QED
      BY <1>1, <3>1
  <2>2. Bit4(u) = 0 /\ Bit4(w) = 0 /\ Bit4(E) = IF E >= 16 THEN 1 ELSE 0
    BY <1>1 DEF Bit4
  <2> QED
    BY <1>1, <2>1, <2>2
<1> HIDE DEF E
<1>4. (g.v % 16 > 9 \/ g.f.af = 1) <=> E > 9
  BY <1>1, <1>2, <1>3
<1> DEFINE low == g.v % 16 > 9 \/ g.f.af = 1
<1>5. /\ x.al = (IF low THEN g.v + 6 ELSE g.v) % 16
      /\ x.ah = (ah + Bool(low)) % 256
      /\ x.f = [g.f EXCEPT !.af = Bool(low), !.cf = Bool(low)]
  BY DEF AAA
<1>6. Bool(low) = E \div 10
  BY <1>1, <1>4 DEF Bool
<1>7. x.al = E % 10
  BY <1>1, <1>2, <1>4, <1>5
<1>8. x.f.cf = Bool(low)
  <2> DEFINE b == Bool(low)
  <2>1. x.f = Marked(g.f, b, b)
    BY <1>5 DEF Marked
  <2> HIDE DEF b
  <2>2. x.f.cf = b
    BY <1>2, <2>1, CarryPasses
  <2> QED
    BY <2>2 DEF b
<1> QED
  BY <1>5, <1>6, <1>7, <1>8 DEF E

\* AAM and then AAD with the same base give the byte back (cpu.c: AAM, AAD).
THEOREM UnpackedAgain ==
  ASSUME NEW f, NEW g, NEW al \in Octets, NEW base \in Octets, base # 0
  PROVE  LET x == AAM(f, al, base) IN AAD(g, x.al, x.ah, base).al = al
<1> USE DEF Octets, Byte
<1>1. base \in Nat \ {0} /\ al \in Int
  OBVIOUS
<1>2. base * (al \div base) + (al % base) = al
  BY <1>1, TwoHalves
<1>3. (al \div base) * base = base * (al \div base)
  BY <1>1
<1>4. ((al \div base) * base + (al % base)) % 256 = al
  BY <1>2, <1>3
<1> QED
  BY <1>4 DEF AAM, AAD

-----------------------------------------------------------------------------
\* The stack, between the data of the BIOS and the ROM, with an even pointer: a
\* word lies at an even offset and the words do not overlap.
Evens == {o \in Words : o % 2 = 0}
StackWord(x, o) == Read16Unsafe(x, x.s[SS] * 16 + o)
StackInRAM(x) ==
  x.r[SP] \in Evens /\ 80 <= x.s[SS] /\ x.s[SS] * 16 + Word <= 15 * Word

\* The offset n bytes below another, and below the stack pointer.
Lower(o, n) == (o - n) % Word
Below(x, n) == Lower(x.r[SP], n)

LEMMA Down ==
  ASSUME NEW x \in Words, NEW n \in Nat, n < Word
  PROVE  (x - n) % Word = IF n <= x THEN x - n ELSE x - n + Word
<1>1. x \in Nat /\ x < Word /\ Word \in Nat \ {0}
  BY Numbers8, Sizes
<1> HIDE DEF Word
<1>2. CASE n <= x
  BY <1>1, <1>2, ModSmall
<1>3. CASE ~(n <= x)
  BY <1>1, <1>3, ModNegative
<1> QED
  BY <1>2, <1>3

LEMMA Up ==
  ASSUME NEW x \in Words, NEW n \in Nat, n < Word
  PROVE  (x + n) % Word = IF x + n < Word THEN x + n ELSE x + n - Word
<1>1. x \in Nat /\ x < Word /\ Word \in Nat \ {0}
  BY Numbers8, Sizes
<1> HIDE DEF Word
<1>2. CASE x + n < Word
  BY <1>1, <1>2, ModSmall
<1>3. CASE ~(x + n < Word)
  BY <1>1, <1>3
<1> QED
  BY <1>2, <1>3

LEMMA EvenHalves ==
  /\ \E half \in Nat : Word = 2 * half /\ half > 1000
  /\ \A o \in Evens : o \in Words /\ o \in Nat /\ o < Word /\ \E i \in Nat : o = 2 * i
  /\ \A i \in Nat : 2 * i < Word => 2 * i \in Evens
<1>1. \E half \in Nat : Word = 2 * half /\ half > 1000
  <2>1. Word = 2 * (128 * Byte) /\ 128 * Byte \in Nat /\ 128 * Byte > 1000
    BY DEF Word, Byte
  <2> QED
    BY <2>1
<1>2. ASSUME NEW o \in Evens
      PROVE  o \in Words /\ o \in Nat /\ o < Word /\ \E i \in Nat : o = 2 * i
  <2>1. o \in Words /\ o \in Nat /\ o % 2 = 0 /\ o < Word
    BY Numbers8 DEF Evens
  <2>2. o = 2 * (o \div 2) /\ o \div 2 \in Nat
    BY <2>1
  <2> QED
    BY <2>1, <2>2
<1>3. ASSUME NEW i \in Nat, 2 * i < Word
      PROVE  2 * i \in Evens
  <2>1. (2 * i) % 2 = 0 /\ 2 * i \in Nat
    OBVIOUS
  <2> QED
    BY <1>3, <2>1, Sizes DEF Evens, Words
<1> QED
  BY <1>1, <1>2, <1>3

LEMMA EvenOffsets ==
  ASSUME NEW o \in Evens
  PROVE  /\ o \in Nat /\ o \in Words /\ o + 1 < Word /\ (o + 1) % Word = o + 1
         /\ \A n \in 0..32 : (o - 2 * n) % Word \in Evens /\ (o + 2 * n) % Word \in Evens
         /\ \A p \in Evens : o # p + 1
<1>0. PICK half \in Nat : Word = 2 * half /\ half > 1000
  BY EvenHalves
<1>1. Word = 2 * half /\ half > 1000 /\ half \in Nat /\ o \in Words /\ o \in Nat /\ o < Word
  BY <1>0, EvenHalves
<1>2. PICK i \in Nat : o = 2 * i
  BY EvenHalves
<1>3. o + 1 < Word
  BY <1>1, <1>2
<1>4. (o + 1) % Word = o + 1
  BY <1>1, <1>3, ModSmall
<1>5. ASSUME NEW n \in 0..32
      PROVE  (o - 2 * n) % Word \in Evens /\ (o + 2 * n) % Word \in Evens
  <2>1. 2 * n \in Nat /\ 2 * n < Word
    BY <1>1
  <2>2. (o - 2 * n) % Word = IF 2 * n <= o THEN 2 * (i - n) ELSE 2 * (i - n + half)
    BY <1>1, <1>2, <2>1, Down
  <2>3. (o + 2 * n) % Word = IF o + 2 * n < Word THEN 2 * (i + n) ELSE 2 * (i + n - half)
    BY <1>1, <1>2, <2>1, Up
  <2>4. ASSUME 2 * n <= o
        PROVE  (o - 2 * n) % Word \in Evens
    <3>1. i - n \in Nat /\ 2 * (i - n) < Word
      BY <1>1, <1>2, <2>4
    <3> QED
      BY <2>2, <2>4, <3>1, EvenHalves, ZenonT(60)
  <2>5. ASSUME ~(2 * n <= o)
        PROVE  (o - 2 * n) % Word \in Evens
    <3>1. i - n + half \in Nat /\ 2 * (i - n + half) < Word
      BY <1>1, <1>2, <2>5
    <3> QED
      BY <2>2, <2>5, <3>1, EvenHalves, ZenonT(60)
  <2>6. ASSUME o + 2 * n < Word
        PROVE  (o + 2 * n) % Word \in Evens
    <3>1. i + n \in Nat /\ 2 * (i + n) < Word
      BY <1>1, <1>2, <2>6
    <3> QED
      BY <2>3, <2>6, <3>1, EvenHalves, ZenonT(60)
  <2>7. ASSUME ~(o + 2 * n < Word)
        PROVE  (o + 2 * n) % Word \in Evens
    <3>1. i + n - half \in Nat /\ 2 * (i + n - half) < Word
      BY <1>1, <1>2, <2>7
    <3> QED
      BY <2>3, <2>7, <3>1, EvenHalves, ZenonT(60)
  <2>8. (o - 2 * n) % Word \in Evens
    BY <2>4, <2>5
  <2>9. (o + 2 * n) % Word \in Evens
    BY <2>6, <2>7
  <2> QED
    BY <2>8, <2>9
<1>6. ASSUME NEW p \in Evens
      PROVE  o # p + 1
  <2>1. PICK k \in Nat : p = 2 * k
    BY EvenHalves
  <2> QED
    BY <1>2, <2>1
<1> QED
  BY <1>1, <1>3, <1>4, <1>5, <1>6

LEMMA BelowEven ==
  ASSUME NEW x, StackInRAM(x), NEW n \in 0..32
  PROVE  Below(x, 2 * n) \in Evens
BY EvenOffsets DEF StackInRAM, Below, Lower

\* Steps down from one stack pointer.
LEMMA LowerIs ==
  ASSUME NEW x \in Words, NEW n \in Nat, n < 1000
  PROVE  /\ Lower(x, n) = IF n <= x THEN x - n ELSE x - n + Word
         /\ Lower(x, n) \in Words /\ Lower(x, n) \in Nat /\ Lower(x, n) < Word
         /\ x \in Nat /\ x < Word /\ Word \in Nat /\ 1000 < Word
<1>1. Word \in Nat /\ 1000 < Word /\ x \in Nat /\ x < Word
  <2>1. 1000 < Word
    BY DEF Word, Byte
  <2> QED
    BY <2>1, Sizes, Numbers8
<1>2. n < Word /\ x - n \in Int
  BY <1>1
<1>3. (x - n) % Word = IF n <= x THEN x - n ELSE x - n + Word
  BY <1>2, Down
<1>4. (x - n) % Word \in Words
  BY <1>2, ByteFacts
<1>5. (x - n) % Word \in Nat /\ (x - n) % Word < Word
  BY <1>4, Numbers8
<1> QED
  BY <1>1, <1>3, <1>4, <1>5 DEF Lower

LEMMA Deeper ==
  \A x \in Words : \A n \in 0..100 : \A k \in 0..100 : Lower(Lower(x, n), k) = Lower(x, n + k)
<1> SUFFICES ASSUME NEW x \in Words, NEW n \in 0..100, NEW k \in 0..100
             PROVE  Lower(Lower(x, n), k) = Lower(x, n + k)
  OBVIOUS
<1> DEFINE d == Lower(x, n)
           e == n + k
<1>1. n \in Nat /\ n < 1000 /\ k \in Nat /\ k < 1000 /\ e \in Nat /\ e < 1000 /\ e = n + k
  OBVIOUS
<1>2. /\ d = IF n <= x THEN x - n ELSE x - n + Word
      /\ d \in Words /\ d \in Nat /\ d < Word
      /\ x \in Nat /\ x < Word /\ Word \in Nat /\ 1000 < Word
  BY <1>1, LowerIs
<1> HIDE DEF d, e
<1>3. Lower(d, k) = IF k <= d THEN d - k ELSE d - k + Word
  BY <1>1, <1>2, LowerIs
<1>4. Lower(x, e) = IF e <= x THEN x - e ELSE x - e + Word
  BY <1>1, LowerIs
<1>5. Lower(d, k) = Lower(x, e)
  BY <1>1, <1>2, <1>3, <1>4
<1> QED
  BY <1>5, SMTT(30) DEF d, e

LEMMA Higher ==
  \A x \in Words : \A n \in 2..100 :
    (Lower(x, n) + 1) % Word = Lower(x, n - 1) /\ (Lower(x, n) + 2) % Word = Lower(x, n - 2)
<1> SUFFICES ASSUME NEW x \in Words, NEW n \in 2..100, NEW k \in 1..2
             PROVE  (Lower(x, n) + k) % Word = Lower(x, n - k)
  OBVIOUS
<1> DEFINE d == Lower(x, n)
           e == n - k
<1>1. n \in Nat /\ n < 1000 /\ k \in Nat /\ e \in Nat /\ e < 1000 /\ e = n - k /\ k <= n /\ k < 3
  OBVIOUS
<1>2. /\ d = IF n <= x THEN x - n ELSE x - n + Word
      /\ d \in Words /\ d \in Nat /\ d < Word
      /\ x \in Nat /\ x < Word /\ Word \in Nat /\ 1000 < Word
  BY <1>1, LowerIs
<1> HIDE DEF d, e
<1>3. (d + k) % Word = IF d + k < Word THEN d + k ELSE d + k - Word
  <2>1. k < Word
    BY <1>1, <1>2
  <2> QED
    BY <1>1, <1>2, <2>1, Up
<1>4. Lower(x, e) = IF e <= x THEN x - e ELSE x - e + Word
  BY <1>1, LowerIs
<1>5. (d + k) % Word = Lower(x, e)
  BY <1>1, <1>2, <1>3, <1>4
<1> QED
  BY <1>5 DEF d, e

LEMMA DepthsApart ==
  \A x \in Words : \A n \in 0..100 : \A k \in 0..100 : Lower(x, n) = Lower(x, k) => n = k
<1> SUFFICES ASSUME NEW x \in Words, NEW n \in 0..100, NEW k \in 0..100,
                    Lower(x, n) = Lower(x, k)
             PROVE  n = k
  OBVIOUS
<1>1. n \in Nat /\ n < 1000 /\ k \in Nat /\ k < 1000
  OBVIOUS
<1>2. /\ Lower(x, n) = IF n <= x THEN x - n ELSE x - n + Word
      /\ x \in Nat /\ x < Word /\ Word \in Nat /\ 1000 < Word
  BY <1>1, LowerIs
<1>3. Lower(x, k) = IF k <= x THEN x - k ELSE x - k + Word
  BY <1>1, LowerIs
<1>4. (IF n <= x THEN x - n ELSE x - n + Word) = (IF k <= x THEN x - k ELSE x - k + Word)
  BY <1>2, <1>3, Zenon
<1> QED
  BY <1>1, <1>2, <1>4, SMTT(30)

LEMMA WriteCell ==
  ASSUME NEW x, MachineOK(x), NEW a \in 0 .. Meg - 1, NEW v
  PROVE  /\ Write8(x, a, v) = [x EXCEPT !.mem = Put(x.mem, a, v)]
         /\ \A b : cell(Write8(x, a, v), b) = IF b = a THEN v ELSE cell(x, b)
<1>1. a % Meg = a
  BY Sizes
<1>2. Write8(x, a, v) = [x EXCEPT !.mem = Put(x.mem, a, v)]
  BY <1>1 DEF Write8
<1>3. Write8(x, a, v).mem = Put(x.mem, a, v)
  BY <1>2, Fields DEF MachineOK
<1> QED
  BY <1>2, <1>3 DEF cell, Put

\* All parts of a machine but its registers, its memory, ip and the segment registers.
Rest(y, x) ==
  /\ y.h = x.h /\ y.f = x.f /\ y.hlt = x.hlt /\ y.exited = x.exited /\ y.ports = x.ports

\* A push moves the stack pointer and changes the two bytes it then points at.
LEMMA PushParts ==
  ASSUME NEW x, MachineOK(x), StackInRAM(x), NEW v \in Words
  PROVE  LET y == push16(x, v)
             sp == Below(x, 2)
             a == x.s[SS] * 16 + sp
         IN  /\ MachineOK(y) /\ StackInRAM(y) /\ Rest(y, x)
             /\ y.r = [x.r EXCEPT ![SP] = sp] /\ y.s = x.s /\ y.ip = x.ip
             /\ y.over = x.over /\ y.seg = x.seg
             /\ \A b : cell(y, b) = CASE b = a -> v % Byte
                                      [] b = a + 1 -> v \div Byte
                                      [] OTHER -> cell(x, b)
<1> DEFINE sp == Below(x, 2)
           a == x.s[SS] * 16 + sp
           z == [x EXCEPT !.r[SP] = sp]
           w == Write8(z, a, v % Byte)
           y == push16(x, v)
<1>1. sp \in Evens /\ sp \in Words /\ sp \in Nat /\ sp + 1 < Word /\ (sp + 1) % Word = sp + 1
  <2>1. x.r[SP] \in Evens
    BY DEF StackInRAM
  <2>2. sp \in Evens
    BY <2>1, EvenOffsets DEF Below, Lower
  <2> QED
    BY <2>2, EvenOffsets
<1>2. x.s[SS] \in Nat
  BY Parts, Names, Numbers8
<1>3. a \in 0 .. Meg - 1 /\ a + 1 \in 0 .. Meg - 1
  <2>1. x.s[SS] * 16 + Word <= 15 * Word /\ Meg = 16 * Word
    BY DEF StackInRAM, Meg
  <2>2. a \in Nat /\ a + 1 < 15 * Word
    BY <1>1, <1>2, <2>1, Sizes
  <2> HIDE DEF a
  <2> QED
    BY <2>1, <2>2, Sizes
<1>4. y = Write8(Write8(z, x.s[SS] * 16 + sp, v % Byte), x.s[SS] * 16 + ((sp + 1) % Word), v \div Byte)
  BY DEF push16, Write16Long, Below, Lower
<1>5. x.s[SS] * 16 + ((sp + 1) % Word) = a + 1
  BY <1>1, <1>2, Sizes
<1>6. y = Write8(w, a + 1, v \div Byte)
  BY <1>4, <1>5
<1> HIDE DEF y
<1>7. MachineOK(z)
  BY <1>1, WithR, Names
<1>8. /\ z.r = [x.r EXCEPT ![SP] = sp] /\ z.s = x.s /\ z.ip = x.ip /\ z.mem = x.mem
      /\ z.over = x.over /\ z.seg = x.seg /\ Rest(z, x)
  BY Fields DEF MachineOK, Rest
<1> HIDE DEF sp, a, z
<1>9. /\ w = [z EXCEPT !.mem = Put(z.mem, a, v % Byte)]
      /\ \A b : cell(w, b) = IF b = a THEN v % Byte ELSE cell(z, b)
  BY <1>3, <1>7, WriteCell
<1>10. MachineOK(w)
  <2>1. v % Byte \in Octets
    BY Bytes16
  <2> QED
    BY <1>3, <1>7, <2>1, Write8OK
<1>11. /\ w.r = z.r /\ w.s = z.s /\ w.ip = z.ip /\ w.over = z.over /\ w.seg = z.seg /\ Rest(w, z)
  BY <1>7, <1>9, Fields DEF MachineOK, Rest
<1> HIDE DEF w
<1>12. /\ y = [w EXCEPT !.mem = Put(w.mem, a + 1, v \div Byte)]
       /\ \A b : cell(y, b) = IF b = a + 1 THEN v \div Byte ELSE cell(w, b)
  BY <1>3, <1>6, <1>10, WriteCell
<1>13. MachineOK(y)
  BY PushOK DEF y
<1>14. /\ y.r = w.r /\ y.s = w.s /\ y.ip = w.ip /\ y.over = w.over /\ y.seg = w.seg /\ Rest(y, w)
  BY <1>10, <1>12, Fields DEF MachineOK, Rest
<1>15. \A b : cell(z, b) = cell(x, b)
  BY <1>8 DEF cell
<1>16. a # a + 1
  BY <1>3
<1>17. \A b : cell(y, b) = CASE b = a -> v % Byte [] b = a + 1 -> v \div Byte [] OTHER -> cell(x, b)
  BY <1>9, <1>12, <1>15, <1>16
<1>18. StackInRAM(y)
  <2>1. y.r[SP] = sp /\ y.s[SS] = x.s[SS]
    BY <1>8, <1>11, <1>14, Parts, Names
  <2> QED
    BY <1>1, <2>1 DEF StackInRAM
<1>19. Rest(y, x)
  BY <1>8, <1>11, <1>14 DEF Rest
<1>20. /\ y.r = [x.r EXCEPT ![SP] = sp] /\ y.s = x.s /\ y.ip = x.ip
       /\ y.over = x.over /\ y.seg = x.seg
  BY <1>8, <1>11, <1>14
<1> QED
  BY <1>13, <1>17, <1>18, <1>19, <1>20 DEF y, sp, a

LEMMA PushKeeps ==
  ASSUME NEW x, MachineOK(x), StackInRAM(x), NEW v \in Words
  PROVE  push16(x, v).ip = x.ip /\ push16(x, v).s = x.s /\ Rest(push16(x, v), x)
BY PushParts

\* The word pushed is on the top, and the other words stay.
LEMMA PushWord ==
  ASSUME NEW x, MachineOK(x), StackInRAM(x), NEW v \in Words
  PROVE  /\ StackWord(push16(x, v), Below(x, 2)) = v
         /\ \A o \in Evens \ {Below(x, 2)} : StackWord(push16(x, v), o) = StackWord(x, o)
<1> DEFINE y == push16(x, v)
           sp == Below(x, 2)
           s == x.s[SS] * 16
<1>1. /\ y.s = x.s
      /\ \A b : cell(y, b) = CASE b = s + sp -> v % Byte
                               [] b = s + sp + 1 -> v \div Byte
                               [] OTHER -> cell(x, b)
  BY PushParts
<1>2. sp \in Evens /\ sp \in Nat
  <2>1. sp \in Evens
    BY BelowEven
  <2> QED
    BY <2>1, EvenOffsets
<1>3. s \in Nat
  <2>1. x.s[SS] \in Nat
    BY Parts, Names, Numbers8
  <2> QED
    BY <2>1
<1>4. \A o : StackWord(y, o) = cell(y, s + o) + Byte * cell(y, s + o + 1)
  BY <1>1 DEF StackWord, Read16Unsafe
<1>5. \A o : StackWord(x, o) = cell(x, s + o) + Byte * cell(x, s + o + 1)
  BY DEF StackWord, Read16Unsafe
<1> HIDE DEF y, sp, s
<1>6. StackWord(y, sp) = v
  <2>1. cell(y, s + sp) = v % Byte /\ cell(y, s + sp + 1) = v \div Byte
    <3>1. s + sp # s + sp + 1
      BY <1>2, <1>3
    <3> QED
      BY <1>1, <3>1
  <2>2. v = (v % Byte) + (Byte * (v \div Byte))
    BY Bytes16
  <2> QED
    BY <1>4, <2>1, <2>2
<1>7. ASSUME NEW o \in Evens, o # sp
      PROVE  StackWord(y, o) = StackWord(x, o)
  <2>1. o \in Nat
    BY EvenOffsets
  <2>2. o # sp + 1 /\ o + 1 # sp
    BY <1>2, EvenOffsets
  <2>3. s + o # s + sp /\ s + o # s + sp + 1 /\ s + o + 1 # s + sp /\ s + o + 1 # s + sp + 1
    BY <1>2, <1>3, <1>7, <2>1, <2>2
  <2>4. cell(y, s + o) = cell(x, s + o) /\ cell(y, s + o + 1) = cell(x, s + o + 1)
    BY <1>1, <2>3
  <2> QED
    BY <1>4, <1>5, <2>4
<1> QED
  BY <1>6, <1>7 DEF y, sp

\* What a machine x is after n bytes were pushed: only the bytes of the frame and
\* the stack pointer have changed.
Frame(x, n) == {x.s[SS] * 16 + Below(x, i) : i \in 1..n}

Pushed(y, x, n) ==
  /\ MachineOK(y) /\ StackInRAM(y) /\ Rest(y, x)
  /\ y.r = [x.r EXCEPT ![SP] = Below(x, n)] /\ y.s = x.s
  /\ \A b : b \notin Frame(x, n) => cell(y, b) = cell(x, b)

LEMMA PushedNothing ==
  ASSUME NEW x, MachineOK(x), StackInRAM(x)
  PROVE  Pushed(x, x, 0)
<1>1. x.r[SP] \in Words
  BY Parts, Names
<1>2. Below(x, 0) = x.r[SP]
  <2>1. x.r[SP] - 0 = x.r[SP] /\ 0 <= x.r[SP] /\ 0 < Word /\ 0 \in Nat
    BY <1>1, Numbers8, Sizes
  <2> QED
    BY <1>1, <2>1, Down DEF Below, Lower
<1>3. x.r = [x.r EXCEPT ![SP] = x.r[SP]]
  BY Parts
<1> QED
  BY <1>2, <1>3 DEF Pushed, Rest

\* One push more.
LEMMA PushMore ==
  ASSUME NEW x, MachineOK(x), StackInRAM(x), NEW k \in 0..20, NEW y, Pushed(y, x, 2 * k),
         NEW v \in Words
  PROVE  LET z == push16(y, v)
         IN  /\ Pushed(z, x, 2 * (k + 1))
             /\ StackWord(z, Below(x, 2 * (k + 1))) = v
             /\ \A o \in Evens \ {Below(x, 2 * (k + 1))} : StackWord(z, o) = StackWord(y, o)
<1> DEFINE z == push16(y, v)
           n == 2 * k
           sp == Below(x, n + 2)
           s == x.s[SS] * 16
<1>1. n \in 0..40 /\ n + 2 = 2 * (k + 1) /\ n \in Nat
  OBVIOUS
<1> HIDE DEF n
<1>2. /\ MachineOK(y) /\ StackInRAM(y) /\ Rest(y, x) /\ y.s = x.s
      /\ y.r = [x.r EXCEPT ![SP] = Below(x, n)]
      /\ \A b : b \notin Frame(x, n) => cell(y, b) = cell(x, b)
  BY DEF Pushed, n
<1>3. x.r[SP] \in Words /\ x.s[SS] \in Nat
  BY Parts, Names, Numbers8
<1>4. Below(y, 2) = sp
  <2>1. y.r[SP] = Lower(x.r[SP], n)
    BY <1>2, Parts, Names DEF Below
  <2>2. n \in 0..100 /\ 2 \in 0..100
    BY <1>1, SMTT(30)
  <2>3. Lower(Lower(x.r[SP], n), 2) = Lower(x.r[SP], n + 2)
    BY <1>3, <2>2, Deeper
  <2> QED
    BY <2>1, <2>3 DEF Below
<1>5. sp + 1 = Below(x, n + 1) /\ sp \in Nat
  <2>1. sp \in Evens
    BY <1>1, BelowEven
  <2>2. (sp + 1) % Word = sp + 1 /\ sp \in Nat
    BY <2>1, EvenOffsets
  <2>3. n + 2 \in 2..100 /\ n + 2 - 1 = n + 1
    BY <1>1
  <2> DEFINE p == n + 2
             o == x.r[SP]
  <2>4. p \in 2..100 /\ o \in Words
    BY <1>3, <2>3
  <2> HIDE DEF p, o
  <2>5. (Lower(o, p) + 1) % Word = Lower(o, p - 1)
    BY <2>4, Higher
  <2>6. p - 1 = n + 1
    BY <1>1 DEF p
  <2>7. sp = Lower(o, p)
    BY DEF o, p, Below
  <2> QED
    BY <2>2, <2>5, <2>6, <2>7 DEF Below, o
<1>6. /\ MachineOK(z) /\ StackInRAM(z) /\ Rest(z, y) /\ z.s = y.s /\ z.ip = y.ip
      /\ z.r = [y.r EXCEPT ![SP] = sp] /\ z.over = y.over /\ z.seg = y.seg
      /\ \A b : cell(z, b) = CASE b = s + sp -> v % Byte
                               [] b = s + sp + 1 -> v \div Byte
                               [] OTHER -> cell(y, b)
  BY <1>2, <1>4, PushParts
<1>7. /\ StackWord(z, sp) = v
      /\ \A o \in Evens \ {sp} : StackWord(z, o) = StackWord(y, o)
  BY <1>2, <1>4, PushWord
<1> HIDE DEF z, sp, s
<1>8. /\ Frame(x, n) \subseteq Frame(x, n + 2)
      /\ s + sp \in Frame(x, n + 2) /\ s + sp + 1 \in Frame(x, n + 2)
  <2>1. 1..n \subseteq 1..(n + 2) /\ n + 2 \in 1..(n + 2) /\ n + 1 \in 1..(n + 2)
    BY <1>1
  <2>2. s + sp + 1 = s + (sp + 1)
    BY <1>3, <1>5 DEF s
  <2>3. s + sp = x.s[SS] * 16 + Below(x, n + 2)
    BY DEF s, sp
  <2>4. s + sp + 1 = x.s[SS] * 16 + Below(x, n + 1)
    BY <1>5, <2>2 DEF s
  <2> QED
    BY <2>1, <2>3, <2>4 DEF Frame
<1>9. ASSUME NEW b, b \notin Frame(x, n + 2)
      PROVE  cell(z, b) = cell(x, b)
  <2>1. b # s + sp /\ b # s + sp + 1 /\ b \notin Frame(x, n)
    BY <1>8, <1>9
  <2> QED
    BY <1>2, <1>6, <2>1
<1>10. z.r = [x.r EXCEPT ![SP] = sp]
  BY <1>2, <1>6
<1>11. Pushed(z, x, n + 2)
  BY <1>2, <1>6, <1>9, <1>10 DEF Pushed, Rest, sp
<1> QED
  BY <1>1, <1>7, <1>11 DEF z, sp

\* The words of a frame are different ones.
LEMMA Apart ==
  ASSUME NEW x, MachineOK(x), StackInRAM(x), NEW n \in 0..20, NEW k \in 0..20, n # k
  PROVE  Below(x, 2 * n) \in Evens \ {Below(x, 2 * k)}
<1>1. 2 * n \in 0..100 /\ 2 * k \in 0..100 /\ 2 * n # 2 * k /\ n \in 0..32
  OBVIOUS
<1>2. x.r[SP] \in Words
  BY Parts, Names
<1>3. Below(x, 2 * n) # Below(x, 2 * k)
  <2> DEFINE p == 2 * n
             q == 2 * k
  <2>1. p \in 0..100 /\ q \in 0..100 /\ p # q
    BY <1>1, SMTT(30)
  <2> HIDE DEF p, q
  <2>2. Lower(x.r[SP], p) # Lower(x.r[SP], q)
    BY <1>2, <2>1, DepthsApart
  <2> QED
    BY <2>2 DEF Below, p, q
<1> QED
  BY <1>1, <1>3, BelowEven

\* Between the data of the BIOS and the ROM there is no vector.
LEMMA FrameInRAM ==
  ASSUME NEW x, MachineOK(x), StackInRAM(x), NEW n \in Nat, NEW b \in Frame(x, n)
  PROVE  b \in Nat /\ 1280 <= b /\ b < 15 * Word
<1>1. PICK i \in 1..n : b = x.s[SS] * 16 + Below(x, i)
  BY DEF Frame
<1>2. x.s[SS] \in Nat /\ x.r[SP] \in Int
  BY Parts, Names, Numbers8
<1>3. Below(x, i) \in Nat /\ Below(x, i) < Word
  <2>1. x.r[SP] - i \in Int
    BY <1>2
  <2>2. Below(x, i) \in Words
    BY <2>1, ByteFacts DEF Below, Lower
  <2> QED
    BY <2>2, Numbers8
<1>4. 80 <= x.s[SS] /\ x.s[SS] * 16 + Word <= 15 * Word
  BY DEF StackInRAM
<1> QED
  BY <1>1, <1>2, <1>3, <1>4, Sizes

\* A pop reads the word at the stack pointer and changes nothing in memory.
LEMMA PopParts ==
  ASSUME NEW x, MachineOK(x)
  PROVE  /\ Top(x) = StackWord(x, x.r[SP])
         /\ Drop(x) = [x EXCEPT !.r[SP] = (x.r[SP] + 2) % Word]
         /\ MachineOK(Drop(x)) /\ Drop(x).s = x.s /\ Drop(x).mem = x.mem
         /\ Drop(x).ip = x.ip /\ Drop(x).f = x.f /\ Rest(Drop(x), x)
         /\ Drop(x).r = [x.r EXCEPT ![SP] = (x.r[SP] + 2) % Word]
<1>1. Top(x) = StackWord(x, x.r[SP])
  BY DEF Top, StackWord, Linear
<1>2. Drop(x) = [x EXCEPT !.r[SP] = (x.r[SP] + 2) % Word]
  BY DEF Drop, Add
<1>3. MachineOK(Drop(x))
  <2>1. 2 \in Int
    OBVIOUS
  <2> QED
    BY <2>1, AddOK, Names DEF Drop
<1> QED
  BY <1>1, <1>2, <1>3, Fields DEF MachineOK, Rest

LEMMA PopIPIs ==
  ASSUME NEW x, MachineOK(x)
  PROVE  PopIP(x) = [x EXCEPT !.r[SP] = (x.r[SP] + 2) % Word, !.ip = StackWord(x, x.r[SP])]
<1>1. Top(x) = StackWord(x, x.r[SP]) /\ Drop(x) = [x EXCEPT !.r[SP] = (x.r[SP] + 2) % Word]
  BY PopParts
<1> QED
  BY <1>1, Fields DEF PopIP, MachineOK

LEMMA PopSIs ==
  ASSUME NEW x, MachineOK(x), NEW i \in 0..5
  PROVE  PopS(x, i) = [x EXCEPT !.r[SP] = (x.r[SP] + 2) % Word, !.s[i] = StackWord(x, x.r[SP])]
<1>1. Top(x) = StackWord(x, x.r[SP]) /\ Drop(x) = [x EXCEPT !.r[SP] = (x.r[SP] + 2) % Word]
  BY PopParts
<1> QED
  BY <1>1, Fields DEF PopS, MachineOK

LEMMA PopRIs ==
  ASSUME NEW x, MachineOK(x), NEW i \in 0..7
  PROVE  PopR(x, i) = [x EXCEPT !.r[SP] = (x.r[SP] + 2) % Word, !.r[i] = StackWord(x, x.r[SP])]
<1>1. Top(x) = StackWord(x, x.r[SP]) /\ Drop(x) = [x EXCEPT !.r[SP] = (x.r[SP] + 2) % Word]
  BY PopParts
<1> QED
  BY <1>1, Fields DEF PopR, MachineOK

\* The frame of an interrupt holds flags, cs and ip; only the frame is written,
\* and the vector is read, which a frame cannot overwrite.
Framed(y, x, n) ==
  /\ MachineOK(y) /\ StackInRAM(y)
  /\ StackWord(y, Below(x, 2)) = makeflags(x.f)
  /\ StackWord(y, Below(x, 4)) = x.s[CS]
  /\ StackWord(y, Below(x, 6)) = x.ip
  /\ y.r = [x.r EXCEPT ![SP] = Below(x, 6)]
  /\ y.s = [x.s EXCEPT ![CS] = Read16Unsafe(x, 4 * n + 2)]
  /\ y.ip = Read16Unsafe(x, 4 * n)
  /\ y.f = [x.f EXCEPT !.ifl = 0, !.tf = 0]
  /\ y.h = x.h /\ y.hlt = x.hlt /\ y.exited = x.exited /\ y.ports = x.ports
  /\ \A b : b \notin Frame(x, 6) => cell(y, b) = cell(x, b)

LEMMA IntFrame ==
  ASSUME NEW x, MachineOK(x), StackInRAM(x), NEW n \in Octets
  PROVE  Framed(intcall86(x, n), x, n)
<1> DEFINE y == intcall86(x, n)
<1> DEFINE v1 == makeflags(x.f)
           a == push16(x, v1)
           b == push16(a, x.s[CS])
           c == push16(b, x.ip)
           seg == Read16Unsafe(c, 4 * n + 2)
           off == Read16Unsafe(c, 4 * n)
<1>1. y = [c EXCEPT !.s[CS] = seg, !.ip = off, !.f.ifl = 0, !.f.tf = 0]
  BY DEF intcall86
<1> HIDE DEF y
<1>2. v1 \in Words /\ x.s[CS] \in Words /\ x.ip \in Words
  BY Parts, MadeOK, Names
<1>3. Pushed(x, x, 2 * 0) /\ 0 \in 0..20 /\ 1 \in 0..20 /\ 2 \in 0..20 /\ 3 \in 0..20
  BY PushedNothing
<1>4. 2 * (0 + 1) = 2 /\ 2 * (1 + 1) = 4 /\ 2 * (2 + 1) = 6 /\ 2 * 1 = 2 /\ 2 * 2 = 4 /\ 2 * 3 = 6
  OBVIOUS
<1> HIDE DEF v1
<1>5. Pushed(a, x, 2 * 1) /\ StackWord(a, Below(x, 2 * 1)) = v1
  BY <1>2, <1>3, <1>4, PushMore
<1> HIDE DEF a
<1>6. /\ Pushed(b, x, 2 * 2) /\ StackWord(b, Below(x, 2 * 2)) = x.s[CS]
      /\ \A o \in Evens \ {Below(x, 2 * 2)} : StackWord(b, o) = StackWord(a, o)
  BY <1>2, <1>3, <1>4, <1>5, PushMore
<1> HIDE DEF b
<1>7. /\ Pushed(c, x, 2 * 3) /\ StackWord(c, Below(x, 2 * 3)) = x.ip
      /\ \A o \in Evens \ {Below(x, 2 * 3)} : StackWord(c, o) = StackWord(b, o)
  BY <1>2, <1>3, <1>4, <1>6, PushMore
<1> HIDE DEF c
<1>8. /\ Below(x, 2 * 1) \in Evens \ {Below(x, 2 * 2)}
      /\ Below(x, 2 * 1) \in Evens \ {Below(x, 2 * 3)}
      /\ Below(x, 2 * 2) \in Evens \ {Below(x, 2 * 3)}
  <2>1. 1 # 2 /\ 1 # 3 /\ 2 # 3
    OBVIOUS
  <2> QED
    BY <1>3, <2>1, Apart
<1>9. /\ StackWord(c, Below(x, 2)) = v1 /\ StackWord(c, Below(x, 4)) = x.s[CS]
      /\ StackWord(c, Below(x, 6)) = x.ip
  BY <1>4, <1>5, <1>6, <1>7, <1>8
<1>10. /\ MachineOK(c) /\ StackInRAM(c) /\ Rest(c, x)
       /\ c.r = [x.r EXCEPT ![SP] = Below(x, 6)] /\ c.s = x.s
       /\ \A p : p \notin Frame(x, 6) => cell(c, p) = cell(x, p)
  BY <1>4, <1>7 DEF Pushed
<1>11. seg = Read16Unsafe(x, 4 * n + 2) /\ off = Read16Unsafe(x, 4 * n)
  <2>1. n \in Nat /\ n < 256
    BY DEF Octets, Byte
  <2>2. \A p : p \in Nat /\ p < 1280 => p \notin Frame(x, 6)
    <3>1. 6 \in Nat
      OBVIOUS
    <3> QED
      BY <3>1, FrameInRAM
  <2>3. \A p : p \in Nat /\ p < 1280 => cell(c, p) = cell(x, p)
    BY <1>10, <2>2
  <2>4. /\ 4 * n \in Nat /\ 4 * n < 1280 /\ 4 * n + 1 \in Nat /\ 4 * n + 1 < 1280
        /\ 4 * n + 2 \in Nat /\ 4 * n + 2 < 1280 /\ 4 * n + 2 + 1 \in Nat /\ 4 * n + 2 + 1 < 1280
    BY <2>1
  <2> QED
    BY <2>3, <2>4 DEF Read16Unsafe
<1> HIDE DEF seg, off
<1>12. /\ y.r = c.r /\ y.s = [c.s EXCEPT ![CS] = seg] /\ y.ip = off
       /\ y.f = [c.f EXCEPT !.ifl = 0, !.tf = 0] /\ y.mem = c.mem
       /\ y.h = c.h /\ y.hlt = c.hlt /\ y.exited = c.exited /\ y.ports = c.ports
  BY <1>1, <1>10, Fields DEF MachineOK
<1>13. y.s[SS] = c.s[SS]
  BY <1>10, <1>12, Parts, Names DEF CS, SS
<1>14. MachineOK(y)
  BY IntCallOK DEF y
<1>15. StackInRAM(y)
  BY <1>10, <1>12, <1>13 DEF StackInRAM
<1>16. \A o : StackWord(y, o) = StackWord(c, o)
  BY <1>12, <1>13 DEF StackWord, Read16Unsafe, cell
<1>17. \A p : cell(y, p) = cell(c, p)
  BY <1>12 DEF cell
<1> QED
  BY <1>9, <1>10, <1>11, <1>12, <1>14, <1>15, <1>16, <1>17 DEF Rest, v1, y, Framed

\* IRET pops ip, cs and the flags.
NextWord(o) == (o + 2) % Word

LEMMA IretPops ==
  ASSUME NEW z, MachineOK(z)
  PROVE  LET o4 == NextWord(z.r[SP])
             o2 == NextWord(o4)
         IN  Iret(z) = [z EXCEPT !.r[SP] = NextWord(o2), !.s[CS] = StackWord(z, o4),
                                 !.ip = StackWord(z, z.r[SP]),
                                 !.f = decodeflags(StackWord(z, o2))]
<1> DEFINE o4 == NextWord(z.r[SP])
           o2 == NextWord(o4)
           o0 == NextWord(o2)
<1>0. o4 = (z.r[SP] + 2) % Word /\ o2 = (o4 + 2) % Word /\ o0 = (o2 + 2) % Word
  BY DEF NextWord
<1> HIDE DEF o4, o2, o0
<1> DEFINE v == StackWord(z, z.r[SP])
           seg == StackWord(z, o4)
           f == decodeflags(StackWord(z, o2))
           a == PopIP(z)
           b == PopS(a, CS)
<1>1. a = [z EXCEPT !.r[SP] = o4, !.ip = v] /\ MachineOK(a)
  <2>1. a = [z EXCEPT !.r[SP] = o4, !.ip = v]
    BY <1>0, PopIPIs, Zenon DEF v
  <2> QED
    BY <2>1, PopOK
<1> HIDE DEF a, v
<1>2. a.r = [z.r EXCEPT ![SP] = o4] /\ a.s = z.s /\ a.mem = z.mem /\ a.ip = v
  BY <1>1, Fields DEF MachineOK
<1>3. a.r[SP] = o4 /\ \A o : StackWord(a, o) = StackWord(z, o)
  BY <1>2, Parts, Names DEF StackWord, Read16Unsafe, cell
<1>4. o2 = (a.r[SP] + 2) % Word /\ seg = StackWord(a, a.r[SP]) /\ CS \in 0..5
  BY <1>0, <1>3, Names DEF seg
<1>5. b = [a EXCEPT !.r[SP] = o2, !.s[CS] = seg]
  <2> HIDE DEF b, seg
  <2>1. PopS(a, CS) = [a EXCEPT !.r[SP] = (a.r[SP] + 2) % Word, !.s[CS] = StackWord(a, a.r[SP])]
    BY <1>1, <1>4, PopSIs, Zenon
  <2> QED
    BY <1>4, <2>1, Zenon DEF b
<1>6. MachineOK(b)
  BY <1>1, <1>4, PopOK
<1> HIDE DEF b, seg
<1>7. b.r = [a.r EXCEPT ![SP] = o2] /\ b.s = [a.s EXCEPT ![CS] = seg] /\ b.mem = a.mem
  BY <1>1, <1>5, Fields DEF MachineOK
<1>8. b.r[SP] = o2 /\ \A o : StackWord(b, o) = StackWord(z, o)
  <2>1. b.s[SS] = a.s[SS]
    BY <1>1, <1>7, Parts, Names DEF CS, SS
  <2>2. b.r[SP] = o2
    BY <1>1, <1>7, Parts, Names
  <2> QED
    BY <1>3, <1>7, <2>1, <2>2 DEF StackWord, Read16Unsafe, cell
<1>9. Top(b) = StackWord(z, o2) /\ Drop(b) = [b EXCEPT !.r[SP] = o0]
  BY <1>0, <1>6, <1>8, PopParts
<1>10. Iret(z) = [[b EXCEPT !.r[SP] = o0] EXCEPT !.f = f]
  BY <1>9 DEF Iret, SetF, a, b
<1> HIDE DEF f
<1>11. b = [z EXCEPT !.r[SP] = o2, !.ip = v, !.s[CS] = seg]
  BY <1>1, <1>5, Fields, Parts, Names, ZenonT(40) DEF MachineOK
<1>12. [[b EXCEPT !.r[SP] = o0] EXCEPT !.f = f]
         = [z EXCEPT !.r[SP] = o0, !.s[CS] = seg, !.ip = v, !.f = f]
  <2> DEFINE c == [b EXCEPT !.r[SP] = o0]
             regs == [z.r EXCEPT ![SP] = o0]
  <2>1. c = [z EXCEPT !.r = regs, !.ip = v, !.s[CS] = seg]
    <3>1. regs = [b.r EXCEPT ![SP] = o0]
      BY <1>11, Fields, Parts, Names DEF MachineOK
    <3>2. c = [b EXCEPT !.r = regs]
      BY <3>1
    <3> HIDE DEF regs
    <3> QED
      BY <1>11, <3>2, Fields DEF MachineOK
  <2> HIDE DEF c, regs
  <2>2. [c EXCEPT !.f = f] = [z EXCEPT !.r = regs, !.s[CS] = seg, !.ip = v, !.f = f]
    BY <2>1, Fields DEF MachineOK
  <2> QED
    BY <2>2 DEF c, regs
<1> QED
  BY <1>10, <1>12 DEF v, seg, f, o4, o2, o0

\* The offsets of a frame, from its lowest word upwards.
LEMMA FrameOffsets ==
  ASSUME NEW x, MachineOK(x)
  PROVE  /\ (Below(x, 6) + 2) % Word = Below(x, 4) /\ (Below(x, 4) + 2) % Word = Below(x, 2)
         /\ (Below(x, 2) + 2) % Word = x.r[SP]
<1>1. x.r[SP] \in Words
  BY Parts, Names
<1>2. Below(x, 0) = x.r[SP]
  <2>1. x.r[SP] - 0 = x.r[SP] /\ 0 <= x.r[SP] /\ 0 < Word /\ 0 \in Nat
    BY <1>1, Numbers8, Sizes
  <2> QED
    BY <1>1, <2>1, Down DEF Below, Lower
<1>3. 6 \in 2..100 /\ 4 \in 2..100 /\ 2 \in 2..100 /\ 6 - 2 = 4 /\ 4 - 2 = 2 /\ 2 - 2 = 0
  OBVIOUS
<1> QED
  BY <1>1, <1>2, <1>3, Higher DEF Below

\* The flags of a program without AC, and with an overflow flag of one bit.
LEMMA FlagsOfPrograms ==
  ASSUME NEW x, MachineOK(x), x.f.ac = 0, x.f.of \in 0..1
  PROVE  decodeflags(makeflags(x.f)) = x.f
<1>1. x.f \in Flags
  BY Parts
<1>2. ASSUME NEW b \in FlagNames
      PROVE  x.f[b] \in 0..3 /\ (b = "iopl" \/ x.f[b] < 2)
  <2>1. CASE b = "iopl"
    BY <1>1, <2>1 DEF Flags
  <2>2. CASE b = "of"
    BY <2>2
  <2>3. CASE b \notin {"iopl", "of"}
    BY <1>1, <2>3 DEF Flags
  <2> QED
    BY <2>1, <2>2, <2>3
<1>3. x.f \in [FlagNames -> Octets]
  BY <1>1 DEF Flags
<1>4. /\ x.f \in [FlagNames -> 0..3]
      /\ \A b \in FlagNames : b = "iopl" \/ x.f[b] < 2
  BY <1>2, <1>3
<1> QED
  BY <1>4, FlagsSurviveTheStack

Keeps(z, y, addresses) == \A i \in addresses : cell(z, i) = cell(y, i)

\* The two bytes of a word belong to the frame it is in.
LEMMA WordInFrame ==
  ASSUME NEW x, MachineOK(x), StackInRAM(x), NEW i \in Nat, 1 <= i, i <= 20, NEW n \in Nat, 2 * i <= n
  PROVE  /\ x.s[SS] * 16 + Below(x, 2 * i) \in Frame(x, n)
         /\ x.s[SS] * 16 + Below(x, 2 * i) + 1 \in Frame(x, n)
<1> DEFINE o == Below(x, 2 * i)
           s == x.s[SS] * 16
           p == 2 * i
<1>1. p \in 2..100 /\ p \in 1..n /\ p - 1 \in 1..n /\ i \in 0..32 /\ x.r[SP] \in Words
  BY Parts, Names
<1>2. s + o \in Frame(x, n)
  BY <1>1 DEF Frame
<1>3. o \in Evens
  BY <1>1, BelowEven
<1> HIDE DEF p
<1>4. (o + 1) % Word = Below(x, p - 1)
  BY <1>1, Higher DEF Below, p
<1>5. (o + 1) % Word = o + 1
  BY <1>3, EvenOffsets
<1>6. s + o + 1 = s + (o + 1)
  <2>1. o \in Nat /\ x.s[SS] \in Nat
    BY <1>3, EvenOffsets, Parts, Names, Numbers8
  <2> HIDE DEF o
  <2> QED
    BY <2>1
<1> HIDE DEF o
<1>7. s + o + 1 = s + Below(x, p - 1)
  BY <1>4, <1>5, <1>6
<1>8. s + o + 1 \in Frame(x, n)
  BY <1>1, <1>7 DEF Frame
<1> QED
  BY <1>2, <1>8 DEF o

\* The offset of the i-th word below the stack pointer.
Slot(x, i) == Below(x, 2 * i)

LEMMA WordsKept ==
  ASSUME NEW x, MachineOK(x), StackInRAM(x), NEW i \in Nat, 1 <= i, i <= 20, NEW n \in Nat, 2 * i <= n,
         NEW y, y.s[SS] = x.s[SS], NEW z, z.s[SS] = x.s[SS], Keeps(z, y, Frame(x, n))
  PROVE  StackWord(z, Slot(x, i)) = StackWord(y, Slot(x, i))
<1> DEFINE o == Below(x, 2 * i)
           s == x.s[SS] * 16
<1>1. s + o \in Frame(x, n) /\ s + o + 1 \in Frame(x, n)
  BY WordInFrame
<1> HIDE DEF o, s
<1>2. cell(z, s + o) = cell(y, s + o) /\ cell(z, s + o + 1) = cell(y, s + o + 1)
  BY <1>1 DEF Keeps
<1>3. z.s[SS] * 16 = s /\ y.s[SS] * 16 = s
  BY DEF s
<1>4. StackWord(z, o) = StackWord(y, o)
  BY <1>2, <1>3 DEF StackWord, Read16Unsafe
<1> QED
  BY <1>4 DEF o, Slot

\* A frame below another one lies apart from it.
LEMMA BelowAgain ==
  ASSUME NEW x, MachineOK(x), NEW k \in Nat, k <= 50, NEW n \in Nat, n <= 50,
         NEW y, y.r[SP] = Below(x, k)
  PROVE  Below(y, n) = Below(x, k + n)
<1>1. x.r[SP] \in Words /\ k \in 0..100 /\ n \in 0..100
  BY Parts, Names, SMTT(30)
<1>2. Lower(Lower(x.r[SP], k), n) = Lower(x.r[SP], k + n)
  BY <1>1, Deeper
<1> QED
  BY <1>2 DEF Below

LEMMA FrameDeeper ==
  ASSUME NEW x, MachineOK(x), NEW k \in Nat, k <= 50, NEW n \in Nat, n <= 50,
         NEW y, y.r[SP] = Below(x, k), y.s[SS] = x.s[SS]
  PROVE  Frame(y, n) \subseteq Frame(x, k + n) /\ Frame(y, n) \cap Frame(x, k) = {}
<1> SUFFICES ASSUME NEW b \in Frame(y, n)
             PROVE  b \in Frame(x, k + n) /\ b \notin Frame(x, k)
  OBVIOUS
<1> DEFINE s == x.s[SS] * 16
<1>1. PICK i \in 1..n : b = s + Below(y, i)
  BY DEF Frame
<1>2. i \in Nat /\ i <= 50 /\ k + i \in 1..(k + n) /\ k + i \in 0..100 /\ ~(k + i <= k)
  OBVIOUS
<1>3. Below(y, i) = Below(x, k + i)
  BY <1>2, BelowAgain
<1>4. b \in Frame(x, k + n)
  BY <1>1, <1>2, <1>3 DEF Frame
<1>5. ASSUME b \in Frame(x, k)
      PROVE  FALSE
  <2>1. PICK l \in 1..k : b = s + Below(x, l)
    BY <1>5 DEF Frame
  <2>2. x.r[SP] \in Words /\ s \in Nat /\ l \in 0..100
    BY Parts, Names, Numbers8
  <2> DEFINE e == k + i
             p == Below(x, e)
             q == Below(x, l)
  <2>3. e \in 0..100 /\ l \in 0..100 /\ e # l
    BY <1>2, <2>2, SMTT(30)
  <2>4. p # q
    <3> HIDE DEF e
    <3> QED
      BY <2>2, <2>3, DepthsApart DEF Below
  <2>5. p \in Nat /\ q \in Nat
    <3> HIDE DEF e
    <3>1. x.r[SP] - e \in Int /\ x.r[SP] - l \in Int
      BY <2>2, <2>3, Numbers8
    <3>2. p \in Words /\ q \in Words
      BY <3>1, ByteFacts DEF Below, Lower
    <3> QED
      BY <3>2, Numbers8
  <2>6. s + p = s + q
    BY <1>1, <1>3, <2>1
  <2> HIDE DEF p, q, s
  <2> QED
    BY <2>2, <2>4, <2>5, <2>6
<1> QED
  BY <1>4, <1>5

\* A program in RAM whose flags fit into the word that is pushed.
Interruptible(x) == MachineOK(x) /\ StackInRAM(x) /\ x.f.ac = 0 /\ x.f.of \in 0..1

Returned(z, x) == [z EXCEPT !.r[SP] = x.r[SP], !.s[CS] = x.s[CS], !.ip = x.ip, !.f = x.f]

\* IRET on the frame of an interrupt, whatever the handler did to the registers:
\* cs, ip, the stack pointer and all flags are those of the interrupted program,
\* also when the frame lies around the end of the stack segment (cpu.c: push16,
\* pop16, intcall86, IRET).
THEOREM FramesComeBack ==
  ASSUME NEW x, Interruptible(x), NEW n \in Octets, NEW y, Framed(y, x, n),
         NEW z, MachineOK(z), z.s[SS] = x.s[SS], z.r[SP] = y.r[SP], Keeps(z, y, Frame(x, 6))
  PROVE  Iret(z) = Returned(z, x)
<1>1. /\ StackWord(y, Below(x, 2)) = makeflags(x.f)
      /\ StackWord(y, Below(x, 4)) = x.s[CS]
      /\ StackWord(y, Below(x, 6)) = x.ip
      /\ y.r = [x.r EXCEPT ![SP] = Below(x, 6)]
      /\ y.s = [x.s EXCEPT ![CS] = Read16Unsafe(x, 4 * n + 2)]
      /\ \A i \in Frame(x, 6) : cell(z, i) = cell(y, i)
      /\ MachineOK(x) /\ StackInRAM(x) /\ x.f.ac = 0 /\ x.f.of \in 0..1
  BY DEF Framed, Interruptible, Keeps
<1>2. z.r[SP] = Below(x, 6) /\ z.s[SS] = y.s[SS]
  BY <1>1, Parts, Names DEF CS, SS
<1>3. \A i \in {1, 2, 3} : StackWord(z, Below(x, 2 * i)) = StackWord(y, Below(x, 2 * i))
  <2> SUFFICES ASSUME NEW i \in {1, 2, 3}
               PROVE  StackWord(z, Below(x, 2 * i)) = StackWord(y, Below(x, 2 * i))
    OBVIOUS
  <2> DEFINE e == 6
  <2>1. i \in Nat /\ 1 <= i /\ i <= 20 /\ 2 * i <= e /\ e \in Nat
    OBVIOUS
  <2>2. y.s[SS] = x.s[SS] /\ z.s[SS] = x.s[SS] /\ Keeps(z, y, Frame(x, e))
    BY <1>2
  <2> HIDE DEF e
  <2>3. StackWord(z, Slot(x, i)) = StackWord(y, Slot(x, i))
    <3>1. MachineOK(x) /\ StackInRAM(x)
      BY <1>1
    <3> QED
      BY <2>1, <2>2, <3>1, WordsKept
  <2> QED
    BY <2>3 DEF Slot
<1>4. /\ StackWord(z, Below(x, 2)) = makeflags(x.f)
      /\ StackWord(z, Below(x, 4)) = x.s[CS]
      /\ StackWord(z, z.r[SP]) = x.ip
  <2>1. 2 * 1 = 2 /\ 2 * 2 = 4 /\ 2 * 3 = 6
    OBVIOUS
  <2> QED
    BY <1>1, <1>2, <1>3, <2>1
<1>5. decodeflags(makeflags(x.f)) = x.f
  BY <1>1, FlagsOfPrograms
<1>6. /\ NextWord(z.r[SP]) = Below(x, 4) /\ NextWord(Below(x, 4)) = Below(x, 2)
      /\ NextWord(Below(x, 2)) = x.r[SP]
  BY <1>1, <1>2, FrameOffsets DEF NextWord
<1> DEFINE p6 == z.r[SP]
           p4 == NextWord(p6)
           p2 == NextWord(p4)
<1>7. Iret(z) = [z EXCEPT !.r[SP] = NextWord(p2), !.s[CS] = StackWord(z, p4),
                          !.ip = StackWord(z, p6), !.f = decodeflags(StackWord(z, p2))]
  BY IretPops, Zenon
<1> HIDE DEF p6, p4, p2
<1>8. p4 = Below(x, 4) /\ p2 = Below(x, 2) /\ NextWord(p2) = x.r[SP]
  BY <1>2, <1>6 DEF p6, p4, p2
<1>9. decodeflags(StackWord(z, p2)) = x.f /\ StackWord(z, p4) = x.s[CS] /\ StackWord(z, p6) = x.ip
  BY <1>4, <1>5, <1>8 DEF p6
<1> QED
  BY <1>7, <1>8, <1>9 DEF Returned

-----------------------------------------------------------------------------
\* One instruction without a prefix: ip is behind its opcode, and operands are in
\* the data segment.
Fetch(x) == [x EXCEPT !.ip = (x.ip + 1) % Word, !.over = FALSE, !.seg = x.s[DS]]

LEMMA Fetched ==
  ASSUME NEW x, MachineOK(x)
  PROVE  /\ MachineOK(Fetch(x))
         /\ Fetch(x).r = x.r /\ Fetch(x).s = x.s /\ Fetch(x).mem = x.mem /\ Fetch(x).f = x.f
         /\ Fetch(x).ip = (x.ip + 1) % Word /\ Rest(Fetch(x), x)
<1> DEFINE y == AdvanceIP(x, 1)
<1>1. MachineOK(y)
  <2>1. 1 \in Int
    OBVIOUS
  <2> QED
    BY <2>1, AdvanceOK
<1>2. y = [x EXCEPT !.ip = (x.ip + 1) % Word]
  BY DEF AdvanceIP
<1>3. Fetch(x) = [y EXCEPT !.over = FALSE, !.seg = x.s[DS]]
  BY <1>2, Fields DEF Fetch, MachineOK
<1> HIDE DEF y
<1> DEFINE b == FALSE
           v == x.s[DS]
<1>4. v \in Words /\ b \in BOOLEAN
  BY Parts, Names
<1> HIDE DEF b, v
<1>5. MachineOK(Fetch(x))
  <2>1. MachineOK([y EXCEPT !.over = b, !.seg = v])
    BY <1>1, <1>4, WithSegment, Zenon
  <2> QED
    BY <1>3, <2>1 DEF b, v
<1> QED
  BY <1>5, Fields DEF Fetch, MachineOK, Rest

LEMMA Executes ==
  ASSUME NEW x, MachineOK(x), Code8(x) \notin DOMAIN PrefixOf
  PROVE  Execute(x) = CASE Code8(x) < 64 -> ExecuteLow(Fetch(x), Code8(x))
                        [] Code8(x) \in 64..159 -> ExecuteMiddle(Fetch(x), Code8(x))
                        [] Code8(x) > 159 -> ExecuteHigh(Fetch(x), Code8(x))
<1> DEFINE at(k) == Code8(AdvanceIP(x, k))
           First(k) == ~IsPrefix(x, k) /\ \A i \in 0..k-1 : IsPrefix(x, i)
           n == CHOOSE k \in 0 .. Word - 1 : First(k)
           v == IF n = 0 THEN x.s[DS] ELSE x.s[PrefixOf[at(n - 1)]]
           b == n > 0
           z == SkipPrefixes(x)
<1>1. z = [AdvanceIP(x, n) EXCEPT !.over = b, !.seg = v]
  BY DEF SkipPrefixes
<1>2. AdvanceIP(x, 0) = [x EXCEPT !.ip = x.ip]
  <2>1. x.ip \in Nat /\ x.ip < Word /\ Word \in Nat \ {0}
    BY Parts, Numbers8, Sizes
  <2>2. (x.ip + 0) % Word = x.ip
    <3> DEFINE o == x.ip
    <3> HIDE DEF o
    <3>1. o + 0 = o
      BY <2>1 DEF o
    <3>2. o % Word = o
      BY <2>1, ModSmall DEF o
    <3> QED
      BY <3>1, <3>2 DEF o
  <2> QED
    BY <2>2 DEF AdvanceIP
<1>3. n = 0
  <2>1. ~IsPrefix(x, 0)
    <3> DEFINE y == AdvanceIP(x, 0)
    <3>1. y.s = x.s /\ y.ip = x.ip /\ y.mem = x.mem
      BY <1>2, Fields DEF MachineOK
    <3> HIDE DEF y
    <3>2. Code8(y) = Code8(x)
      BY <3>1 DEF Code8, Linear, cell
    <3> QED
      BY <3>2 DEF IsPrefix, y
  <2>2. 0 \in 0 .. Word - 1 /\ First(0)
    BY <2>1, Sizes
  <2>3. n \in 0 .. Word - 1 /\ First(n)
    BY <2>2
  <2> HIDE DEF n
  <2>4. n # 0 => 0 \in 0 .. n - 1
    BY <2>3, Sizes
  <2> QED
    BY <2>1, <2>3, <2>4
<1> HIDE DEF n, z
<1>4. z = [x EXCEPT !.over = FALSE, !.seg = x.s[DS]]
  <2>1. v = x.s[DS] /\ b = FALSE
    BY <1>3
  <2> HIDE DEF v, b
  <2>2. z = [AdvanceIP(x, 0) EXCEPT !.over = FALSE, !.seg = x.s[DS]]
    BY <1>1, <1>3, <2>1
  <2>3. [[x EXCEPT !.ip = x.ip] EXCEPT !.over = FALSE, !.seg = x.s[DS]]
          = [x EXCEPT !.over = FALSE, !.seg = x.s[DS]]
    BY Fields DEF MachineOK
  <2> QED
    BY <1>2, <2>2, <2>3
<1>5. z.s = x.s /\ z.ip = x.ip /\ z.mem = x.mem
  BY <1>4, Fields DEF MachineOK
<1>6. Code8(z) = Code8(x)
  BY <1>5 DEF Code8, Linear, cell
<1>7. AdvanceIP(z, 1) = Fetch(x)
  BY <1>4, <1>5, Fields DEF AdvanceIP, Fetch, MachineOK
<1> QED
  BY <1>6, <1>7 DEF Execute, z

-----------------------------------------------------------------------------
\* Code in the ROM, and the bytes ROMInit leaves for the timer, the keyboard and
\* INT 1Ch.
ROMSegment == 15 * 4096

LEMMA ROMAddress ==
  ROMSegment \in Nat /\ ROMSegment * 16 = 15 * Word /\ 15 * Word \in Nat /\ 16384 < Word
BY SMT DEF ROMSegment, Word, Byte

ROMInPlace(x) == \A p \in ROM({8, 9, 28}) : \A a \in DOMAIN p : cell(x, a) = p[a]

LEMMA KeyBytes ==
  ASSUME NEW x, ROMInPlace(x)
  PROVE  /\ Read16Unsafe(x, 4 * 9) = 36 /\ Read16Unsafe(x, 4 * 9 + 2) = ROMSegment
         /\ cell(x, 15 * Word + 36) = 99 /\ cell(x, 15 * Word + 37) = 9
         /\ cell(x, 15 * Word + 38) = 207
<1> DEFINE p == At(<<(4 * 9) % Byte, (4 * 9) \div Byte, 0, 240>>, 4 * 9)
           q == At(<<99, 9, 207, 0>>, 983040 + 4 * 9)
<1>1. p \in ROM({8, 9, 28}) /\ q \in ROM({8, 9, 28})
  BY DEF ROM
<1>2. cell(x, 36) = 36 /\ cell(x, 37) = 0 /\ cell(x, 38) = 0 /\ cell(x, 39) = 240
  <2>1. (4 * 9) % Byte = 36 /\ (4 * 9) \div Byte = 0 /\ 4 * 9 = 36
    BY DEF Byte
  <2>2. p = At(<<36, 0, 0, 240>>, 36)
    BY <2>1
  <2> HIDE DEF p
  <2>3. 36 \in DOMAIN p /\ 37 \in DOMAIN p /\ 38 \in DOMAIN p /\ 39 \in DOMAIN p
    BY <2>2 DEF At
  <2>4. p[36] = 36 /\ p[37] = 0 /\ p[38] = 0 /\ p[39] = 240
    BY <2>2 DEF At
  <2> QED
    BY <1>1, <2>3, <2>4 DEF ROMInPlace
<1>3. /\ cell(x, 15 * Word + 36) = 99 /\ cell(x, 15 * Word + 37) = 9
      /\ cell(x, 15 * Word + 38) = 207
  <2> DEFINE a == 15 * Word
  <2>1. 983040 + 4 * 9 = a + 36 /\ a \in Nat
    BY SMT DEF Word, Byte
  <2> HIDE DEF a
  <2>2. q = At(<<99, 9, 207, 0>>, a + 36)
    BY <2>1
  <2> HIDE DEF q
  <2>3. a + 36 \in DOMAIN q /\ a + 37 \in DOMAIN q /\ a + 38 \in DOMAIN q
    BY <2>1, <2>2 DEF At
  <2>4. q[a + 36] = 99 /\ q[a + 37] = 9 /\ q[a + 38] = 207
    BY <2>1, <2>2 DEF At
  <2> QED
    BY <1>1, <2>3, <2>4 DEF ROMInPlace, a
<1>4. Read16Unsafe(x, 36) = 36 /\ Read16Unsafe(x, 38) = 240 * Byte
  <2>1. Byte \in Nat
    BY Sizes
  <2> QED
    BY <1>2, <2>1 DEF Read16Unsafe
<1>5. 240 * Byte = ROMSegment /\ 4 * 9 = 36 /\ 4 * 9 + 2 = 38
  BY SMT DEF ROMSegment, Byte
<1> QED
  BY <1>3, <1>4, <1>5

LEMMA PieceDomain ==
  ASSUME NEW bytes, Len(bytes) \in Nat, NEW a \in Nat, NEW i \in DOMAIN At(bytes, a)
  PROVE  i \in Nat /\ a <= i /\ i < a + Len(bytes)
BY DEF At

\* The ROM and its vectors are where no stack is.
LEMMA ROMOutside ==
  ASSUME NEW p \in ROM({8, 9, 28}), NEW a \in DOMAIN p
  PROVE  a \in Nat /\ (a < 1000 \/ 15 * Word <= a)
<1> DEFINE vector(n) == IF n = 8 THEN At(<<0, 32, 0, 240>>, 32)
                        ELSE At(<<(4 * n) % Byte, (4 * n) \div Byte, 0, 240>>, 4 * n)
           stub(n) == At(<<99, n, 207, 0>>, 983040 + 4 * n)
<1>1. (\E n \in {8, 9, 28} : p = vector(n) \/ p = stub(n)) \/ p = At(TimerStub, 991232)
  BY DEF ROM
<1>2. ASSUME NEW n \in {8, 9, 28}, p = vector(n)
      PROVE  a \in Nat /\ (a < 1000 \/ 15 * Word <= a)
  <2>1. PICK w : Len(w) = 4 /\ p = At(w, 4 * n)
    <3>1. CASE n = 8
      <4>1. 4 * n = 32 /\ Len(<<0, 32, 0, 240>>) = 4
        BY <3>1
      <4> QED
        BY <1>2, <3>1, <4>1
    <3>2. CASE n # 8
      BY <1>2, <3>2
    <3> QED
      BY <3>1, <3>2
  <2>2. 4 * n \in Nat /\ 4 * n < 900
    OBVIOUS
  <2> DEFINE o == 4 * n
  <2> HIDE DEF o
  <2>3. a \in Nat /\ o <= a /\ a < o + Len(w)
    <3>1. Len(w) \in Nat /\ o \in Nat
      BY <2>1, <2>2 DEF o
    <3>2. a \in DOMAIN At(w, o)
      BY <2>1 DEF o
    <3> QED
      BY <3>1, <3>2, PieceDomain
  <2> QED
    BY <2>1, <2>2, <2>3 DEF o
<1>3. ASSUME NEW n \in {8, 9, 28}, p = stub(n)
      PROVE  a \in Nat /\ (a < 1000 \/ 15 * Word <= a)
  <2> DEFINE o == 983040 + 4 * n
             w == <<99, n, 207, 0>>
  <2>1. o \in Nat /\ 15 * Word <= o
    BY SMT DEF Word, Byte
  <2>2. Len(w) \in Nat
    OBVIOUS
  <2>3. p = At(w, o)
    BY <1>3
  <2> HIDE DEF o, w
  <2>4. a \in Nat /\ o <= a
    BY <2>1, <2>2, <2>3, PieceDomain
  <2> QED
    BY <2>1, <2>4, Sizes
<1>4. ASSUME p = At(TimerStub, 991232)
      PROVE  a \in Nat /\ (a < 1000 \/ 15 * Word <= a)
  <2> DEFINE o == 991232
  <2>1. o \in Nat /\ 15 * Word <= o
    BY SMT DEF Word, Byte
  <2>2. Len(TimerStub) \in Nat
    BY DEF TimerStub
  <2>3. p = At(TimerStub, o)
    BY <1>4
  <2> HIDE DEF o
  <2>4. a \in Nat /\ o <= a
    BY <2>1, <2>2, <2>3, PieceDomain
  <2> QED
    BY <2>1, <2>4, Sizes
<1> QED
  BY <1>1, <1>2, <1>3, <1>4

LEMMA ROMKept ==
  ASSUME NEW x, ROMInPlace(x), NEW y,
         \A b \in Nat : b < 1000 \/ 15 * Word <= b => cell(y, b) = cell(x, b)
  PROVE  ROMInPlace(y)
<1> SUFFICES ASSUME NEW p \in ROM({8, 9, 28}), NEW a \in DOMAIN p
             PROVE  cell(y, a) = p[a]
  BY DEF ROMInPlace
<1>1. a \in Nat /\ (a < 1000 \/ 15 * Word <= a)
  BY ROMOutside
<1> QED
  BY <1>1 DEF ROMInPlace

LEMMA ROMStays ==
  ASSUME NEW x, MachineOK(x), StackInRAM(x), ROMInPlace(x), NEW n \in Nat, NEW y,
         \A b : b \notin Frame(x, n) => cell(y, b) = cell(x, b)
  PROVE  ROMInPlace(y)
<1>1. ASSUME NEW a \in Nat, a < 1000 \/ 15 * Word <= a
      PROVE  cell(y, a) = cell(x, a)
  <2>1. a \in Frame(x, n) => 1280 <= a /\ a < 15 * Word
    BY FrameInRAM
  <2>2. 15 * Word \in Nat
    BY ROMAddress
  <2> QED
    BY <1>1, <2>1, <2>2
<1> QED
  BY <1>1, ROMKept

\* Code in the ROM is fetched from there.
LEMMA ROMFetch ==
  ASSUME NEW x, MachineOK(x), x.s[CS] = ROMSegment, NEW i \in Nat, x.ip = i, i < 16000
  PROVE  /\ Code8(x) = cell(x, 15 * Word + i)
         /\ Fetch(x).ip = i + 1 /\ MachineOK(Fetch(x))
         /\ Fetch(x).r = x.r /\ Fetch(x).s = x.s /\ Fetch(x).mem = x.mem
         /\ Fetch(x).f = x.f /\ Rest(Fetch(x), x)
<1>1. Linear(x, CS, x.ip) = 15 * Word + i
  BY ROMAddress DEF Linear
<1>2. (i + 1) % Word = i + 1
  <2>1. i + 1 < Word /\ i + 1 \in Nat
    BY ROMAddress, Sizes
  <2> QED
    BY <2>1, ModSmall, Sizes
<1> QED
  BY <1>1, <1>2, Fetched DEF Code8

\* The machine is at offset i of the ROM, with interrupts off.
AtROM(x, i) ==
  /\ MachineOK(x) /\ x.s[CS] = ROMSegment /\ i \in Nat /\ x.ip = i /\ i < 16000
  /\ x.hlt = FALSE /\ x.f.ifl = 0

\* Only ip and the fields an instruction sets anew have changed.
Moved(y, x, i) ==
  /\ MachineOK(y) /\ y.r = x.r /\ y.s = x.s /\ y.mem = x.mem /\ y.f = x.f
  /\ y.ip = i /\ Rest(y, x)

\* A callback of the ROM that changes nothing.
LEMMA CallbackTurn ==
  ASSUME NEW x, NEW i, AtROM(x, i), cell(x, 15 * Word + i) = 99,
         cell(x, 15 * Word + i + 1) \in {9, 28}, NEW request
  PROVE  Moved(Turn(x, request), x, i + 2)
<1>0. /\ MachineOK(x) /\ x.s[CS] = ROMSegment /\ i \in Nat /\ x.ip = i /\ i < 16000
      /\ ~x.hlt /\ x.f.ifl = 0
  BY DEF AtROM
<1> DEFINE next == Fetch(x)
           y == AdvanceIP(next, 1)
<1>1. Turn(x, request) = Execute(x)
  BY <1>0 DEF Turn, Interrupted, Accepts
<1>2. /\ Code8(x) = 99 /\ next.ip = i + 1 /\ MachineOK(next)
      /\ next.r = x.r /\ next.s = x.s /\ next.mem = x.mem /\ next.f = x.f /\ Rest(next, x)
  BY <1>0, ROMFetch
<1>3. 99 \notin DOMAIN PrefixOf
  BY DEF PrefixOf
<1>4. Execute(x) = ExecuteMiddle(next, 99)
  BY <1>0, <1>2, <1>3, Executes
<1> HIDE DEF next
<1>5. Code8(next) \in {9, 28}
  <2>1. Linear(next, CS, next.ip) = 15 * Word + i + 1
    BY <1>0, <1>2, ROMAddress DEF Linear
  <2>2. \A b : cell(next, b) = cell(x, b)
    BY <1>2 DEF cell
  <2> QED
    BY <2>1, <2>2 DEF Code8
<1>6. ROMExec(next, Code8(next)) = next
  BY <1>5 DEF ROMExec
<1>7. Execute(x) = y
  BY <1>4, <1>6 DEF ExecuteMiddle
<1>8. MachineOK(y)
  <2>1. 1 \in Int
    OBVIOUS
  <2> QED
    BY <1>2, <2>1, AdvanceOK
<1>9. /\ y.r = next.r /\ y.s = next.s /\ y.mem = next.mem /\ y.f = next.f
      /\ y.ip = (next.ip + 1) % Word /\ Rest(y, next)
  BY <1>2, Fields DEF AdvanceIP, MachineOK, Rest
<1>10. (next.ip + 1) % Word = i + 2
  <2>1. i + 2 < Word /\ i + 2 \in Nat /\ next.ip + 1 = i + 2
    BY <1>0, <1>2, ROMAddress, Sizes
  <2> QED
    BY <2>1, ModSmall, Sizes
<1> HIDE DEF y
<1> QED
  BY <1>1, <1>2, <1>7, <1>8, <1>9, <1>10 DEF Rest, Moved

\* IRET of a handler.
LEMMA IretTurn ==
  ASSUME NEW x, NEW i, AtROM(x, i), cell(x, 15 * Word + i) = 207, NEW request
  PROVE  Turn(x, request) = Iret(Fetch(x))
<1>0. /\ MachineOK(x) /\ x.s[CS] = ROMSegment /\ i \in Nat /\ x.ip = i /\ i < 16000
      /\ ~x.hlt /\ x.f.ifl = 0
  BY DEF AtROM
<1>1. Turn(x, request) = Execute(x)
  BY <1>0 DEF Turn, Interrupted, Accepts
<1>2. Code8(x) = 207
  BY <1>0, ROMFetch
<1>3. 207 \notin DOMAIN PrefixOf
  BY DEF PrefixOf
<1>4. Execute(x) = ExecuteHigh(Fetch(x), 207)
  BY <1>0, <1>2, <1>3, Executes
<1>5. ExecuteHigh(Fetch(x), 207) = Iret(Fetch(x))
  BY DEF ExecuteHigh
<1> QED
  BY <1>1, <1>4, <1>5

LEMMA TimerBytes ==
  ASSUME NEW x, ROMInPlace(x)
  PROVE  /\ Read16Unsafe(x, 4 * 8) = 8192 /\ Read16Unsafe(x, 4 * 8 + 2) = ROMSegment
         /\ \A k \in 1..12 : cell(x, 15 * Word + 8191 + k) = TimerStub[k]
         /\ Read16Unsafe(x, 4 * 28) = 112 /\ Read16Unsafe(x, 4 * 28 + 2) = ROMSegment
         /\ cell(x, 15 * Word + 112) = 99 /\ cell(x, 15 * Word + 113) = 28
         /\ cell(x, 15 * Word + 114) = 207
<1> DEFINE p == At(<<0, 32, 0, 240>>, 32)
           q == At(<<(4 * 28) % Byte, (4 * 28) \div Byte, 0, 240>>, 4 * 28)
           t == At(TimerStub, 991232)
           u == At(<<99, 28, 207, 0>>, 983040 + 4 * 28)
           a == 15 * Word
<1>1. p \in ROM({8, 9, 28}) /\ q \in ROM({8, 9, 28}) /\ t \in ROM({8, 9, 28}) /\ u \in ROM({8, 9, 28})
  BY DEF ROM
<1>2. cell(x, 32) = 0 /\ cell(x, 33) = 32 /\ cell(x, 34) = 0 /\ cell(x, 35) = 240
  <2>1. 32 \in DOMAIN p /\ 33 \in DOMAIN p /\ 34 \in DOMAIN p /\ 35 \in DOMAIN p
    BY DEF At
  <2>2. p[32] = 0 /\ p[33] = 32 /\ p[34] = 0 /\ p[35] = 240
    BY DEF At
  <2> HIDE DEF p
  <2> QED
    BY <1>1, <2>1, <2>2 DEF ROMInPlace
<1>3. cell(x, 112) = 112 /\ cell(x, 113) = 0 /\ cell(x, 114) = 0 /\ cell(x, 115) = 240
  <2>1. (4 * 28) % Byte = 112 /\ (4 * 28) \div Byte = 0 /\ 4 * 28 = 112
    BY DEF Byte
  <2>2. q = At(<<112, 0, 0, 240>>, 112)
    BY <2>1
  <2> HIDE DEF q
  <2>3. 112 \in DOMAIN q /\ 113 \in DOMAIN q /\ 114 \in DOMAIN q /\ 115 \in DOMAIN q
    BY <2>2 DEF At
  <2>4. q[112] = 112 /\ q[113] = 0 /\ q[114] = 0 /\ q[115] = 240
    BY <2>2 DEF At
  <2> QED
    BY <1>1, <2>3, <2>4 DEF ROMInPlace
<1>4. a \in Nat /\ 983040 + 4 * 28 = a + 112 /\ 991232 = a + 8192
  BY SMT DEF Word, Byte
<1>5. cell(x, a + 112) = 99 /\ cell(x, a + 113) = 28 /\ cell(x, a + 114) = 207
  <2> HIDE DEF a
  <2>1. u = At(<<99, 28, 207, 0>>, a + 112)
    BY <1>4
  <2> HIDE DEF u
  <2>2. a + 112 \in DOMAIN u /\ a + 113 \in DOMAIN u /\ a + 114 \in DOMAIN u
    BY <1>4, <2>1 DEF At
  <2>3. u[a + 112] = 99 /\ u[a + 113] = 28 /\ u[a + 114] = 207
    BY <1>4, <2>1 DEF At
  <2> QED
    BY <1>1, <2>2, <2>3 DEF ROMInPlace
<1>6. \A k \in 1..12 : cell(x, a + 8191 + k) = TimerStub[k]
  <2> SUFFICES ASSUME NEW k \in 1..12
               PROVE  cell(x, a + 8191 + k) = TimerStub[k]
    OBVIOUS
  <2> HIDE DEF a
  <2>1. Len(TimerStub) = 12
    BY DEF TimerStub
  <2> DEFINE o == a + 8192
  <2>2. t = [i \in o .. o + Len(TimerStub) - 1 |-> TimerStub[i - o + 1]]
    BY <1>4 DEF At
  <2> HIDE DEF t
  <2> DEFINE j == a + 8191 + k
             e == o + Len(TimerStub) - 1
  <2>3. j \in o .. e /\ j - o + 1 = k
    BY <1>4, <2>1
  <2> HIDE DEF j, o, e
  <2>4. j \in DOMAIN t /\ t[j] = TimerStub[j - o + 1]
    BY <2>2, <2>3 DEF e
  <2> QED
    BY <1>1, <2>3, <2>4 DEF ROMInPlace, j
<1>7. /\ Read16Unsafe(x, 32) = 32 * Byte /\ Read16Unsafe(x, 34) = 240 * Byte
      /\ Read16Unsafe(x, 112) = 112 /\ Read16Unsafe(x, 114) = 240 * Byte
  <2>1. Byte \in Nat
    BY Sizes
  <2> QED
    BY <1>2, <1>3, <2>1 DEF Read16Unsafe
<1>8. 240 * Byte = ROMSegment /\ 32 * Byte = 8192
  BY SMT DEF ROMSegment, Byte
<1>9. 4 * 8 = 32 /\ 4 * 8 + 2 = 34 /\ 4 * 28 = 112 /\ 4 * 28 + 2 = 114
  OBVIOUS
<1> QED
  BY <1>5, <1>6, <1>7, <1>8, <1>9

\* Back where the interrupt was taken: what InterruptsInvisible compares is the
\* same but the bytes written below the stack pointer.
Unnoticed(z, x, area) ==
  /\ z.r = x.r /\ z.h = x.h /\ z.s = x.s /\ z.ip = x.ip /\ z.f = x.f
  /\ ~z.hlt /\ z.exited = x.exited /\ z.ports = x.ports
  /\ \A b : b \notin area => cell(z, b) = cell(x, b)

\* A machine woken from HLT.
LEMMA Woken ==
  ASSUME NEW x, MachineOK(x)
  PROVE  LET w == [x EXCEPT !.hlt = FALSE]
         IN  /\ MachineOK(w) /\ w.r = x.r /\ w.h = x.h /\ w.s = x.s /\ w.ip = x.ip
             /\ w.f = x.f /\ w.mem = x.mem /\ w.hlt = FALSE /\ w.exited = x.exited
             /\ w.ports = x.ports
             /\ (StackInRAM(x) => StackInRAM(w)) /\ (ROMInPlace(x) => ROMInPlace(w))
             /\ \A n : Frame(w, n) = Frame(x, n) /\ Below(w, n) = Below(x, n)
<1> DEFINE w == [x EXCEPT !.hlt = FALSE]
<1>1. MachineOK(w)
  <2>1. FALSE \in BOOLEAN
    OBVIOUS
  <2> QED
    BY <2>1, WithHlt
<1>2. /\ w.r = x.r /\ w.h = x.h /\ w.s = x.s /\ w.ip = x.ip
      /\ w.f = x.f /\ w.mem = x.mem /\ w.hlt = FALSE /\ w.exited = x.exited
      /\ w.ports = x.ports
  BY Fields DEF MachineOK
<1> HIDE DEF w
<1>3. StackInRAM(x) => StackInRAM(w)
  BY <1>2 DEF StackInRAM
<1>4. ROMInPlace(x) => ROMInPlace(w)
  BY <1>2 DEF ROMInPlace, cell
<1>5. \A n : Frame(w, n) = Frame(x, n) /\ Below(w, n) = Below(x, n)
  BY <1>2 DEF Frame, Below
<1> QED
  BY <1>1, <1>2, <1>3, <1>4, <1>5 DEF w

LEMMA StubBytes ==
  ASSUME NEW x, ROMInPlace(x), NEW n \in {9, 28}
  PROVE  /\ Read16Unsafe(x, 4 * n) = 4 * n /\ Read16Unsafe(x, 4 * n + 2) = ROMSegment
         /\ cell(x, 15 * Word + 4 * n) = 99 /\ cell(x, 15 * Word + (4 * n + 1)) = n
         /\ cell(x, 15 * Word + (4 * n + 2)) = 207
<1> DEFINE a == 15 * Word
<1>1. CASE n = 9
  <2>1. 4 * n = 36 /\ 4 * n + 1 = 37 /\ 4 * n + 2 = 38 /\ 4 * 9 = 36 /\ 4 * 9 + 2 = 38
    BY <1>1
  <2> HIDE DEF a
  <2> QED
    BY <1>1, <2>1, KeyBytes DEF a
<1>2. CASE n = 28
  <2>1. 4 * n = 112 /\ 4 * n + 1 = 113 /\ 4 * n + 2 = 114 /\ 4 * 28 = 112 /\ 4 * 28 + 2 = 114
    BY <1>2
  <2> HIDE DEF a
  <2> QED
    BY <1>2, <2>1, TimerBytes DEF a
<1> QED
  BY <1>1, <1>2

Awake(x) == x.hlt = FALSE

\* In a handler of the ROM that was entered from x: no request is taken.
Serving(y, x) ==
  y.f.ifl = 0 /\ Awake(y) /\ y.exited = x.exited /\ y.s[CS] = ROMSegment

LEMMA ROMServes ==
  ASSUME NEW y, NEW i, AtROM(y, i), NEW x, y.exited = x.exited
  PROVE  Serving(y, x)
BY DEF AtROM, Awake, Serving

\* A handler that is a callback and IRET, whatever the controller requests meanwhile.
LEMMA StubReturns ==
  ASSUME NEW w, Interruptible(w), ROMInPlace(w), Awake(w), NEW n \in {9, 28},
         NEW q1, NEW q2
  PROVE  LET c == Turn(intcall86(w, n), q1)
             z == Turn(c, q2)
         IN  /\ MachineOK(z) /\ Unnoticed(z, w, Frame(w, 6))
             /\ Serving(intcall86(w, n), w) /\ Serving(c, w)
<1> DEFINE y == intcall86(w, n)
           c == Turn(y, q1)
           d == Fetch(c)
           z == Turn(c, q2)
           i == 4 * n
<1>1. MachineOK(w) /\ StackInRAM(w) /\ w.hlt = FALSE
  BY DEF Interruptible, Awake
<1>2. n \in Octets /\ i \in Nat /\ i < 15000 /\ i + 1 \in Nat
  <2>1. n \in 0 .. 255 /\ i \in Nat /\ i < 15000 /\ i + 1 \in Nat
    OBVIOUS
  <2> QED
    BY <2>1 DEF Octets, Byte
<1>3. Framed(y, w, n)
  BY <1>1, <1>2, IntFrame
<1>4. Read16Unsafe(w, 4 * n) = i /\ Read16Unsafe(w, 4 * n + 2) = ROMSegment
  BY StubBytes
<1> HIDE DEF y
<1>5. /\ MachineOK(y) /\ y.s = [w.s EXCEPT ![CS] = ROMSegment] /\ y.ip = i /\ y.f.ifl = 0
      /\ y.hlt = FALSE /\ y.exited = w.exited /\ y.ports = w.ports /\ y.h = w.h
      /\ y.r = [w.r EXCEPT ![SP] = Below(w, 6)]
      /\ \A b : b \notin Frame(w, 6) => cell(y, b) = cell(w, b)
  <2>1. w.f \in Flags
    BY <1>1, Parts
  <2>2. [w.f EXCEPT !.ifl = 0, !.tf = 0].ifl = 0
    BY <2>1 DEF Flags, FlagNames
  <2> QED
    BY <1>1, <1>3, <1>4, <2>2 DEF Framed
<1>6. y.s[CS] = ROMSegment /\ y.s[SS] = w.s[SS]
  BY <1>1, <1>5, Parts, Names DEF CS, SS
<1>7. ROMInPlace(y)
  <2> DEFINE e == 6
  <2>1. e \in Nat /\ \A b : b \notin Frame(w, e) => cell(y, b) = cell(w, b)
    BY <1>5
  <2> HIDE DEF e
  <2> QED
    BY <1>1, <2>1, ROMStays
<1>8. /\ cell(y, 15 * Word + i) = 99 /\ cell(y, 15 * Word + (i + 1)) \in {9, 28}
      /\ cell(y, 15 * Word + (i + 2)) = 207
  <2> HIDE DEF i
  <2> QED
    BY <1>7, StubBytes DEF i
<1>9. AtROM(y, i)
  <2> HIDE DEF i
  <2> QED
    BY <1>2, <1>5, <1>6 DEF AtROM
<1> HIDE DEF i, c
<1>10. Moved(c, y, i + 2)
  <2>1. cell(y, 15 * Word + i + 1) \in {9, 28}
    <3>1. 15 * Word + i + 1 = 15 * Word + (i + 1)
      BY <1>2, ROMAddress
    <3> QED
      BY <1>8, <3>1
  <2>2. Moved(Turn(y, q1), y, i + 2)
    BY <1>8, <1>9, <2>1, CallbackTurn
  <2> QED
    BY <2>2 DEF c
<1>11. /\ MachineOK(c) /\ c.r = y.r /\ c.s = y.s /\ c.mem = y.mem /\ c.f = y.f
       /\ c.ip = i + 2 /\ Rest(c, y)
  BY <1>10 DEF Moved
<1>20. AtROM(c, i + 2)
  <2> DEFINE l == i + 2
  <2>1. l \in Nat /\ l < 16000
    BY <1>2
  <2> HIDE DEF l
  <2> QED
    BY <1>5, <1>6, <1>11, <2>1 DEF AtROM, Rest, l
<1>12. z = Iret(d)
  <2> DEFINE l == i + 2
  <2>1. cell(c, 15 * Word + l) = 207
    BY <1>8, <1>11 DEF cell
  <2>2. AtROM(c, l)
    BY <1>20
  <2> HIDE DEF l
  <2> QED
    BY <2>1, <2>2, IretTurn
<1>13. /\ MachineOK(d) /\ d.r = c.r /\ d.s = c.s /\ d.mem = c.mem /\ d.f = c.f /\ Rest(d, c)
  BY <1>11, Fetched
<1> HIDE DEF d, z
<1>14. z = Returned(d, w)
  <2>1. d.s[SS] = w.s[SS] /\ d.r[SP] = y.r[SP] /\ MachineOK(d)
    BY <1>6, <1>11, <1>13
  <2>2. Keeps(d, y, Frame(w, 6))
    BY <1>11, <1>13 DEF cell, Keeps
  <2>3. Iret(d) = Returned(d, w)
    BY <1>2, <1>3, <2>1, <2>2, FramesComeBack
  <2> QED
    BY <1>12, <2>3
<1>15. /\ z.r = [d.r EXCEPT ![SP] = w.r[SP]] /\ z.s = [d.s EXCEPT ![CS] = w.s[CS]]
       /\ z.ip = w.ip /\ z.f = w.f /\ z.mem = d.mem /\ z.h = d.h
       /\ z.hlt = d.hlt /\ z.exited = d.exited /\ z.ports = d.ports
  BY <1>13, <1>14, Fields DEF MachineOK, Returned
<1>16. z.r = w.r /\ z.s = w.s
  <2>1. /\ z.r = [[w.r EXCEPT ![SP] = Below(w, 6)] EXCEPT ![SP] = w.r[SP]]
        /\ z.s = [[w.s EXCEPT ![CS] = ROMSegment] EXCEPT ![CS] = w.s[CS]]
    BY <1>5, <1>11, <1>13, <1>15
  <2> QED
    BY <1>1, <2>1, Parts, Names
<1>17. \A b : b \notin Frame(w, 6) => cell(z, b) = cell(w, b)
  BY <1>5, <1>11, <1>13, <1>15 DEF cell
<1>18. /\ z.h = w.h /\ z.ip = w.ip /\ z.f = w.f /\ z.hlt = FALSE /\ z.exited = w.exited
       /\ z.ports = w.ports
  BY <1>5, <1>11, <1>13, <1>15 DEF Rest
<1>19. MachineOK(z)
  <2>1. \A op : MachineOK(Iret(d))
    BY <1>13, ReturnsOK
  <2> QED
    BY <1>12, <2>1
<1>21. Serving(y, w) /\ Serving(c, w)
  <2>1. y.exited = w.exited /\ c.exited = w.exited
    BY <1>5, <1>11 DEF Rest
  <2> QED
    BY <1>9, <1>20, <2>1, ROMServes
<1> QED
  BY <1>16, <1>17, <1>18, <1>19, <1>21 DEF Unnoticed, z, c, y

\* The handler of the keyboard.
LEMMA KeyServed ==
  ASSUME NEW x, Interruptible(x), ROMInPlace(x), x.f.ifl = 1, NEW request
  PROVE  /\ Unnoticed(Turn(Turn(x, 9), request), x, Frame(x, 6))
         /\ Serving(Turn(x, 9), x)
<1> DEFINE w == [x EXCEPT !.hlt = FALSE]
           y == intcall86(w, 9)
           z == Turn(Turn(x, 9), request)
<1>1. /\ w.r = x.r /\ w.h = x.h /\ w.s = x.s /\ w.ip = x.ip
      /\ w.f = x.f /\ w.mem = x.mem /\ w.hlt = FALSE /\ w.exited = x.exited
      /\ w.ports = x.ports /\ ROMInPlace(w) /\ StackInRAM(w) /\ MachineOK(w)
      /\ Frame(w, 6) = Frame(x, 6) /\ Interruptible(w)
  <2>1. MachineOK(x) /\ StackInRAM(x) /\ x.f.ac = 0 /\ x.f.of \in 0..1
    BY DEF Interruptible
  <2>2. /\ MachineOK(w) /\ w.r = x.r /\ w.h = x.h /\ w.s = x.s /\ w.ip = x.ip
        /\ w.f = x.f /\ w.mem = x.mem /\ w.hlt = FALSE /\ w.exited = x.exited
        /\ w.ports = x.ports /\ StackInRAM(w) /\ ROMInPlace(w)
        /\ Frame(w, 6) = Frame(x, 6)
    BY <2>1, Woken
  <2> HIDE DEF w
  <2> QED
    BY <2>1, <2>2 DEF Interruptible
<1>2. Interrupted(x, 9) = y
  BY DEF Interrupted, Accepts
<1> HIDE DEF w
<1>3. Framed(y, w, 9)
  <2> DEFINE n == 9
  <2>1. n \in Octets
    BY Numbers8 DEF Octets, Byte
  <2> HIDE DEF n
  <2>2. Framed(intcall86(w, n), w, n)
    BY <1>1, <2>1, IntFrame
  <2> QED
    BY <2>2 DEF n
<1> HIDE DEF y
<1>4. Turn(x, 9) = Turn(y, 0)
  <2>1. y.hlt = FALSE
    BY <1>1, <1>3 DEF Framed
  <2> QED
    BY <1>2, <2>1 DEF Turn, Interrupted, Accepts
<1>5. Unnoticed(z, w, Frame(w, 6)) /\ Serving(Turn(y, 0), w)
  <2> DEFINE n == 9
  <2>1. n \in {9, 28}
    OBVIOUS
  <2> HIDE DEF n
  <2>2. Awake(w)
    BY <1>1 DEF Awake
  <2>3. /\ Unnoticed(Turn(Turn(intcall86(w, n), 0), request), w, Frame(w, 6))
        /\ Serving(Turn(intcall86(w, n), 0), w)
    BY <1>1, <2>1, <2>2, StubReturns
  <2> QED
    BY <1>4, <2>3 DEF n, y
<1> QED
  BY <1>1, <1>4, <1>5 DEF Unnoticed, cell, Serving

\* An interrupt of the keyboard, taken by any program between two instructions or
\* in HLT: after the callback and IRET of the handler, whatever the controller
\* requests meanwhile, nothing but the three words of its frame has changed
\* (cpu.c: exec86, intcall86, IRET; rom.c: the stub of INT 9).
THEOREM KeyInterruptUnnoticed ==
  ASSUME NEW x, Interruptible(x), ROMInPlace(x), x.f.ifl = 1, NEW request
  PROVE  Unnoticed(Turn(Turn(x, 9), request), x, Frame(x, 6))
BY KeyServed

-----------------------------------------------------------------------------
\* The instructions of the timer's handler: what a turn does at offset i of the ROM.
ROMByte(x, i) == cell(x, 15 * Word + i)

LEMMA ROMTurn ==
  ASSUME NEW x, NEW i, AtROM(x, i), NEW request
  PROVE  Turn(x, request) = Execute(x)
BY DEF AtROM, Turn, Interrupted, Accepts

LEMMA ROMNext ==
  ASSUME NEW x, NEW i, AtROM(x, i)
  PROVE  /\ MachineOK(x) /\ x.f.ifl = 0
         /\ Code8(x) = ROMByte(x, i) /\ Moved(Fetch(x), x, i + 1)
         /\ (i < 15000 => AtROM(Fetch(x), i + 1))
<1>1. /\ MachineOK(x) /\ x.s[CS] = ROMSegment /\ i \in Nat /\ x.ip = i /\ i < 16000
      /\ x.hlt = FALSE /\ x.f.ifl = 0
  BY DEF AtROM
<1>2. /\ Code8(x) = ROMByte(x, i)
      /\ Fetch(x).ip = i + 1 /\ MachineOK(Fetch(x))
      /\ Fetch(x).r = x.r /\ Fetch(x).s = x.s /\ Fetch(x).mem = x.mem
      /\ Fetch(x).f = x.f /\ Rest(Fetch(x), x)
  BY <1>1, ROMFetch DEF ROMByte
<1>3. Fetch(x).hlt = FALSE
  BY <1>1, <1>2 DEF Rest
<1>4. i < 15000 => AtROM(Fetch(x), i + 1)
  <2>1. i < 15000 => i + 1 \in Nat /\ i + 1 < 16000
    BY <1>1
  <2> QED
    BY <1>1, <1>2, <1>3, <2>1 DEF AtROM
<1> QED
  BY <1>1, <1>2, <1>4 DEF Moved

LEMMA PushTurn ==
  ASSUME NEW x, NEW i, AtROM(x, i), NEW k \in {AX, DX}, ROMByte(x, i) = 80 + k, NEW request
  PROVE  Turn(x, request) = push16(Fetch(x), x.r[k])
<1>1. MachineOK(x) /\ k \in {0, 2}
  BY DEF AtROM, AX, DX
<1>2. Code8(x) = 80 + k /\ Turn(x, request) = Execute(x) /\ Fetch(x).r = x.r
  BY ROMTurn, ROMNext DEF Moved
<1>3. 80 + k \notin DOMAIN PrefixOf /\ 80 + k \in 64..159 /\ ~(80 + k < 64)
  BY <1>1 DEF PrefixOf
<1>4. Execute(x) = ExecuteMiddle(Fetch(x), 80 + k)
  BY <1>1, <1>2, <1>3, Executes
<1>5. ExecuteMiddle(Fetch(x), 80 + k) = push16(Fetch(x), Fetch(x).r[k])
  <2>1. 80 + k - 80 = k
    BY <1>1
  <2> DEFINE y == Fetch(x)
  <2> HIDE DEF y
  <2>2. ExecuteMiddle(y, 80 + k) = push16(y, y.r[80 + k - 80])
    BY <1>1 DEF ExecuteMiddle
  <2> QED
    BY <2>1, <2>2 DEF y
<1> QED
  BY <1>2, <1>4, <1>5

LEMMA PushDSTurn ==
  ASSUME NEW x, NEW i, AtROM(x, i), ROMByte(x, i) = 30, NEW request
  PROVE  Turn(x, request) = push16(Fetch(x), x.s[DS])
<1>1. MachineOK(x)
  BY DEF AtROM
<1>2. Code8(x) = 30 /\ Turn(x, request) = Execute(x) /\ Fetch(x).s = x.s
  BY ROMTurn, ROMNext DEF Moved
<1>3. 30 \notin DOMAIN PrefixOf
  BY DEF PrefixOf
<1>4. Execute(x) = ExecuteLow(Fetch(x), 30)
  BY <1>1, <1>2, <1>3, Executes
<1>5. (30 - 6) \div 8 = DS
  BY DEF DS
<1>6. ExecuteLow(Fetch(x), 30) = push16(Fetch(x), Fetch(x).s[DS])
  BY <1>5 DEF ExecuteLow, PushSegment
<1> QED
  BY <1>2, <1>4, <1>6

LEMMA PopDSTurn ==
  ASSUME NEW x, NEW i, AtROM(x, i), ROMByte(x, i) = 31, NEW request
  PROVE  Turn(x, request) = PopS(Fetch(x), DS)
<1>1. MachineOK(x)
  BY DEF AtROM
<1>2. Code8(x) = 31 /\ Turn(x, request) = Execute(x)
  BY ROMTurn, ROMNext DEF Moved
<1>3. 31 \notin DOMAIN PrefixOf
  BY DEF PrefixOf
<1>4. Execute(x) = ExecuteLow(Fetch(x), 31)
  BY <1>1, <1>2, <1>3, Executes
<1>5. (31 - 7) \div 8 = DS
  BY DEF DS
<1>6. ExecuteLow(Fetch(x), 31) = PopS(Fetch(x), DS)
  BY <1>5 DEF ExecuteLow, PopSegment
<1> QED
  BY <1>2, <1>4, <1>6

LEMMA PopTurn ==
  ASSUME NEW x, NEW i, AtROM(x, i), NEW k \in {AX, DX}, ROMByte(x, i) = 88 + k, NEW request
  PROVE  Turn(x, request) = PopR(Fetch(x), k)
<1>1. MachineOK(x) /\ k \in {0, 2}
  BY DEF AtROM, AX, DX
<1>2. Code8(x) = 88 + k /\ Turn(x, request) = Execute(x)
  BY ROMTurn, ROMNext DEF Moved
<1>3. 88 + k \notin DOMAIN PrefixOf /\ 88 + k \in 64..159 /\ ~(88 + k < 64)
  BY <1>1 DEF PrefixOf
<1>4. Execute(x) = ExecuteMiddle(Fetch(x), 88 + k)
  BY <1>1, <1>2, <1>3, Executes
<1>5. ExecuteMiddle(Fetch(x), 88 + k) = PopR(Fetch(x), k)
  <2>1. 88 + k - 88 = k
    BY <1>1
  <2> DEFINE y == Fetch(x)
  <2> HIDE DEF y
  <2>2. ExecuteMiddle(y, 88 + k) = PopR(y, 88 + k - 88)
    BY <1>1 DEF ExecuteMiddle
  <2> QED
    BY <2>1, <2>2 DEF y
<1> QED
  BY <1>2, <1>4, <1>5

\* CLI with interrupts off.
LEMMA CliTurn ==
  ASSUME NEW x, NEW i, AtROM(x, i), i < 15000, ROMByte(x, i) = 250, NEW request
  PROVE  Moved(Turn(x, request), x, i + 1) /\ AtROM(Turn(x, request), i + 1)
<1> DEFINE y == Fetch(x)
           z == Turn(x, request)
<1>1. MachineOK(x) /\ x.f.ifl = 0
  BY DEF AtROM
<1>2. /\ Code8(x) = 250 /\ z = Execute(x) /\ MachineOK(y) /\ y.r = x.r /\ y.s = x.s
      /\ y.mem = x.mem /\ y.f = x.f /\ y.ip = i + 1 /\ Rest(y, x) /\ AtROM(y, i + 1)
  BY ROMTurn, ROMNext DEF Moved
<1>3. 250 \notin DOMAIN PrefixOf
  BY DEF PrefixOf
<1>4. Execute(x) = ExecuteHigh(y, 250)
  BY <1>1, <1>2, <1>3, Executes
<1> HIDE DEF y, z
<1>5. ExecuteHigh(y, 250) = [y EXCEPT !.f.ifl = 250 % 2]
  BY DEF ExecuteHigh, FlagSets
<1>6. z = [y EXCEPT !.f = [y.f EXCEPT !.ifl = 0]]
  <2>1. 250 % 2 = 0
    OBVIOUS
  <2> QED
    BY <1>2, <1>4, <1>5, <2>1
<1>7. [y.f EXCEPT !.ifl = 0] = y.f
  <2>1. y.f \in Flags /\ y.f.ifl = 0
    BY <1>1, <1>2, Parts
  <2>2. y.f \in [FlagNames -> Octets]
    BY <2>1 DEF Flags
  <2> QED
    BY <2>1, <2>2
<1>8. MachineOK(z)
  <2>1. y.f \in Flags
    BY <1>2, Parts
  <2> DEFINE g == y.f
  <2>2. z = [y EXCEPT !.f = g]
    BY <1>6, <1>7
  <2> HIDE DEF g
  <2> QED
    BY <1>2, <2>1, <2>2, WithF DEF g
<1>9. /\ z.r = y.r /\ z.s = y.s /\ z.mem = y.mem /\ z.f = y.f /\ z.ip = y.ip /\ Rest(z, y)
  BY <1>2, <1>6, <1>7, Fields DEF MachineOK, Rest
<1>10. Moved(z, x, i + 1)
  BY <1>2, <1>8, <1>9 DEF Moved, Rest
<1>11. AtROM(z, i + 1)
  BY <1>2, <1>8, <1>9 DEF AtROM, Rest
<1> QED
  BY <1>10, <1>11 DEF z

LEMMA StubCodes ==
  ASSUME NEW x, ROMInPlace(x)
  PROVE  /\ ROMByte(x, 8192) = 99 /\ ROMByte(x, 8193) = 8 /\ ROMByte(x, 8194) = 80
         /\ ROMByte(x, 8195) = 82 /\ ROMByte(x, 8196) = 30 /\ ROMByte(x, 8197) = 205
         /\ ROMByte(x, 8198) = 28 /\ ROMByte(x, 8199) = 250 /\ ROMByte(x, 8200) = 31
         /\ ROMByte(x, 8201) = 90 /\ ROMByte(x, 8202) = 88 /\ ROMByte(x, 8203) = 207
<1>1. \A k \in 1..12 : ROMByte(x, 8191 + k) = TimerStub[k]
  <2>1. \A k \in 1..12 : 15 * Word + 8191 + k = 15 * Word + (8191 + k)
    BY ROMAddress
  <2> QED
    BY <2>1, TimerBytes DEF ROMByte
<1>2. /\ TimerStub[1] = 99 /\ TimerStub[2] = 8 /\ TimerStub[3] = 80 /\ TimerStub[4] = 82
      /\ TimerStub[5] = 30 /\ TimerStub[6] = 205 /\ TimerStub[7] = 28 /\ TimerStub[8] = 250
      /\ TimerStub[9] = 31 /\ TimerStub[10] = 90 /\ TimerStub[11] = 88 /\ TimerStub[12] = 207
  BY DEF TimerStub
<1>3. /\ 8191 + 1 = 8192 /\ 8191 + 2 = 8193 /\ 8191 + 3 = 8194 /\ 8191 + 4 = 8195
      /\ 8191 + 5 = 8196 /\ 8191 + 6 = 8197 /\ 8191 + 7 = 8198 /\ 8191 + 8 = 8199
      /\ 8191 + 9 = 8200 /\ 8191 + 10 = 8201 /\ 8191 + 11 = 8202 /\ 8191 + 12 = 8203
  BY SMT
<1>4. {1, 2, 3, 4, 5, 6, 7, 8, 9, 10, 11, 12} \subseteq 1..12
  OBVIOUS
<1> QED
  BY <1>1, <1>2, <1>3, <1>4

LEMMA PushStage ==
  ASSUME NEW w, MachineOK(w), StackInRAM(w), NEW y, NEW i, AtROM(y, i), i < 15000,
         NEW k \in Nat, k <= 20, Pushed(y, w, 2 * k), NEW v \in Words
  PROVE  LET z == push16(Fetch(y), v)
         IN  /\ AtROM(z, i + 1) /\ Pushed(z, w, 2 * (k + 1))
             /\ StackWord(z, Slot(w, k + 1)) = v
             /\ \A o \in Evens \ {Slot(w, k + 1)} : StackWord(z, o) = StackWord(y, o)
<1> DEFINE next == Fetch(y)
           z == push16(next, v)
           n == 2 * k
           p == 2 * (k + 1)
<1>1. /\ MachineOK(next) /\ next.r = y.r /\ next.s = y.s /\ next.mem = y.mem /\ next.f = y.f
      /\ next.ip = i + 1 /\ Rest(next, y) /\ AtROM(next, i + 1)
  BY ROMNext DEF Moved
<1> HIDE DEF next
<1>2. \A b : cell(next, b) = cell(y, b)
  BY <1>1 DEF cell
<1>3. \A o : StackWord(next, o) = StackWord(y, o)
  BY <1>1 DEF StackWord, Read16Unsafe, cell
<1>4. Pushed(next, w, n)
  BY <1>1, <1>2 DEF Pushed, StackInRAM, Rest
<1>5. /\ Pushed(z, w, p) /\ StackWord(z, Below(w, p)) = v
      /\ \A o \in Evens \ {Below(w, p)} : StackWord(z, o) = StackWord(next, o)
  <2>1. k \in 0..20
    OBVIOUS
  <2> QED
    BY <1>4, <2>1, PushMore
<1>6. /\ z.ip = next.ip /\ z.s = next.s /\ Rest(z, next)
  <2>1. StackInRAM(next)
    BY <1>4 DEF Pushed
  <2> QED
    BY <1>1, <2>1, PushKeeps
<1> HIDE DEF z, n, p
<1>7. AtROM(z, i + 1)
  BY <1>1, <1>5, <1>6 DEF AtROM, Pushed, Rest
<1> QED
  BY <1>3, <1>5, <1>7 DEF z, n, p, next, Slot

LEMMA SlotAbove ==
  ASSUME NEW w, MachineOK(w), NEW k \in Nat, k <= 20
  PROVE  (Slot(w, k + 1) + 2) % Word = Slot(w, k)
<1> DEFINE n == 2 * (k + 1)
<1>1. n \in 2..100 /\ n - 2 = 2 * k /\ w.r[SP] \in Words
  BY Parts, Names
<1> HIDE DEF n
<1>2. (Lower(w.r[SP], n) + 2) % Word = Lower(w.r[SP], n - 2)
  BY <1>1, Higher
<1> QED
  BY <1>1, <1>2 DEF Slot, Below, n

\* z is y after the word at p was popped into register j.
Popped(z, y, i, j, o, p) ==
  /\ AtROM(z, i) /\ z.mem = y.mem /\ z.f = y.f /\ Rest(z, y) /\ z.s = y.s
  /\ z.r = [y.r EXCEPT ![SP] = o, ![j] = StackWord(y, p)]

LEMMA PopStage ==
  ASSUME NEW w, MachineOK(w), NEW k \in Nat, k <= 20, NEW y, NEW i, AtROM(y, i), i < 15000,
         y.r[SP] = Slot(w, k + 1), NEW j \in {AX, DX}
  PROVE  Popped(PopR(Fetch(y), j), y, i + 1, j, Slot(w, k), Slot(w, k + 1))
<1> DEFINE next == Fetch(y)
           z == PopR(next, j)
           v == StackWord(y, Slot(w, k + 1))
<1>1. /\ MachineOK(next) /\ next.r = y.r /\ next.s = y.s /\ next.mem = y.mem /\ next.f = y.f
      /\ next.ip = i + 1 /\ Rest(next, y) /\ AtROM(next, i + 1)
  BY ROMNext DEF Moved
<1> HIDE DEF next
<1>2. StackWord(next, next.r[SP]) = v
  BY <1>1 DEF StackWord, Read16Unsafe, cell
<1>3. (next.r[SP] + 2) % Word = Slot(w, k)
  BY <1>1, SlotAbove
<1> DEFINE d == Drop(next)
<1>4. /\ Top(next) = v /\ MachineOK(d) /\ d.r = [next.r EXCEPT ![SP] = Slot(w, k)] /\ d.s = next.s
      /\ d.mem = next.mem /\ d.f = next.f /\ d.ip = next.ip /\ Rest(d, next)
  BY <1>1, <1>2, <1>3, PopParts
<1> HIDE DEF d, v
<1>5. z = [d EXCEPT !.r = [d.r EXCEPT ![j] = v]]
  BY <1>4 DEF PopR, d
<1>6. MachineOK(z)
  BY <1>1, PopOK, Names
<1> HIDE DEF z, v
<1>7. /\ z.r = [next.r EXCEPT ![SP] = Slot(w, k), ![j] = v] /\ z.s = next.s /\ z.mem = next.mem
      /\ z.f = next.f /\ z.ip = next.ip /\ Rest(z, next)
  BY <1>1, <1>4, <1>5, Fields DEF MachineOK, Rest
<1>8. AtROM(z, i + 1)
  BY <1>1, <1>6, <1>7 DEF AtROM, Rest
<1> QED
  BY <1>1, <1>7, <1>8 DEF z, v, next, Rest, Popped

LEMMA PopDSStage ==
  ASSUME NEW w, MachineOK(w), NEW k \in Nat, k <= 20, NEW y, NEW i, AtROM(y, i), i < 15000,
         y.r[SP] = Slot(w, k + 1)
  PROVE  LET z == PopS(Fetch(y), DS)
         IN  /\ AtROM(z, i + 1) /\ z.mem = y.mem /\ z.f = y.f /\ Rest(z, y)
             /\ z.r = [y.r EXCEPT ![SP] = Slot(w, k)]
             /\ z.s = [y.s EXCEPT ![DS] = StackWord(y, Slot(w, k + 1))]
<1> DEFINE next == Fetch(y)
           z == PopS(next, DS)
           v == StackWord(y, Slot(w, k + 1))
<1>1. /\ MachineOK(next) /\ next.r = y.r /\ next.s = y.s /\ next.mem = y.mem /\ next.f = y.f
      /\ next.ip = i + 1 /\ Rest(next, y) /\ AtROM(next, i + 1)
  BY ROMNext DEF Moved
<1> HIDE DEF next
<1>2. StackWord(next, next.r[SP]) = v
  BY <1>1 DEF StackWord, Read16Unsafe, cell
<1>3. (next.r[SP] + 2) % Word = Slot(w, k)
  BY <1>1, SlotAbove
<1> DEFINE d == Drop(next)
<1>4. /\ Top(next) = v /\ MachineOK(d) /\ d.r = [next.r EXCEPT ![SP] = Slot(w, k)] /\ d.s = next.s
      /\ d.mem = next.mem /\ d.f = next.f /\ d.ip = next.ip /\ Rest(d, next)
  BY <1>1, <1>2, <1>3, PopParts
<1> HIDE DEF d, v
<1>5. z = [d EXCEPT !.s = [d.s EXCEPT ![DS] = v]]
  BY <1>4 DEF PopS, d
<1>6. MachineOK(z)
  BY <1>1, PopOK, Names
<1> HIDE DEF z, v
<1>7. /\ z.r = [next.r EXCEPT ![SP] = Slot(w, k)] /\ z.s = [next.s EXCEPT ![DS] = v]
      /\ z.mem = next.mem /\ z.f = next.f /\ z.ip = next.ip /\ Rest(z, next)
  BY <1>1, <1>4, <1>5, Fields DEF MachineOK, Rest
<1>8. AtROM(z, i + 1)
  <2>1. z.s[CS] = next.s[CS]
    BY <1>1, <1>7, Parts, Names DEF CS, DS
  <2> QED
    BY <1>1, <1>6, <1>7, <2>1 DEF AtROM, Rest
<1> QED
  BY <1>1, <1>7, <1>8 DEF z, v, next, Rest

\* The callback of the timer counts, in a word no stack and no vector shares.
Ticks(x) == Read16Long(x, 64, 108)
Counter == {1132, 1133}

LEMMA CounterApart ==
  ASSUME NEW x, MachineOK(x), StackInRAM(x), NEW n \in Nat
  PROVE  Counter \cap Frame(x, n) = {}
BY FrameInRAM DEF Counter

LEMMA ByteStored ==
  ASSUME NEW x, MachineOK(x), NEW a \in 0 .. Meg - 1, NEW v \in Octets
  PROVE  LET y == Write8(x, a, v)
         IN  /\ MachineOK(y) /\ y.r = x.r /\ y.s = x.s /\ y.f = x.f /\ y.ip = x.ip /\ Rest(y, x)
             /\ \A b : cell(y, b) = IF b = a THEN v ELSE cell(x, b)
<1> DEFINE y == Write8(x, a, v)
<1>1. /\ y = [x EXCEPT !.mem = Put(x.mem, a, v)]
      /\ \A b : cell(y, b) = IF b = a THEN v ELSE cell(x, b)
  BY WriteCell
<1>2. MachineOK(y)
  BY Write8OK
<1> HIDE DEF y
<1>3. y.r = x.r /\ y.s = x.s /\ y.f = x.f /\ y.ip = x.ip /\ Rest(y, x)
  BY <1>1, Fields DEF MachineOK, Rest
<1> QED
  BY <1>1, <1>2, <1>3 DEF y

LEMMA TicksAre == \A t : Ticks(t) = cell(t, 1132) + (Byte * cell(t, 1133))
<1>1. 64 * 16 + 108 = 1132 /\ (108 + 1) % Word = 109 /\ 64 * 16 + 109 = 1133
  BY SMT DEF Word, Byte
<1>2. 1132 % Meg = 1132 /\ 1133 % Meg = 1133
  BY SMT DEF Meg, Word, Byte
<1> QED
  BY <1>1, <1>2 DEF Ticks, Read16Long, Read8

LEMMA TimerCallback ==
  ASSUME NEW x, NEW i, AtROM(x, i), i < 15000, ROMByte(x, i) = 99, ROMByte(x, i + 1) = 8, NEW request
  PROVE  LET z == Turn(x, request)
         IN  /\ AtROM(z, i + 2) /\ z.r = x.r /\ z.s = x.s /\ z.f = x.f /\ Rest(z, x)
             /\ Ticks(z) = (Ticks(x) + 1) % Word
             /\ \A b : b \notin Counter => cell(z, b) = cell(x, b)
<1> DEFINE next == Fetch(x)
           v == (Ticks(next) + 1) % Word
           y == Write16Long(next, 64, 108, v)
           z == Turn(x, request)
<1>1. /\ MachineOK(x) /\ MachineOK(next) /\ next.r = x.r /\ next.s = x.s /\ next.mem = x.mem
      /\ next.f = x.f /\ next.ip = i + 1 /\ Rest(next, x) /\ AtROM(next, i + 1) /\ Code8(x) = 99
  BY ROMNext DEF Moved
<1>2. z = Execute(x)
  BY ROMTurn
<1>3. Execute(x) = ExecuteMiddle(next, 99)
  <2>1. 99 \notin DOMAIN PrefixOf
    BY DEF PrefixOf
  <2> QED
    BY <1>1, <2>1, Executes
<1> HIDE DEF next
<1>4. Code8(next) = 8
  <2>1. Code8(next) = ROMByte(next, i + 1)
    BY <1>1, ROMNext
  <2> QED
    BY <1>1, <2>1 DEF ROMByte, cell
<1>5. ROMExec(next, 8) = y
  BY DEF ROMExec, Ticks
<1> HIDE DEF z
<1>6. z = AdvanceIP(y, 1)
  BY <1>2, <1>3, <1>4, <1>5 DEF ExecuteMiddle
<1>7. v \in Words
  <2>1. Ticks(next) \in Int
    <3>1. Ticks(next) \in Words
      BY <1>1, Addresses, ReadOK DEF Ticks
    <3> QED
      BY <3>1, Numbers8
  <2> QED
    BY <2>1, ByteFacts
<1> HIDE DEF v
<1> DEFINE a == Write8(next, 1132, v % Byte)
<1>8. y = Write8(a, 1133, v \div Byte)
  <2>1. 64 * 16 + 108 = 1132 /\ (108 + 1) % Word = 109 /\ 64 * 16 + 109 = 1133
    BY SMT DEF Word, Byte
  <2> QED
    BY <2>1 DEF Write16Long
<1> HIDE DEF y
<1> DEFINE l == 1132
           h == 1133
<1>9. l \in 0 .. Meg - 1 /\ h \in 0 .. Meg - 1 /\ l # h
  <2>1. 1133 < Word
    BY SMT DEF Word, Byte
  <2> QED
    BY <2>1, Sizes DEF Meg
<1>10. v % Byte \in Octets /\ v \div Byte \in Octets /\ v = (v % Byte) + (Byte * (v \div Byte))
  BY <1>7, Bytes16
<1> DEFINE lo == v % Byte
           hi == v \div Byte
<1>11. a = Write8(next, l, lo) /\ y = Write8(a, h, hi) /\ lo \in Octets /\ hi \in Octets
  BY <1>8, <1>10
<1> HIDE DEF a, l, h, lo, hi
<1>12. /\ MachineOK(a) /\ a.r = next.r /\ a.s = next.s /\ a.f = next.f /\ a.ip = next.ip
       /\ Rest(a, next) /\ \A b : cell(a, b) = IF b = l THEN lo ELSE cell(next, b)
  BY <1>1, <1>9, <1>11, ByteStored, SMTT(30)
<1>14. /\ MachineOK(y) /\ y.r = a.r /\ y.s = a.s /\ y.f = a.f /\ y.ip = a.ip
       /\ Rest(y, a) /\ \A b : cell(y, b) = IF b = h THEN hi ELSE cell(a, b)
  BY <1>9, <1>11, <1>12, ByteStored
<1>15. /\ z.r = y.r /\ z.s = y.s /\ z.f = y.f /\ z.ip = (y.ip + 1) % Word /\ Rest(z, y)
       /\ z.mem = y.mem
  BY <1>6, <1>14, Fields DEF AdvanceIP, MachineOK, Rest
<1>16. MachineOK(z)
  <2>1. 1 \in Int
    OBVIOUS
  <2> QED
    BY <1>6, <1>14, <2>1, AdvanceOK
<1>17. z.ip = i + 2 /\ i + 2 \in Nat /\ i + 2 < 16000
  <2>1. i \in Nat
    BY DEF AtROM
  <2>2. y.ip = i + 1
    BY <1>1, <1>12, <1>14
  <2>3. i + 2 < Word /\ i + 2 \in Nat /\ y.ip + 1 = i + 2 /\ i + 2 < 16000
    BY <2>1, <2>2, ROMAddress, Sizes
  <2> QED
    BY <1>15, <2>3, ModSmall, Sizes
<1>18. AtROM(z, i + 2)
  BY <1>1, <1>12, <1>14, <1>15, <1>16, <1>17 DEF AtROM, Rest
<1>19. cell(z, 1132) = v % Byte /\ cell(z, 1133) = v \div Byte
  <2>1. \A b : cell(z, b) = cell(y, b)
    BY <1>15 DEF cell
  <2> QED
    BY <1>9, <1>12, <1>14, <2>1 DEF l, h, lo, hi
<1>20. \A b : b \notin Counter => cell(z, b) = cell(x, b)
  <2>1. \A b : cell(z, b) = cell(y, b) /\ cell(next, b) = cell(x, b)
    BY <1>1, <1>15 DEF cell
  <2> QED
    BY <1>12, <1>14, <2>1 DEF Counter, l, h
<1>21. Ticks(z) = v
  BY <1>10, <1>19, TicksAre
<1>22. Ticks(next) = Ticks(x)
  BY <1>1, TicksAre DEF cell
<1> QED
  BY <1>1, <1>12, <1>14, <1>15, <1>18, <1>20, <1>21, <1>22 DEF z, v, Rest

\* INT 1Ch of the handler, its callback and its IRET.
LEMMA ChimeStage ==
  ASSUME NEW x, NEW i, AtROM(x, i), i < 15000, Interruptible(x), ROMInPlace(x),
         ROMByte(x, i) = 205, ROMByte(x, i + 1) = 28, NEW q0, NEW q1, NEW q2
  PROVE  LET z == Turn(Turn(Turn(x, q0), q1), q2)
         IN  /\ AtROM(z, i + 2) /\ z.r = x.r /\ z.s = x.s /\ z.f = x.f /\ Rest(z, x)
             /\ \A b : b \notin Frame(x, 6) => cell(z, b) = cell(x, b)
             /\ Serving(Turn(x, q0), x) /\ Serving(Turn(Turn(x, q0), q1), x)
<1> DEFINE next == Fetch(x)
           w == AdvanceIP(next, 1)
           n == 28
           z == Turn(Turn(Turn(x, q0), q1), q2)
<1>1. /\ MachineOK(x) /\ x.s[CS] = ROMSegment /\ i \in Nat /\ x.ip = i /\ x.hlt = FALSE
      /\ x.f.ifl = 0
  BY DEF AtROM
<1>2. /\ Code8(x) = 205 /\ MachineOK(next) /\ next.r = x.r /\ next.s = x.s /\ next.mem = x.mem
      /\ next.f = x.f /\ next.ip = i + 1 /\ Rest(next, x) /\ AtROM(next, i + 1)
  BY ROMNext DEF Moved
<1>3. Execute(x) = ExecuteHigh(next, 205)
  <2>1. 205 \notin DOMAIN PrefixOf
    BY DEF PrefixOf
  <2> QED
    BY <1>1, <1>2, <2>1, Executes
<1>4. Turn(x, q0) = Execute(x)
  BY ROMTurn
<1> HIDE DEF next
<1>5. Code8(next) = n
  <2>1. Code8(next) = ROMByte(next, i + 1)
    BY <1>2, ROMNext
  <2> QED
    BY <1>2, <2>1 DEF ROMByte, cell
<1>6. ExecuteHigh(next, 205) = intcall86(w, n)
  BY <1>5 DEF ExecuteHigh, INT
<1>7. MachineOK(w)
  <2>1. 1 \in Int
    OBVIOUS
  <2> QED
    BY <1>2, <2>1, AdvanceOK
<1>8. /\ w.r = next.r /\ w.s = next.s /\ w.mem = next.mem /\ w.f = next.f
      /\ w.ip = (next.ip + 1) % Word /\ Rest(w, next)
  BY <1>2, Fields DEF AdvanceIP, MachineOK, Rest
<1>9. w.ip = i + 2 /\ i + 2 \in Nat /\ i + 2 < 16000
  <2>1. i + 2 < Word /\ i + 2 \in Nat /\ next.ip + 1 = i + 2 /\ i + 2 < 16000
    BY <1>1, <1>2, ROMAddress, Sizes
  <2> QED
    BY <1>8, <2>1, ModSmall, Sizes
<1> HIDE DEF w
<1>10. Interruptible(w) /\ Awake(w) /\ ROMInPlace(w)
  <2>1. w.r = x.r /\ w.s = x.s /\ w.mem = x.mem /\ w.f = x.f /\ w.hlt = FALSE
    BY <1>1, <1>2, <1>8 DEF Rest
  <2> QED
    BY <1>7, <2>1 DEF Interruptible, StackInRAM, ROMInPlace, cell, Awake
<1>11. n \in {9, 28}
  OBVIOUS
<1>12. Turn(x, q0) = intcall86(w, n) /\ z = Turn(Turn(intcall86(w, n), q1), q2)
  BY <1>3, <1>4, <1>6
<1>19. Serving(Turn(x, q0), x) /\ Serving(Turn(Turn(x, q0), q1), x)
  <2> HIDE DEF n, z
  <2>1. Serving(intcall86(w, n), w) /\ Serving(Turn(intcall86(w, n), q1), w)
    BY <1>10, <1>11, StubReturns
  <2>2. w.exited = x.exited
    BY <1>2, <1>8 DEF Rest
  <2> QED
    BY <1>12, <2>1, <2>2 DEF Serving
<1> HIDE DEF n, z
<1>13. MachineOK(z) /\ Unnoticed(z, w, Frame(w, 6))
  <2> DEFINE y == Turn(Turn(intcall86(w, n), q1), q2)
  <2>1. MachineOK(y)
    BY <1>10, <1>11, StubReturns
  <2>2. Unnoticed(y, w, Frame(w, 6))
    BY <1>10, <1>11, StubReturns
  <2> HIDE DEF y
  <2>3. z = y
    BY <1>12 DEF y
  <2> QED
    BY <2>1, <2>2, <2>3
<1>14. Frame(w, 6) = Frame(x, 6)
  BY <1>2, <1>8 DEF Frame, Below
<1>15. /\ z.r = x.r /\ z.h = x.h /\ z.s = x.s /\ z.ip = i + 2 /\ z.f = x.f /\ z.hlt = FALSE
       /\ z.exited = x.exited /\ z.ports = x.ports
       /\ \A b : b \notin Frame(x, 6) => cell(z, b) = cell(w, b)
  BY <1>2, <1>8, <1>9, <1>13, <1>14 DEF Unnoticed, Rest
<1>16. \A b : cell(w, b) = cell(x, b)
  BY <1>2, <1>8 DEF cell
<1>17. Rest(z, x)
  <2>1. z.hlt = x.hlt
    BY <1>1, <1>13, <1>15, Parts
  <2> QED
    BY <1>15, <2>1 DEF Rest
<1>18. AtROM(z, i + 2)
  BY <1>1, <1>9, <1>13, <1>15 DEF AtROM
<1> QED
  BY <1>15, <1>16, <1>17, <1>18, <1>19 DEF z

\* The handler of the timer behind its callback.
Body == 8194

LEMMA BodyCodes ==
  ASSUME NEW x, ROMInPlace(x)
  PROVE  /\ ROMByte(x, Body) = 80 + AX /\ ROMByte(x, Body + 1) = 80 + DX
         /\ ROMByte(x, Body + 2) = 30 /\ ROMByte(x, Body + 3) = 205
         /\ ROMByte(x, Body + 3 + 1) = 28 /\ ROMByte(x, Body + 5) = 250
         /\ ROMByte(x, Body + 6) = 31 /\ ROMByte(x, Body + 7) = 88 + DX
         /\ ROMByte(x, Body + 8) = 88 + AX /\ ROMByte(x, Body + 9) = 207
<1>1. /\ Body + 1 = 8195 /\ Body + 2 = 8196 /\ Body + 3 = 8197 /\ Body + 3 + 1 = 8198
      /\ Body + 5 = 8199 /\ Body + 6 = 8200 /\ Body + 7 = 8201 /\ Body + 8 = 8202
      /\ Body + 9 = 8203
  BY SMT DEF Body
<1>2. 80 + AX = 80 /\ 80 + DX = 82 /\ 88 + DX = 90 /\ 88 + AX = 88
  BY DEF AX, DX
<1> QED
  BY <1>1, <1>2, StubCodes DEF Body

LEMMA BodyPlace == Body \in Nat /\ Body + 20 < 15000
BY SMT DEF Body

\* In the handler with k words pushed since x.
Saving(y, x, i, k) == AtROM(y, i) /\ ROMInPlace(y) /\ Pushed(y, x, 2 * k)

LEMMA SaveStage ==
  ASSUME NEW x, Interruptible(x), ROMInPlace(x), NEW y, NEW i, i < 15000,
         NEW k \in Nat, k < 20, Saving(y, x, i, k), NEW v \in Words,
         NEW z, z = push16(Fetch(y), v)
  PROVE  /\ Saving(z, x, i + 1, k + 1) /\ StackWord(z, Slot(x, k + 1)) = v
         /\ \A n \in Nat : 1 <= n /\ n <= k => StackWord(z, Slot(x, n)) = StackWord(y, Slot(x, n))
<1>1. MachineOK(x) /\ StackInRAM(x) /\ AtROM(y, i) /\ Pushed(y, x, 2 * k)
  BY DEF Interruptible, Saving
<1>2. /\ AtROM(z, i + 1) /\ Pushed(z, x, 2 * (k + 1))
      /\ StackWord(z, Slot(x, k + 1)) = v
      /\ \A o \in Evens \ {Slot(x, k + 1)} : StackWord(z, o) = StackWord(y, o)
  BY <1>1, PushStage
<1>3. ROMInPlace(z)
  <2> DEFINE n == 2 * (k + 1)
  <2>1. n \in Nat /\ \A b : b \notin Frame(x, n) => cell(z, b) = cell(x, b)
    BY <1>2 DEF Pushed
  <2> HIDE DEF n
  <2> QED
    BY <1>1, <2>1, ROMStays
<1>4. ASSUME NEW n \in Nat, 1 <= n, n <= k
      PROVE  StackWord(z, Slot(x, n)) = StackWord(y, Slot(x, n))
  <2> DEFINE l == k + 1
  <2>1. n \in 0..20 /\ l \in 0..20 /\ n # l
    BY <1>4
  <2> HIDE DEF l
  <2>2. Below(x, 2 * n) \in Evens \ {Below(x, 2 * l)}
    BY <1>1, <2>1, Apart
  <2> QED
    BY <1>2, <2>2 DEF Slot, l
<1> QED
  BY <1>2, <1>3, <1>4 DEF Saving

\* PUSH AX, PUSH DX, PUSH DS.
LEMMA RegistersSaved ==
  ASSUME NEW x, Interruptible(x), ROMInPlace(x), AtROM(x, Body), NEW q1, NEW q2, NEW q3
  PROVE  LET z == Turn(Turn(Turn(x, q1), q2), q3)
         IN  /\ Saving(z, x, Body + 3, 3) /\ StackWord(z, Slot(x, 1)) = x.r[AX]
             /\ StackWord(z, Slot(x, 2)) = x.r[DX] /\ StackWord(z, Slot(x, 3)) = x.s[DS]
             /\ Serving(Turn(x, q1), x) /\ Serving(Turn(Turn(x, q1), q2), x)
<1> DEFINE a == Turn(x, q1)
           b == Turn(a, q2)
           z == Turn(b, q3)
<1>0. MachineOK(x) /\ StackInRAM(x)
  BY DEF Interruptible
<1>1. x.r[AX] \in Words /\ x.r[DX] \in Words /\ x.s[DS] \in Words
  BY <1>0, Parts, Names DEF AX, DX, DS
<1>2. /\ Body < 15000 /\ Body + 1 < 15000 /\ Body + 2 < 15000
      /\ Body + 1 + 1 = Body + 2 /\ Body + 2 + 1 = Body + 3
  BY BodyPlace
<1>3. Saving(x, x, Body, 0)
  <2>1. 2 * 0 = 0
    OBVIOUS
  <2> QED
    BY <1>0, <2>1, PushedNothing DEF Saving
<1>4. Saving(a, x, Body + 1, 1) /\ StackWord(a, Slot(x, 1)) = x.r[AX]
  <2>1. ROMByte(x, Body) = 80 + AX
    BY BodyCodes
  <2>2. a = push16(Fetch(x), x.r[AX])
    BY <2>1, PushTurn
  <2> HIDE DEF a
  <2> DEFINE k == 0
  <2>3. k \in Nat /\ k < 20 /\ k + 1 = 1 /\ Saving(x, x, Body, k)
    BY <1>3
  <2> HIDE DEF k
  <2>4. Saving(a, x, Body + 1, k + 1) /\ StackWord(a, Slot(x, k + 1)) = x.r[AX]
    BY <1>1, <1>2, <2>2, <2>3, SaveStage
  <2> QED
    BY <2>3, <2>4
<1> HIDE DEF a
<1>5. /\ Saving(b, x, Body + 2, 2) /\ StackWord(b, Slot(x, 1)) = x.r[AX]
      /\ StackWord(b, Slot(x, 2)) = x.r[DX]
  <2>1. ROMByte(a, Body + 1) = 80 + DX /\ AtROM(a, Body + 1)
    BY <1>4, BodyCodes DEF Saving
  <2>2. a.r[DX] = x.r[DX]
    BY <1>0, <1>4, Parts, Names DEF Saving, Pushed, DX, SP
  <2>3. b = push16(Fetch(a), x.r[DX])
    BY <2>1, <2>2, PushTurn
  <2> HIDE DEF b
  <2> DEFINE k == 1
             i == Body + 1
  <2>4. /\ k \in Nat /\ k < 20 /\ k + 1 = 2 /\ Saving(a, x, i, k) /\ i < 15000 /\ i + 1 = Body + 2
        /\ 1 <= k
    BY <1>2, <1>4
  <2> HIDE DEF k, i
  <2>5. /\ Saving(b, x, i + 1, k + 1) /\ StackWord(b, Slot(x, k + 1)) = x.r[DX]
        /\ \A n \in Nat : 1 <= n /\ n <= k => StackWord(b, Slot(x, n)) = StackWord(a, Slot(x, n))
    BY <1>1, <2>3, <2>4, SaveStage
  <2>6. StackWord(b, Slot(x, 1)) = StackWord(a, Slot(x, 1))
    BY <2>4, <2>5
  <2> QED
    BY <1>4, <2>4, <2>5, <2>6
<1> HIDE DEF b
<1>6. /\ Saving(z, x, Body + 3, 3) /\ StackWord(z, Slot(x, 1)) = x.r[AX]
      /\ StackWord(z, Slot(x, 2)) = x.r[DX] /\ StackWord(z, Slot(x, 3)) = x.s[DS]
  <2>1. ROMByte(b, Body + 2) = 30 /\ AtROM(b, Body + 2)
    BY <1>5, BodyCodes DEF Saving
  <2>2. b.s[DS] = x.s[DS]
    BY <1>5 DEF Saving, Pushed
  <2>3. z = push16(Fetch(b), x.s[DS])
    BY <2>1, <2>2, PushDSTurn
  <2> HIDE DEF z
  <2> DEFINE k == 2
             i == Body + 2
  <2>4. /\ k \in Nat /\ k < 20 /\ k + 1 = 3 /\ Saving(b, x, i, k) /\ i < 15000 /\ i + 1 = Body + 3
        /\ 2 <= k
    BY <1>2, <1>5
  <2> HIDE DEF k, i
  <2>5. /\ Saving(z, x, i + 1, k + 1) /\ StackWord(z, Slot(x, k + 1)) = x.s[DS]
        /\ \A n \in Nat : 1 <= n /\ n <= k => StackWord(z, Slot(x, n)) = StackWord(b, Slot(x, n))
    BY <1>1, <2>3, <2>4, SaveStage
  <2>6. /\ StackWord(z, Slot(x, 1)) = StackWord(b, Slot(x, 1))
        /\ StackWord(z, Slot(x, 2)) = StackWord(b, Slot(x, 2))
    BY <2>4, <2>5
  <2> QED
    BY <1>5, <2>4, <2>5, <2>6
<1>7. Serving(a, x) /\ Serving(b, x)
  <2>1. /\ AtROM(a, Body + 1) /\ AtROM(b, Body + 2)
        /\ a.exited = x.exited /\ b.exited = x.exited
    BY <1>4, <1>5 DEF Saving, Pushed, Rest
  <2> QED
    BY <2>1, ROMServes
<1> QED
  BY <1>6, <1>7 DEF z, b, a

\* INT 1Ch on top of the saved registers leaves them alone.
LEMMA SavedWordsKept ==
  ASSUME NEW x, Interruptible(x), NEW y, Saving(y, x, Body + 3, 3),
         NEW z, z.s = y.s, \A b : b \notin Frame(y, 6) => cell(z, b) = cell(y, b)
  PROVE  /\ \A i \in {1, 2, 3} : StackWord(z, Slot(x, i)) = StackWord(y, Slot(x, i))
         /\ \A b : b \notin Frame(x, 12) => cell(z, b) = cell(x, b)
<1>0. MachineOK(x) /\ StackInRAM(x)
  BY DEF Interruptible
<1>1. Pushed(y, x, 6)
  <2>1. 2 * 3 = 6
    OBVIOUS
  <2> QED
    BY <2>1 DEF Saving
<1>2. /\ y.s = x.s /\ y.r[SP] = Below(x, 6)
      /\ \A b : b \notin Frame(x, 6) => cell(y, b) = cell(x, b)
  BY <1>0, <1>1, Parts, Names DEF Pushed
<1> DEFINE k == 6
           n == 12
<1>3. k \in Nat /\ k <= 50 /\ k + k = n /\ k <= n /\ n \in Nat
  OBVIOUS
<1>4. y.r[SP] = Below(x, k) /\ y.s[SS] = x.s[SS] /\ z.s[SS] = x.s[SS]
  BY <1>2
<1>5. /\ \A b : b \notin Frame(y, k) => cell(z, b) = cell(y, b)
      /\ \A b : b \notin Frame(x, k) => cell(y, b) = cell(x, b)
  BY <1>2
<1>6. \A i \in {1, 2, 3} : i \in Nat /\ 1 <= i /\ i <= 20 /\ 2 * i <= k
  OBVIOUS
<1> HIDE DEF k, n
<1>7. Frame(y, k) \subseteq Frame(x, n) /\ Frame(y, k) \cap Frame(x, k) = {}
  BY <1>0, <1>3, <1>4, FrameDeeper
<1>8. Frame(x, k) \subseteq Frame(x, n)
  BY <1>3 DEF Frame
<1>9. Keeps(z, y, Frame(x, k))
  BY <1>5, <1>7 DEF Keeps
<1>10. \A i \in {1, 2, 3} : StackWord(z, Slot(x, i)) = StackWord(y, Slot(x, i))
  BY <1>0, <1>3, <1>4, <1>6, <1>9, WordsKept
<1>11. \A b : b \notin Frame(x, n) => cell(z, b) = cell(x, b)
  BY <1>5, <1>7, <1>8
<1> QED
  BY <1>10, <1>11 DEF n

\* POP DS, POP DX, POP AX.
LEMMA RegistersRestored ==
  ASSUME NEW x, MachineOK(x), NEW y, AtROM(y, Body + 6), ROMInPlace(y), y.r[SP] = Slot(x, 3),
         StackWord(y, Slot(x, 1)) = x.r[AX], StackWord(y, Slot(x, 2)) = x.r[DX],
         StackWord(y, Slot(x, 3)) = x.s[DS], NEW q1, NEW q2, NEW q3
  PROVE  LET z == Turn(Turn(Turn(y, q1), q2), q3)
         IN  /\ AtROM(z, Body + 9) /\ z.mem = y.mem /\ z.f = y.f /\ Rest(z, y)
             /\ z.r = [y.r EXCEPT ![SP] = Slot(x, 0), ![AX] = x.r[AX], ![DX] = x.r[DX]]
             /\ z.s = [y.s EXCEPT ![DS] = x.s[DS]]
             /\ Serving(Turn(y, q1), y) /\ Serving(Turn(Turn(y, q1), q2), y)
<1> DEFINE a == Turn(y, q1)
           b == Turn(a, q2)
           z == Turn(b, q3)
<1>1. /\ Body + 6 < 15000 /\ Body + 7 < 15000 /\ Body + 8 < 15000
      /\ Body + 6 + 1 = Body + 7 /\ Body + 7 + 1 = Body + 8 /\ Body + 8 + 1 = Body + 9
  BY BodyPlace
<1>2. MachineOK(y)
  BY DEF AtROM
<1>3. /\ AtROM(a, Body + 7) /\ a.mem = y.mem /\ a.f = y.f /\ Rest(a, y)
      /\ a.r = [y.r EXCEPT ![SP] = Slot(x, 2)] /\ a.s = [y.s EXCEPT ![DS] = x.s[DS]]
  <2>1. ROMByte(y, Body + 6) = 31
    BY BodyCodes
  <2>2. a = PopS(Fetch(y), DS)
    BY <2>1, PopDSTurn
  <2> DEFINE k == 2
             i == Body + 6
  <2>3. k \in Nat /\ k <= 20 /\ k + 1 = 3 /\ i < 15000 /\ i + 1 = Body + 7 /\ AtROM(y, i)
    BY <1>1
  <2> HIDE DEF k, i, a
  <2>4. y.r[SP] = Slot(x, k + 1)
    BY <2>3
  <2> DEFINE t == PopS(Fetch(y), DS)
  <2>5. /\ AtROM(t, i + 1) /\ t.mem = y.mem /\ t.f = y.f /\ Rest(t, y)
        /\ t.r = [y.r EXCEPT ![SP] = Slot(x, k)]
        /\ t.s = [y.s EXCEPT ![DS] = StackWord(y, Slot(x, k + 1))]
    BY <2>3, <2>4, PopDSStage
  <2> HIDE DEF t
  <2>6. a = t
    BY <2>2 DEF t
  <2> QED
    BY <2>3, <2>5, <2>6 DEF k
<1> HIDE DEF a
<1>4. MachineOK(a) /\ a.r[SP] = Slot(x, 2) /\ a.s[SS] = y.s[SS]
  BY <1>2, <1>3, Parts, Names DEF AtROM, DS, SS
<1>5. \A o : StackWord(a, o) = StackWord(y, o)
  BY <1>3, <1>4 DEF StackWord, Read16Unsafe, cell
<1>6. /\ AtROM(b, Body + 8) /\ b.mem = a.mem /\ b.f = a.f /\ Rest(b, a) /\ b.s = a.s
      /\ b.r = [a.r EXCEPT ![SP] = Slot(x, 1), ![DX] = x.r[DX]]
  <2>1. ROMByte(a, Body + 7) = 88 + DX
    BY <1>3, BodyCodes DEF ROMByte, cell
  <2>2. b = PopR(Fetch(a), DX)
    BY <1>3, <2>1, PopTurn
  <2> DEFINE k == 1
             i == Body + 7
  <2>3. k \in Nat /\ k <= 20 /\ k + 1 = 2 /\ i < 15000 /\ i + 1 = Body + 8 /\ AtROM(a, i)
    BY <1>1, <1>3
  <2> HIDE DEF k, i, b
  <2>4. a.r[SP] = Slot(x, k + 1)
    BY <1>4, <2>3
  <2>5. DX \in {AX, DX}
    OBVIOUS
  <2>6. Popped(PopR(Fetch(a), DX), a, i + 1, DX, Slot(x, k), Slot(x, k + 1))
    BY <2>3, <2>4, <2>5, PopStage
  <2> QED
    BY <1>5, <2>2, <2>3, <2>6 DEF k, Popped
<1> HIDE DEF b
<1>7. MachineOK(b) /\ b.r[SP] = Slot(x, 1) /\ b.s[SS] = y.s[SS]
  BY <1>4, <1>6, Parts, Names DEF AtROM, DX, SP
<1>8. \A o : StackWord(b, o) = StackWord(y, o)
  BY <1>3, <1>6, <1>7 DEF StackWord, Read16Unsafe, cell
<1>9. /\ AtROM(z, Body + 9) /\ z.mem = b.mem /\ z.f = b.f /\ Rest(z, b) /\ z.s = b.s
      /\ z.r = [b.r EXCEPT ![SP] = Slot(x, 0), ![AX] = x.r[AX]]
  <2>1. ROMByte(b, Body + 8) = 88 + AX
    BY <1>3, <1>6, BodyCodes DEF ROMByte, cell
  <2>2. z = PopR(Fetch(b), AX)
    BY <1>6, <2>1, PopTurn
  <2> DEFINE k == 0
             i == Body + 8
  <2>3. k \in Nat /\ k <= 20 /\ k + 1 = 1 /\ i < 15000 /\ i + 1 = Body + 9 /\ AtROM(b, i)
    BY <1>1, <1>6
  <2> HIDE DEF k, i, z
  <2>4. b.r[SP] = Slot(x, k + 1)
    BY <1>7, <2>3
  <2>5. AX \in {AX, DX}
    OBVIOUS
  <2>6. Popped(PopR(Fetch(b), AX), b, i + 1, AX, Slot(x, k), Slot(x, k + 1))
    BY <2>3, <2>4, <2>5, PopStage
  <2> QED
    BY <1>8, <2>2, <2>3, <2>6 DEF k, Popped
<1> HIDE DEF z
<1>10. Rest(z, y)
  BY <1>3, <1>6, <1>9 DEF Rest
<1>11. z.r = [y.r EXCEPT ![SP] = Slot(x, 0), ![AX] = x.r[AX], ![DX] = x.r[DX]]
  <2>1. y.r \in [0..7 -> Words]
    BY <1>2, Parts
  <2>2. AX # DX /\ AX # SP /\ DX # SP
    BY DEF AX, DX, SP
  <2> QED
    BY <1>3, <1>6, <1>9, <2>1, <2>2
<1>12. /\ AtROM(z, Body + 9) /\ z.mem = y.mem /\ z.f = y.f
       /\ z.s = [y.s EXCEPT ![DS] = x.s[DS]]
  BY <1>3, <1>6, <1>9
<1>13. Serving(a, y) /\ Serving(b, y)
  <2>1. a.exited = y.exited /\ b.exited = y.exited
    BY <1>3, <1>6 DEF Rest
  <2> QED
    BY <1>3, <1>6, <2>1, ROMServes
<1> QED
  BY <1>10, <1>11, <1>12, <1>13 DEF z, b, a

\* The handler behind its callback, up to its IRET: f lists the machine after each
\* turn, q what the interrupt controller requests.
LEMMA HandlerRuns ==
  ASSUME NEW f, NEW q, Interruptible(f[1]), ROMInPlace(f[1]), AtROM(f[1], Body),
         \A i \in 1..10 : f[i + 1] = Turn(f[i], q[i])
  PROVE  /\ AtROM(f[11], Body + 9) /\ f[11].r = f[1].r /\ f[11].s = f[1].s
         /\ f[11].f = f[1].f /\ Rest(f[11], f[1])
         /\ \A b : b \notin Frame(f[1], 12) => cell(f[11], b) = cell(f[1], b)
         /\ \A i \in 1..11 : Serving(f[i], f[1])
<1> DEFINE x == f[1]
           y == f[4]
           c == f[7]
           d == f[8]
           z == f[11]
<1>1. /\ y = Turn(Turn(Turn(x, q[1]), q[2]), q[3])
      /\ c = Turn(Turn(Turn(y, q[4]), q[5]), q[6])
      /\ d = Turn(c, q[7])
      /\ z = Turn(Turn(Turn(d, q[8]), q[9]), q[10])
      /\ f[2] = Turn(x, q[1]) /\ f[3] = Turn(Turn(x, q[1]), q[2])
      /\ f[5] = Turn(y, q[4]) /\ f[6] = Turn(Turn(y, q[4]), q[5])
      /\ f[9] = Turn(d, q[8]) /\ f[10] = Turn(Turn(d, q[8]), q[9])
  <2>1. /\ f[2] = Turn(f[1], q[1]) /\ f[3] = Turn(f[2], q[2]) /\ f[4] = Turn(f[3], q[3])
        /\ f[5] = Turn(f[4], q[4]) /\ f[6] = Turn(f[5], q[5]) /\ f[7] = Turn(f[6], q[6])
        /\ f[8] = Turn(f[7], q[7]) /\ f[9] = Turn(f[8], q[8]) /\ f[10] = Turn(f[9], q[9])
        /\ f[11] = Turn(f[10], q[10])
    <3>1. {1, 2, 3, 4, 5, 6, 7, 8, 9, 10} \subseteq 1..10
      OBVIOUS
    <3>2. /\ 1 + 1 = 2 /\ 2 + 1 = 3 /\ 3 + 1 = 4 /\ 4 + 1 = 5 /\ 5 + 1 = 6 /\ 6 + 1 = 7
          /\ 7 + 1 = 8 /\ 8 + 1 = 9 /\ 9 + 1 = 10 /\ 10 + 1 = 11
      OBVIOUS
    <3> QED
      BY <3>1, <3>2
  <2> QED
    BY <2>1
<1>2. Interruptible(x) /\ ROMInPlace(x) /\ AtROM(x, Body) /\ MachineOK(x) /\ StackInRAM(x)
  BY DEF Interruptible
<1> HIDE DEF x, y, c, d, z
<1>3. /\ Body < 15000 /\ Body + 3 < 15000 /\ Body + 5 < 15000
      /\ Body + 3 + 2 = Body + 5 /\ Body + 5 + 1 = Body + 6
  BY BodyPlace
<1>4. /\ Saving(y, x, Body + 3, 3) /\ StackWord(y, Slot(x, 1)) = x.r[AX]
      /\ StackWord(y, Slot(x, 2)) = x.r[DX] /\ StackWord(y, Slot(x, 3)) = x.s[DS]
      /\ Serving(f[2], x) /\ Serving(f[3], x)
  <2> DEFINE t == Turn(Turn(Turn(x, q[1]), q[2]), q[3])
             t1 == Turn(x, q[1])
             t2 == Turn(Turn(x, q[1]), q[2])
  <2>1. /\ Saving(t, x, Body + 3, 3) /\ StackWord(t, Slot(x, 1)) = x.r[AX]
        /\ StackWord(t, Slot(x, 2)) = x.r[DX] /\ StackWord(t, Slot(x, 3)) = x.s[DS]
        /\ Serving(t1, x) /\ Serving(t2, x)
    BY <1>2, RegistersSaved
  <2> HIDE DEF t, t1, t2
  <2>2. y = t /\ f[2] = t1 /\ f[3] = t2
    BY <1>1 DEF t, t1, t2
  <2> QED
    BY <2>1, <2>2
<1>5. /\ AtROM(y, Body + 3) /\ ROMInPlace(y) /\ MachineOK(y) /\ StackInRAM(y) /\ Rest(y, x)
      /\ y.r = [x.r EXCEPT ![SP] = Slot(x, 3)] /\ y.s = x.s
  <2>1. 2 * 3 = 6
    OBVIOUS
  <2> QED
    BY <1>4, <2>1 DEF Saving, Pushed, Slot
<1>6. Interruptible(y)
  BY <1>2, <1>5 DEF Interruptible, Rest
<1>7. /\ AtROM(c, Body + 5) /\ c.r = y.r /\ c.s = y.s /\ c.f = y.f /\ Rest(c, y)
      /\ \A b : b \notin Frame(y, 6) => cell(c, b) = cell(y, b)
      /\ Serving(f[5], y) /\ Serving(f[6], y)
  <2> DEFINE i == Body + 3
             t == Turn(Turn(Turn(y, q[4]), q[5]), q[6])
             t1 == Turn(y, q[4])
             t2 == Turn(Turn(y, q[4]), q[5])
  <2>1. ROMByte(y, i) = 205 /\ ROMByte(y, i + 1) = 28 /\ AtROM(y, i) /\ i < 15000
    BY <1>3, <1>5, BodyCodes
  <2> HIDE DEF i
  <2>2. /\ AtROM(t, i + 2) /\ t.r = y.r /\ t.s = y.s /\ t.f = y.f /\ Rest(t, y)
        /\ \A b : b \notin Frame(y, 6) => cell(t, b) = cell(y, b)
        /\ Serving(t1, y) /\ Serving(t2, y)
    BY <1>5, <1>6, <2>1, ChimeStage
  <2> HIDE DEF t, t1, t2
  <2>3. c = t /\ f[5] = t1 /\ f[6] = t2 /\ i + 2 = Body + 5
    BY <1>1, <1>3 DEF t, t1, t2, i
  <2> QED
    BY <2>2, <2>3
<1>8. ROMInPlace(c)
  <2> DEFINE n == 6
  <2>1. n \in Nat /\ \A b : b \notin Frame(y, n) => cell(c, b) = cell(y, b)
    BY <1>7
  <2> HIDE DEF n
  <2> QED
    BY <1>5, <2>1, ROMStays
<1>9. /\ StackWord(c, Slot(x, 1)) = x.r[AX] /\ StackWord(c, Slot(x, 2)) = x.r[DX]
      /\ StackWord(c, Slot(x, 3)) = x.s[DS]
      /\ \A b : b \notin Frame(x, 12) => cell(c, b) = cell(x, b)
  <2>1. /\ \A i \in {1, 2, 3} : StackWord(c, Slot(x, i)) = StackWord(y, Slot(x, i))
        /\ \A b : b \notin Frame(x, 12) => cell(c, b) = cell(x, b)
    BY <1>2, <1>4, <1>7, SavedWordsKept
  <2> QED
    BY <1>4, <2>1
<1>10. Moved(d, c, Body + 6) /\ AtROM(d, Body + 6)
  <2> DEFINE i == Body + 5
             t == Turn(c, q[7])
  <2>1. AtROM(c, i) /\ i < 15000 /\ ROMByte(c, i) = 250 /\ i + 1 = Body + 6
    BY <1>3, <1>7, <1>8, BodyCodes
  <2> HIDE DEF i
  <2>2. Moved(Turn(c, q[7]), c, i + 1) /\ AtROM(Turn(c, q[7]), i + 1)
    BY <2>1, CliTurn
  <2> QED
    BY <1>1, <2>1, <2>2
<1>11. /\ ROMInPlace(d) /\ d.r[SP] = Slot(x, 3) /\ StackWord(d, Slot(x, 1)) = x.r[AX]
       /\ StackWord(d, Slot(x, 2)) = x.r[DX] /\ StackWord(d, Slot(x, 3)) = x.s[DS]
  <2>1. d.r = y.r /\ d.s = c.s /\ d.mem = c.mem
    BY <1>7, <1>10 DEF Moved
  <2>2. d.r[SP] = Slot(x, 3)
    BY <1>2, <1>5, <2>1, Parts, Names
  <2>3. \A o : StackWord(d, o) = StackWord(c, o)
    BY <2>1 DEF StackWord, Read16Unsafe, cell
  <2>4. ROMInPlace(d)
    BY <1>8, <2>1 DEF ROMInPlace, cell
  <2> QED
    BY <1>9, <2>2, <2>3, <2>4
<1>12. /\ AtROM(z, Body + 9) /\ z.mem = d.mem /\ z.f = d.f /\ Rest(z, d)
       /\ z.r = [d.r EXCEPT ![SP] = Slot(x, 0), ![AX] = x.r[AX], ![DX] = x.r[DX]]
       /\ z.s = [d.s EXCEPT ![DS] = x.s[DS]]
       /\ Serving(f[9], d) /\ Serving(f[10], d)
  <2> DEFINE t == Turn(Turn(Turn(d, q[8]), q[9]), q[10])
             t1 == Turn(d, q[8])
             t2 == Turn(Turn(d, q[8]), q[9])
  <2>1. /\ AtROM(t, Body + 9) /\ t.mem = d.mem /\ t.f = d.f /\ Rest(t, d)
        /\ t.r = [d.r EXCEPT ![SP] = Slot(x, 0), ![AX] = x.r[AX], ![DX] = x.r[DX]]
        /\ t.s = [d.s EXCEPT ![DS] = x.s[DS]]
        /\ Serving(t1, d) /\ Serving(t2, d)
    BY <1>2, <1>10, <1>11, RegistersRestored
  <2> HIDE DEF t, t1, t2
  <2>2. z = t /\ f[9] = t1 /\ f[10] = t2
    BY <1>1 DEF t, t1, t2
  <2> QED
    BY <2>1, <2>2
<1>13. z.r = x.r
  <2>1. Slot(x, 0) = x.r[SP]
    <3>1. x.r[SP] \in Words
      BY <1>2, Parts, Names
    <3>2. 2 * 0 = 0 /\ x.r[SP] - 0 = x.r[SP] /\ 0 <= x.r[SP] /\ 0 < Word /\ 0 \in Nat
      BY <3>1, Numbers8, Sizes
    <3> QED
      BY <3>1, <3>2, Down DEF Slot, Below, Lower
  <2>2. d.r = [x.r EXCEPT ![SP] = Slot(x, 3)] /\ x.r \in [0..7 -> Words]
    BY <1>2, <1>5, <1>7, <1>10, Parts DEF Moved
  <2> QED
    BY <1>12, <2>1, <2>2, Names
<1>14. z.s = x.s
  <2>1. d.s = x.s /\ x.s \in [0..5 -> Words]
    BY <1>2, <1>5, <1>7, <1>10, Parts DEF Moved
  <2> QED
    BY <1>12, <2>1
<1>15. z.f = x.f /\ Rest(z, x)
  BY <1>5, <1>7, <1>10, <1>12 DEF Moved, Rest
<1>16. \A b : b \notin Frame(x, 12) => cell(z, b) = cell(x, b)
  BY <1>9, <1>10, <1>12 DEF Moved, cell
<1>17. ASSUME NEW i \in 1..11
       PROVE  Serving(f[i], x)
  <2>1. y.exited = x.exited /\ c.exited = x.exited /\ d.exited = x.exited /\ z.exited = x.exited
    BY <1>5, <1>7, <1>10, <1>15 DEF Rest, Moved
  <2>2. Serving(x, x) /\ Serving(y, x) /\ Serving(c, x) /\ Serving(d, x) /\ Serving(z, x)
    BY <1>2, <1>5, <1>7, <1>10, <1>12, <2>1, ROMServes
  <2>3. /\ Serving(f[2], x) /\ Serving(f[3], x) /\ Serving(f[5], x) /\ Serving(f[6], x)
        /\ Serving(f[9], x) /\ Serving(f[10], x)
    BY <1>4, <1>7, <1>12, <2>1 DEF Serving
  <2>4. i \in {1, 2, 3, 4, 5, 6, 7, 8, 9, 10, 11}
    OBVIOUS
  <2> QED
    BY <2>2, <2>3, <2>4 DEF x, y, c, d, z
<1> QED
  BY <1>12, <1>13, <1>14, <1>15, <1>16, <1>17 DEF x, z

\* The timer's interrupt is taken and its callback counts.
LEMMA TimerEntered ==
  ASSUME NEW x, Interruptible(x), ROMInPlace(x), x.f.ifl = 1
  PROVE  LET w == [x EXCEPT !.hlt = FALSE]
             y == intcall86(w, 8)
             z == Turn(x, 8)
         IN  /\ Framed(y, w, 8) /\ AtROM(z, Body) /\ Interruptible(z) /\ ROMInPlace(z)
             /\ z.r = y.r /\ z.s = y.s /\ z.f = y.f /\ Rest(z, y)
             /\ Ticks(z) = (Ticks(y) + 1) % Word
             /\ \A b : b \notin Counter => cell(z, b) = cell(y, b)
<1> DEFINE w == [x EXCEPT !.hlt = FALSE]
           n == 8
           y == intcall86(w, n)
           z == Turn(x, 8)
<1>1. /\ w.s = x.s /\ w.f = x.f /\ w.hlt = FALSE /\ ROMInPlace(w) /\ StackInRAM(w)
      /\ MachineOK(w) /\ Interruptible(w)
  <2>1. MachineOK(x) /\ StackInRAM(x) /\ x.f.ac = 0 /\ x.f.of \in 0..1
    BY DEF Interruptible
  <2>2. /\ MachineOK(w) /\ w.s = x.s /\ w.f = x.f /\ w.hlt = FALSE /\ StackInRAM(w)
        /\ ROMInPlace(w)
    BY <2>1, Woken
  <2> HIDE DEF w
  <2> QED
    BY <2>1, <2>2 DEF Interruptible
<1>2. Interrupted(x, 8) = y
  BY DEF Interrupted, Accepts
<1>3. n \in Octets /\ 4 * n = 4 * 8 /\ n = 8
  <2>1. n \in 0 .. 255
    OBVIOUS
  <2> QED
    BY <2>1 DEF Octets, Byte
<1> DEFINE i == 8192
<1>4. /\ i \in Nat /\ i < 15000 /\ i < 16000 /\ i + 2 = Body
      /\ \A t : ROMInPlace(t) => ROMByte(t, i) = 99 /\ ROMByte(t, i + 1) = 8
  <2>1. i \in Nat /\ i < 15000 /\ i < 16000 /\ i + 2 = Body /\ i + 1 = 8193
    BY SMT DEF Body
  <2> QED
    BY <2>1, StubCodes
<1>5. Read16Unsafe(w, 4 * n) = i /\ Read16Unsafe(w, 4 * n + 2) = ROMSegment
  BY <1>1, TimerBytes
<1> HIDE DEF w, n, i
<1>6. Framed(y, w, n)
  BY <1>1, <1>3, IntFrame
<1> HIDE DEF y
<1>7. /\ MachineOK(y) /\ StackInRAM(y) /\ y.s = [w.s EXCEPT ![CS] = ROMSegment] /\ y.ip = i
      /\ y.f = [w.f EXCEPT !.ifl = 0, !.tf = 0] /\ y.hlt = w.hlt
      /\ \A b : b \notin Frame(w, 6) => cell(y, b) = cell(w, b)
  BY <1>5, <1>6 DEF Framed
<1>8. y.f.ifl = 0 /\ y.f.ac = 0 /\ y.f.of \in 0..1 /\ y.hlt = FALSE /\ y.s[CS] = ROMSegment
  <2>1. w.f \in Flags /\ w.f.ac = 0 /\ w.f.of \in 0..1
    BY <1>1, Parts DEF Interruptible
  <2>2. y.f.ifl = 0 /\ y.f.ac = w.f.ac /\ y.f.of = w.f.of
    BY <1>7, <2>1 DEF Flags, FlagNames
  <2>3. y.hlt = FALSE
    BY <1>1, <1>7
  <2>4. y.s[CS] = ROMSegment
    BY <1>1, <1>7, Parts, Names DEF CS
  <2> QED
    BY <2>1, <2>2, <2>3, <2>4
<1>9. AtROM(y, i)
  BY <1>4, <1>7, <1>8 DEF AtROM
<1>10. ROMInPlace(y)
  <2> DEFINE e == 6
  <2>1. e \in Nat /\ \A b : b \notin Frame(w, e) => cell(y, b) = cell(w, b)
    BY <1>7
  <2> HIDE DEF e
  <2> QED
    BY <1>1, <2>1, ROMStays
<1>11. z = Turn(y, 0)
  BY <1>2, <1>8 DEF Turn, Interrupted, Accepts
<1>12. /\ AtROM(z, Body) /\ z.r = y.r /\ z.s = y.s /\ z.f = y.f /\ Rest(z, y)
       /\ Ticks(z) = (Ticks(y) + 1) % Word
       /\ \A b : b \notin Counter => cell(z, b) = cell(y, b)
  <2> DEFINE t == Turn(y, 0)
  <2>1. ROMByte(y, i) = 99 /\ ROMByte(y, i + 1) = 8
    BY <1>4, <1>10
  <2>2. /\ AtROM(t, i + 2) /\ t.r = y.r /\ t.s = y.s /\ t.f = y.f /\ Rest(t, y)
        /\ Ticks(t) = (Ticks(y) + 1) % Word
        /\ \A b : b \notin Counter => cell(t, b) = cell(y, b)
    BY <1>4, <1>9, <2>1, TimerCallback
  <2> HIDE DEF t
  <2>3. z = t
    BY <1>11 DEF t
  <2> QED
    BY <1>4, <2>2, <2>3
<1> HIDE DEF z
<1>13. Interruptible(z)
  BY <1>7, <1>8, <1>12 DEF Interruptible, StackInRAM, AtROM
<1>14. ROMInPlace(z)
  <2>1. ASSUME NEW b \in Nat, b < 1000 \/ 15 * Word <= b
        PROVE  cell(z, b) = cell(y, b)
    <3>1. b \notin Counter
      <4>1. 1133 < 15 * Word
        BY SMT DEF Word, Byte
      <4>2. 15 * Word \in Nat
        BY ROMAddress
      <4> QED
        BY <2>1, <4>1, <4>2 DEF Counter
    <3> QED
      BY <1>12, <3>1
  <2> QED
    BY <1>10, <2>1, ROMKept
<1> QED
  BY <1>3, <1>6, <1>12, <1>13, <1>14 DEF z, y, w, n

\* The handler of the timer.
LEMMA TimerServed ==
  ASSUME NEW f, NEW q, Interruptible(f[0]), ROMInPlace(f[0]), f[0].f.ifl = 1,
         f[1] = Turn(f[0], 8), \A i \in 1..11 : f[i + 1] = Turn(f[i], q[i])
  PROVE  /\ Unnoticed(f[12], f[0], Frame(f[0], 18) \cup Counter)
         /\ Ticks(f[12]) = (Ticks(f[0]) + 1) % Word
         /\ \A i \in 1..11 : Serving(f[i], f[0])
<1> DEFINE x == f[0]
           w == [x EXCEPT !.hlt = FALSE]
           y == intcall86(w, 8)
           a == f[1]
           c == f[11]
           d == Fetch(c)
           z == f[12]
<1>1. /\ w.r = x.r /\ w.h = x.h /\ w.s = x.s /\ w.ip = x.ip /\ w.f = x.f /\ w.mem = x.mem
      /\ w.hlt = FALSE /\ w.exited = x.exited /\ w.ports = x.ports
      /\ StackInRAM(w) /\ MachineOK(w) /\ Interruptible(w)
      /\ \A n : Frame(w, n) = Frame(x, n)
  <2>1. MachineOK(x) /\ StackInRAM(x) /\ x.f.ac = 0 /\ x.f.of \in 0..1
    BY DEF Interruptible
  <2> HIDE DEF x
  <2>2. /\ MachineOK(w) /\ w.r = x.r /\ w.h = x.h /\ w.s = x.s /\ w.ip = x.ip
        /\ w.f = x.f /\ w.mem = x.mem /\ w.hlt = FALSE /\ w.exited = x.exited
        /\ w.ports = x.ports /\ StackInRAM(w)
        /\ \A n : Frame(w, n) = Frame(x, n)
    BY <2>1, Woken
  <2> HIDE DEF w
  <2> QED
    BY <2>1, <2>2 DEF Interruptible
<1>2. /\ Framed(y, w, 8) /\ AtROM(a, Body) /\ Interruptible(a) /\ ROMInPlace(a)
      /\ a.r = y.r /\ a.s = y.s /\ a.f = y.f /\ Rest(a, y)
      /\ Ticks(a) = (Ticks(y) + 1) % Word
      /\ \A b : b \notin Counter => cell(a, b) = cell(y, b)
  BY TimerEntered
<1>3. /\ AtROM(c, Body + 9) /\ c.r = a.r /\ c.s = a.s /\ c.f = a.f /\ Rest(c, a)
      /\ \A b : b \notin Frame(a, 12) => cell(c, b) = cell(a, b)
      /\ \A i \in 1..11 : Serving(f[i], a)
  <2>1. \A i \in 1..10 : f[i + 1] = Turn(f[i], q[i])
    OBVIOUS
  <2> QED
    BY <1>2, <2>1, HandlerRuns
<1>4. z = Turn(c, q[11])
  <2>1. 11 \in 1..11 /\ 11 + 1 = 12
    OBVIOUS
  <2> QED
    BY <2>1
<1> HIDE DEF x, w, y, a, c, d, z
<1> DEFINE m6 == 6
           m12 == 12
           m18 == 18
<1>5. /\ m6 \in Nat /\ m6 <= 50 /\ m12 \in Nat /\ m12 <= 50 /\ m6 + m12 = m18 /\ m18 \in Nat
      /\ m6 <= m18
  OBVIOUS
<1>6. /\ y.r = [w.r EXCEPT ![SP] = Below(w, m6)]
      /\ y.s = [w.s EXCEPT ![CS] = Read16Unsafe(w, 4 * 8 + 2)]
      /\ y.h = w.h /\ y.hlt = w.hlt /\ y.exited = w.exited /\ y.ports = w.ports
      /\ \A b : b \notin Frame(w, m6) => cell(y, b) = cell(w, b)
  BY <1>2 DEF Framed
<1>7. \A b : b \notin Frame(a, m12) => cell(c, b) = cell(a, b)
  BY <1>3
<1> HIDE DEF m6, m12, m18
<1>8. a.r[SP] = Below(w, m6) /\ y.r[SP] = Below(w, m6) /\ a.s[SS] = w.s[SS]
  BY <1>1, <1>2, <1>6, Parts, Names DEF CS, SS
<1>9. Frame(a, m12) \subseteq Frame(w, m18) /\ Frame(a, m12) \cap Frame(w, m6) = {}
  BY <1>1, <1>5, <1>8, FrameDeeper
<1>10. Frame(w, m6) \subseteq Frame(w, m18)
  BY <1>5 DEF Frame
<1>11. Counter \cap Frame(w, m18) = {}
  BY <1>1, <1>5, CounterApart
<1>12. z = Iret(d)
  <2> DEFINE l == Body + 9
  <2>1. ROMInPlace(c)
    <3>1. MachineOK(a) /\ StackInRAM(a)
      BY <1>2 DEF Interruptible
    <3> QED
      BY <1>2, <1>5, <1>7, <3>1, ROMStays
  <2>2. ROMByte(c, l) = 207 /\ AtROM(c, l)
    BY <1>3, <2>1, BodyCodes
  <2> HIDE DEF l
  <2>3. cell(c, 15 * Word + l) = 207
    BY <2>2 DEF ROMByte
  <2> QED
    BY <1>4, <2>2, <2>3, IretTurn DEF d
<1>13. /\ MachineOK(d) /\ d.r = c.r /\ d.s = c.s /\ d.mem = c.mem /\ d.f = c.f /\ Rest(d, c)
  <2>1. MachineOK(c)
    BY <1>3 DEF AtROM
  <2> QED
    BY <2>1, Fetched DEF d
<1>14. z = Returned(d, w)
  <2>1. d.s[SS] = w.s[SS] /\ d.r[SP] = y.r[SP]
    BY <1>2, <1>3, <1>8, <1>13
  <2>2. Keeps(d, y, Frame(w, m6))
    BY <1>2, <1>7, <1>9, <1>10, <1>11, <1>13 DEF Keeps, cell
  <2>3. Keeps(d, y, Frame(w, 6))
    BY <2>2 DEF m6
  <2> DEFINE n == 8
  <2>4. n \in Octets /\ Framed(y, w, n)
    <3>1. n \in 0 .. 255
      OBVIOUS
    <3> QED
      BY <1>2, <3>1 DEF Octets, Byte
  <2> HIDE DEF n
  <2>5. Iret(d) = Returned(d, w)
    BY <1>1, <1>13, <2>1, <2>3, <2>4, FramesComeBack
  <2> QED
    BY <1>12, <2>5
<1>15. /\ z.r = [d.r EXCEPT ![SP] = w.r[SP]] /\ z.s = [d.s EXCEPT ![CS] = w.s[CS]]
       /\ z.ip = w.ip /\ z.f = w.f /\ z.mem = d.mem /\ z.h = d.h
       /\ z.hlt = d.hlt /\ z.exited = d.exited /\ z.ports = d.ports
  BY <1>13, <1>14, Fields DEF MachineOK, Returned
<1>16. z.r = w.r /\ z.s = w.s
  <2>1. d.r = y.r /\ d.s = y.s /\ w.r \in [0..7 -> Words] /\ w.s \in [0..5 -> Words]
    BY <1>1, <1>2, <1>3, <1>13, Parts
  <2> QED
    BY <1>6, <1>15, <2>1, Names
<1>17. /\ z.h = w.h /\ z.hlt = w.hlt /\ z.exited = w.exited /\ z.ports = w.ports
  BY <1>2, <1>3, <1>6, <1>13, <1>15 DEF Rest
<1>18. \A b : b \notin Frame(w, m18) \cup Counter => cell(z, b) = cell(w, b)
  BY <1>2, <1>6, <1>7, <1>9, <1>10, <1>13, <1>15 DEF cell
<1>19. Ticks(z) = Ticks(a) /\ Ticks(y) = Ticks(x)
  <2>1. \A b \in Counter : cell(z, b) = cell(a, b) /\ cell(y, b) = cell(w, b) /\ cell(w, b) = cell(x, b)
    BY <1>1, <1>6, <1>7, <1>9, <1>10, <1>11, <1>13, <1>15 DEF cell
  <2>2. 1132 \in Counter /\ 1133 \in Counter
    BY DEF Counter
  <2> QED
    BY <2>1, <2>2, TicksAre
<1>20. Unnoticed(z, x, Frame(x, 18) \cup Counter)
  <2>1. \A b : b \notin Frame(x, 18) \cup Counter => cell(z, b) = cell(x, b)
    BY <1>1, <1>18 DEF m18, cell
  <2> QED
    BY <1>1, <1>15, <1>16, <1>17, <2>1 DEF Unnoticed
<1>21. \A i \in 1..11 : Serving(f[i], x)
  <2>1. a.exited = x.exited
    BY <1>1, <1>2, <1>6 DEF Rest
  <2> QED
    BY <1>3, <2>1 DEF Serving
<1> QED
  BY <1>2, <1>19, <1>20, <1>21 DEF x, z

\* An interrupt of the timer, taken by any program between two instructions or in
\* HLT: after the twelve turns of its handler, with INT 1Ch inside it and whatever
\* the controller requests meanwhile (q), the program goes on with the state it
\* had; only the ticks were counted, and 18 bytes below the stack pointer written
\* (cpu.c: exec86, intcall86, IRET; rom.c: the handler of INT 8).
THEOREM TimerInterruptUnnoticed ==
  ASSUME NEW f, NEW q, Interruptible(f[0]), ROMInPlace(f[0]), f[0].f.ifl = 1,
         f[1] = Turn(f[0], 8), \A i \in 1..11 : f[i + 1] = Turn(f[i], q[i])
  PROVE  /\ Unnoticed(f[12], f[0], Frame(f[0], 18) \cup Counter)
         /\ Ticks(f[12]) = (Ticks(f[0]) + 1) % Word
BY TimerServed

-----------------------------------------------------------------------------
\* The machine x after the first k of the words v were pushed.
Holding(y, x, k, v) ==
  /\ Pushed(y, x, 2 * k)
  /\ \A n \in Nat : 1 <= n /\ n <= k => StackWord(y, Slot(x, n)) = v[n]

InRAM(x) == MachineOK(x) /\ StackInRAM(x)

LEMMA HoldMore ==
  ASSUME NEW x, InRAM(x), NEW k \in Nat, k < 20, NEW v, v[k + 1] \in Words,
         NEW y, Holding(y, x, k, v)
  PROVE  Holding(push16(y, v[k + 1]), x, k + 1, v)
<1> DEFINE z == push16(y, v[k + 1])
           l == k + 1
<1>1. MachineOK(x) /\ StackInRAM(x) /\ k \in 0..20 /\ Pushed(y, x, 2 * k)
  BY DEF InRAM, Holding
<1>2. /\ Pushed(z, x, 2 * l) /\ StackWord(z, Slot(x, l)) = v[l]
      /\ \A o \in Evens \ {Slot(x, l)} : StackWord(z, o) = StackWord(y, o)
  BY <1>1, PushMore DEF Slot
<1>3. ASSUME NEW n \in Nat, 1 <= n, n <= l
      PROVE  StackWord(z, Slot(x, n)) = v[n]
  <2>1. CASE n = l
    BY <1>2, <2>1
  <2>2. CASE n # l
    <3>1. n \in 0..20 /\ l \in 0..20 /\ n # l /\ n <= k
      BY <1>3, <2>2
    <3> HIDE DEF l
    <3>2. Slot(x, n) \in Evens \ {Slot(x, l)}
      BY <1>1, <3>1, Apart DEF Slot
    <3>3. StackWord(y, Slot(x, n)) = v[n]
      BY <1>3, <3>1 DEF Holding
    <3> QED
      BY <1>2, <3>2, <3>3
  <2> QED
    BY <2>1, <2>2
<1> QED
  BY <1>2, <1>3 DEF Holding

LEMMA HoldNothing ==
  ASSUME NEW x, InRAM(x), NEW v
  PROVE  Holding(x, x, 0, v)
<1>1. Pushed(x, x, 0) /\ 2 * 0 = 0
  BY PushedNothing DEF InRAM
<1> QED
  BY <1>1 DEF Holding

\* The words PUSHA pushes, in their order.
Saved(x) ==
  <<x.r[AX], x.r[CX], x.r[DX], x.r[BX], x.r[SP], x.r[BP], x.r[SI], x.r[DI]>>

LEMMA AllHeld ==
  ASSUME NEW x, InRAM(x)
  PROVE  Holding(PUSHA(x), x, 8, Saved(x))
<1> DEFINE v == Saved(x)
<1>1. /\ v[1] = x.r[AX] /\ v[2] = x.r[CX] /\ v[3] = x.r[DX] /\ v[4] = x.r[BX]
      /\ v[5] = x.r[SP] /\ v[6] = x.r[BP] /\ v[7] = x.r[SI] /\ v[8] = x.r[DI]
  BY DEF Saved
<1>2. \A i \in 1..8 : v[i] \in Words
  <2>1. /\ v[1] \in Words /\ v[2] \in Words /\ v[3] \in Words /\ v[4] \in Words
        /\ v[5] \in Words /\ v[6] \in Words /\ v[7] \in Words /\ v[8] \in Words
    BY <1>1, Parts, Names DEF InRAM
  <2> QED
    BY <2>1
<1> HIDE DEF v
<1>3. \A k \in 0..7 : \A y : Holding(y, x, k, v) => Holding(push16(y, v[k + 1]), x, k + 1, v)
  <2> SUFFICES ASSUME NEW k \in 0..7, NEW y, Holding(y, x, k, v)
               PROVE  Holding(push16(y, v[k + 1]), x, k + 1, v)
    OBVIOUS
  <2>1. k \in Nat /\ k < 20 /\ v[k + 1] \in Words
    BY <1>2
  <2> QED
    BY <2>1, HoldMore
<1>4. /\ \A y : Holding(y, x, 0, v) => Holding(push16(y, v[1]), x, 1, v)
      /\ \A y : Holding(y, x, 1, v) => Holding(push16(y, v[2]), x, 2, v)
      /\ \A y : Holding(y, x, 2, v) => Holding(push16(y, v[3]), x, 3, v)
      /\ \A y : Holding(y, x, 3, v) => Holding(push16(y, v[4]), x, 4, v)
      /\ \A y : Holding(y, x, 4, v) => Holding(push16(y, v[5]), x, 5, v)
      /\ \A y : Holding(y, x, 5, v) => Holding(push16(y, v[6]), x, 6, v)
      /\ \A y : Holding(y, x, 6, v) => Holding(push16(y, v[7]), x, 7, v)
      /\ \A y : Holding(y, x, 7, v) => Holding(push16(y, v[8]), x, 8, v)
  <2>1. /\ 0 \in 0..7 /\ 1 \in 0..7 /\ 2 \in 0..7 /\ 3 \in 0..7
        /\ 4 \in 0..7 /\ 5 \in 0..7 /\ 6 \in 0..7 /\ 7 \in 0..7
        /\ 0 + 1 = 1 /\ 1 + 1 = 2 /\ 2 + 1 = 3 /\ 3 + 1 = 4
        /\ 4 + 1 = 5 /\ 5 + 1 = 6 /\ 6 + 1 = 7 /\ 7 + 1 = 8
    OBVIOUS
  <2> QED
    BY <1>3, <2>1, ZenonT(30)
<1>5. Holding(x, x, 0, v)
  BY HoldNothing
<1> DEFINE a1 == push16(x, v[1])
           a2 == push16(a1, v[2])
           a3 == push16(a2, v[3])
           a4 == push16(a3, v[4])
           a5 == push16(a4, v[5])
           a6 == push16(a5, v[6])
           a7 == push16(a6, v[7])
<1>6. Holding(a1, x, 1, v)
  BY <1>4, <1>5
<1> HIDE DEF a1
<1>7. Holding(a2, x, 2, v)
  BY <1>4, <1>6
<1> HIDE DEF a2
<1>8. Holding(a3, x, 3, v)
  BY <1>4, <1>7
<1> HIDE DEF a3
<1>9. Holding(a4, x, 4, v)
  BY <1>4, <1>8
<1> HIDE DEF a4
<1>10. Holding(a5, x, 5, v)
  BY <1>4, <1>9
<1> HIDE DEF a5
<1>11. Holding(a6, x, 6, v)
  BY <1>4, <1>10
<1> HIDE DEF a6
<1>12. Holding(a7, x, 7, v)
  BY <1>4, <1>11
<1> HIDE DEF a7
<1>13. Holding(push16(a7, v[8]), x, 8, v)
  BY <1>4, <1>12
<1>14. PUSHA(x) = push16(a7, v[8])
  BY <1>1 DEF PUSHA, Push2, a7, a6, a5, a4, a3, a2, a1
<1> QED
  BY <1>13, <1>14 DEF v

\* z popped down to the k-th word: nothing but registers has changed.  A pop puts the
\* word v into register i.
PoppedTo(y, z, x, k) ==
  /\ MachineOK(y) /\ y.r[SP] = Slot(x, k)
  /\ y = z \/ y = [z EXCEPT !.r = y.r]

OnePop(t, y, z, x, k, i, v) ==
  /\ PoppedTo(t, z, x, k) /\ t = [z EXCEPT !.r = t.r]
  /\ t.r = [y.r EXCEPT ![SP] = Slot(x, k), ![i] = v]

LEMMA PopNext ==
  ASSUME NEW x, InRAM(x), NEW z, MachineOK(z), NEW k \in Nat, k <= 20, NEW l, l = k + 1,
         NEW y, PoppedTo(y, z, x, l), NEW i \in 0..7, i # SP, NEW v, StackWord(z, Slot(x, l)) = v
  PROVE  OnePop(PopR(y, i), y, z, x, k, i, v)
<1> DEFINE t == PopR(y, i)
<1>1. /\ MachineOK(x) /\ MachineOK(y) /\ y.r[SP] = Slot(x, k + 1)
      /\ y = z \/ y = [z EXCEPT !.r = y.r]
  BY DEF InRAM, PoppedTo
<1>2. y.s = z.s /\ y.mem = z.mem
  BY <1>1, Fields DEF MachineOK
<1>3. StackWord(y, y.r[SP]) = v
  BY <1>1, <1>2 DEF StackWord, Read16Unsafe, cell
<1>4. (y.r[SP] + 2) % Word = Slot(x, k)
  BY <1>1, SlotAbove, Zenon
<1>5. t = [y EXCEPT !.r[SP] = Slot(x, k), !.r[i] = v]
  BY <1>1, <1>3, <1>4, PopRIs, ZenonT(60)
<1>6. MachineOK(t)
  BY <1>1, PopOK
<1> HIDE DEF t
<1>7. t.r = [y.r EXCEPT ![SP] = Slot(x, k), ![i] = v] /\ t = [y EXCEPT !.r = t.r]
  BY <1>1, <1>5, Fields DEF MachineOK
<1>8. t = [z EXCEPT !.r = t.r]
  BY <1>1, <1>7
<1>9. t.r[SP] = Slot(x, k)
  BY <1>1, <1>7, Parts, Names
<1> QED
  BY <1>6, <1>7, <1>8, <1>9 DEF PoppedTo, OnePop, t

LEMMA DropNext ==
  ASSUME NEW x, InRAM(x), NEW z, NEW k \in Nat, k <= 20, NEW l, l = k + 1,
         NEW y, PoppedTo(y, z, x, l)
  PROVE  PoppedTo(Drop(y), z, x, k) /\ Drop(y).r = [y.r EXCEPT ![SP] = Slot(x, k)]
<1> DEFINE t == Drop(y)
<1>1. /\ MachineOK(x) /\ MachineOK(y) /\ y.r[SP] = Slot(x, k + 1)
      /\ y = z \/ y = [z EXCEPT !.r = y.r]
  BY DEF InRAM, PoppedTo
<1>2. (y.r[SP] + 2) % Word = Slot(x, k)
  BY <1>1, SlotAbove
<1>3. t = [y EXCEPT !.r[SP] = Slot(x, k)] /\ MachineOK(t)
  BY <1>1, <1>2, PopParts
<1> HIDE DEF t
<1>4. t.r = [y.r EXCEPT ![SP] = Slot(x, k)] /\ t = [y EXCEPT !.r = t.r]
  BY <1>1, <1>3, Fields DEF MachineOK
<1>5. t = [z EXCEPT !.r = t.r]
  BY <1>1, <1>4
<1>6. t.r[SP] = Slot(x, k)
  BY <1>1, <1>4, Parts, Names
<1> QED
  BY <1>3, <1>4, <1>5, <1>6 DEF PoppedTo, t

LEMMA SlotZero ==
  ASSUME NEW x, InRAM(x)
  PROVE  Slot(x, 0) = x.r[SP]
<1>1. x.r[SP] \in Words
  BY Parts, Names DEF InRAM
<1>2. x.r[SP] - 0 = x.r[SP] /\ 0 <= x.r[SP] /\ 0 < Word /\ 0 \in Nat /\ 2 * 0 = 0
  BY <1>1, Numbers8, Sizes
<1> QED
  BY <1>1, <1>2, Down DEF Slot, Below, Lower

\* What a program may do between a push of n bytes and the pop: anything, if the
\* stack is the same and the pushed bytes are left alone.
Balanced(z, y, x, n) ==
  MachineOK(z) /\ z.s[SS] = x.s[SS] /\ z.r[SP] = y.r[SP] /\ Keeps(z, y, Frame(x, n))

LEMMA HeldStill ==
  ASSUME NEW x, InRAM(x), NEW k \in Nat, k <= 20, NEW v, NEW y, Holding(y, x, k, v),
         NEW z, Balanced(z, y, x, 2 * k)
  PROVE  /\ PoppedTo(z, z, x, k)
         /\ \A n \in Nat : 1 <= n /\ n <= k => StackWord(z, Slot(x, n)) = v[n]
<1> DEFINE e == 2 * k
<1>1. e \in Nat /\ MachineOK(x) /\ StackInRAM(x) /\ MachineOK(z) /\ Pushed(y, x, e)
      /\ z.s[SS] = x.s[SS] /\ z.r[SP] = y.r[SP] /\ Keeps(z, y, Frame(x, e))
  BY DEF InRAM, Holding, Balanced
<1>2. \A n \in Nat : 1 <= n /\ n <= k => 2 * n <= e /\ n <= 20
  OBVIOUS
<1>3. y.s = x.s /\ y.r[SP] = Slot(x, k)
  BY <1>1, Parts, Names DEF Pushed, Slot
<1> HIDE DEF e
<1>4. ASSUME NEW n \in Nat, 1 <= n, n <= k
      PROVE  StackWord(z, Slot(x, n)) = v[n]
  <2>1. 2 * n <= e /\ n <= 20 /\ y.s[SS] = x.s[SS]
    BY <1>2, <1>3, <1>4
  <2>2. StackWord(z, Slot(x, n)) = StackWord(y, Slot(x, n))
    BY <1>1, <1>4, <2>1, WordsKept
  <2> QED
    BY <1>4, <2>2 DEF Holding
<1> QED
  BY <1>1, <1>3, <1>4 DEF PoppedTo

\* POPA gives back what PUSHA saved, all eight registers, whatever the program did
\* between them and around the end of the stack segment: it does not load SP, which
\* is right because all eight words are popped (cpu.c: PUSHA, POPA).
THEOREM RegistersComeBack ==
  ASSUME NEW x, InRAM(x), NEW z, Balanced(z, PUSHA(x), x, 16)
  PROVE  POPA(z) = [z EXCEPT !.r = x.r]
<1> DEFINE v == Saved(x)
           o(k) == Slot(x, k)
<1>1. PoppedTo(z, z, x, 8) /\ \A n \in 1..8 : StackWord(z, o(n)) = v[n]
  <2> DEFINE k == 8
             y == PUSHA(x)
  <2>1. k \in Nat /\ k <= 20 /\ 2 * k = 16 /\ \A n \in 1..8 : n \in Nat /\ 1 <= n /\ n <= k
    OBVIOUS
  <2>2. Holding(y, x, k, v)
    BY AllHeld
  <2>3. Balanced(z, y, x, 2 * k)
    BY <2>1
  <2> HIDE DEF k, y, v
  <2>4. /\ PoppedTo(z, z, x, k)
        /\ \A n \in Nat : 1 <= n /\ n <= k => StackWord(z, Slot(x, n)) = v[n]
    BY <2>1, <2>2, <2>3, HeldStill
  <2> QED
    BY <2>1, <2>4 DEF k
<1>2. /\ StackWord(z, o(1)) = x.r[AX] /\ StackWord(z, o(2)) = x.r[CX]
      /\ StackWord(z, o(3)) = x.r[DX] /\ StackWord(z, o(4)) = x.r[BX]
      /\ StackWord(z, o(6)) = x.r[BP] /\ StackWord(z, o(7)) = x.r[SI]
      /\ StackWord(z, o(8)) = x.r[DI]
  BY <1>1 DEF Saved
<1>3. MachineOK(z)
  BY DEF Balanced
<1>4. /\ AX # SP /\ CX # SP /\ DX # SP /\ BX # SP /\ BP # SP /\ SI # SP /\ DI # SP
  BY DEF AX, CX, DX, BX, SP, BP, SI, DI
<1> DEFINE b8 == PopR(z, DI)
           b7 == PopR(b8, SI)
           b6 == PopR(b7, BP)
           b5 == Drop(b6)
           b4 == PopR(b5, BX)
           b3 == PopR(b4, DX)
           b2 == PopR(b3, CX)
           b1 == PopR(b2, AX)
<1>5. OnePop(b8, z, z, x, 7, DI, x.r[DI])
  <2> DEFINE k == 7
             l == 8
  <2>1. /\ k \in Nat /\ k <= 20 /\ l = k + 1 /\ PoppedTo(z, z, x, l)
        /\ StackWord(z, Slot(x, l)) = x.r[DI]
    BY <1>2, <1>1 DEF OnePop, o
  <2> HIDE DEF k, l
  <2>2. OnePop(PopR(z, DI), z, z, x, k, DI, x.r[DI])
    BY <1>3, <1>4, <2>1, PopNext, Names
  <2> QED
    BY <2>2 DEF k, b8
<1> HIDE DEF b8
<1>6. OnePop(b7, b8, z, x, 6, SI, x.r[SI])
  <2> DEFINE k == 6
             l == 7
  <2>1. /\ k \in Nat /\ k <= 20 /\ l = k + 1 /\ PoppedTo(b8, z, x, l)
        /\ StackWord(z, Slot(x, l)) = x.r[SI]
    BY <1>2, <1>5 DEF OnePop, o
  <2> HIDE DEF k, l
  <2>2. OnePop(PopR(b8, SI), b8, z, x, k, SI, x.r[SI])
    BY <1>3, <1>4, <2>1, PopNext, Names
  <2> QED
    BY <2>2 DEF k, b7
<1> HIDE DEF b7
<1>7. OnePop(b6, b7, z, x, 5, BP, x.r[BP])
  <2> DEFINE k == 5
             l == 6
  <2>1. /\ k \in Nat /\ k <= 20 /\ l = k + 1 /\ PoppedTo(b7, z, x, l)
        /\ StackWord(z, Slot(x, l)) = x.r[BP]
    BY <1>2, <1>6 DEF OnePop, o
  <2> HIDE DEF k, l
  <2>2. OnePop(PopR(b7, BP), b7, z, x, k, BP, x.r[BP])
    BY <1>3, <1>4, <2>1, PopNext, Names
  <2> QED
    BY <2>2 DEF k, b6
<1> HIDE DEF b6
<1>8. PoppedTo(b5, z, x, 4) /\ b5.r = [b6.r EXCEPT ![SP] = Slot(x, 4)]
  <2> DEFINE k == 4
             l == 5
  <2>1. k \in Nat /\ k <= 20 /\ l = k + 1 /\ PoppedTo(b6, z, x, l)
    BY <1>7 DEF OnePop
  <2> HIDE DEF k, l
  <2>2. PoppedTo(b5, z, x, k) /\ b5.r = [b6.r EXCEPT ![SP] = Slot(x, k)]
    BY <2>1, DropNext
  <2> QED
    BY <2>2 DEF k
<1> HIDE DEF b5
<1>9. OnePop(b4, b5, z, x, 3, BX, x.r[BX])
  <2> DEFINE k == 3
             l == 4
  <2>1. /\ k \in Nat /\ k <= 20 /\ l = k + 1 /\ PoppedTo(b5, z, x, l)
        /\ StackWord(z, Slot(x, l)) = x.r[BX]
    BY <1>2, <1>8 DEF OnePop, o
  <2> HIDE DEF k, l
  <2>2. OnePop(PopR(b5, BX), b5, z, x, k, BX, x.r[BX])
    BY <1>3, <1>4, <2>1, PopNext, Names
  <2> QED
    BY <2>2 DEF k, b4
<1> HIDE DEF b4
<1>10. OnePop(b3, b4, z, x, 2, DX, x.r[DX])
  <2> DEFINE k == 2
             l == 3
  <2>1. /\ k \in Nat /\ k <= 20 /\ l = k + 1 /\ PoppedTo(b4, z, x, l)
        /\ StackWord(z, Slot(x, l)) = x.r[DX]
    BY <1>2, <1>9 DEF OnePop, o
  <2> HIDE DEF k, l
  <2>2. OnePop(PopR(b4, DX), b4, z, x, k, DX, x.r[DX])
    BY <1>3, <1>4, <2>1, PopNext, Names
  <2> QED
    BY <2>2 DEF k, b3
<1> HIDE DEF b3
<1>11. OnePop(b2, b3, z, x, 1, CX, x.r[CX])
  <2> DEFINE k == 1
             l == 2
  <2>1. /\ k \in Nat /\ k <= 20 /\ l = k + 1 /\ PoppedTo(b3, z, x, l)
        /\ StackWord(z, Slot(x, l)) = x.r[CX]
    BY <1>2, <1>10 DEF OnePop, o
  <2> HIDE DEF k, l
  <2>2. OnePop(PopR(b3, CX), b3, z, x, k, CX, x.r[CX])
    BY <1>3, <1>4, <2>1, PopNext, Names
  <2> QED
    BY <2>2 DEF k, b2
<1> HIDE DEF b2
<1>12. OnePop(b1, b2, z, x, 0, AX, x.r[AX])
  <2> DEFINE k == 0
             l == 1
  <2>1. /\ k \in Nat /\ k <= 20 /\ l = k + 1 /\ PoppedTo(b2, z, x, l)
        /\ StackWord(z, Slot(x, l)) = x.r[AX]
    BY <1>2, <1>11 DEF OnePop, o
  <2> HIDE DEF k, l
  <2>2. OnePop(PopR(b2, AX), b2, z, x, k, AX, x.r[AX])
    BY <1>3, <1>4, <2>1, PopNext, Names
  <2> QED
    BY <2>2 DEF k, b1
<1>13. b1 = POPA(z)
  BY DEF POPA, b2, b3, b4, b5, b6, b7, b8
<1> HIDE DEF b1
<1>14. Slot(x, 0) = x.r[SP]
  BY SlotZero
<1>15. b1.r = x.r
  <2>1. z.r \in [0..7 -> Words] /\ x.r \in [0..7 -> Words] /\ b1.r \in [0..7 -> Words]
    BY <1>3, <1>12, Parts DEF InRAM, OnePop, PoppedTo
  <2>2. AX = 0 /\ CX = 1 /\ DX = 2 /\ BX = 3 /\ SP = 4 /\ BP = 5 /\ SI = 6 /\ DI = 7
    BY DEF AX, CX, DX, BX, SP, BP, SI, DI
  <2>3. b8.r = [z.r EXCEPT ![4] = Slot(x, 7), ![7] = x.r[7]]
    BY <1>5, <2>2 DEF OnePop
  <2>4. b6.r = [z.r EXCEPT ![4] = Slot(x, 5), ![7] = x.r[7], ![6] = x.r[6], ![5] = x.r[5]]
    BY <1>6, <1>7, <2>1, <2>2, <2>3 DEF OnePop
  <2>5. b4.r = [z.r EXCEPT ![4] = Slot(x, 3), ![7] = x.r[7], ![6] = x.r[6], ![5] = x.r[5],
                           ![3] = x.r[3]]
    BY <1>8, <1>9, <2>1, <2>2, <2>4 DEF OnePop
  <2>6. b2.r = [z.r EXCEPT ![4] = Slot(x, 1), ![7] = x.r[7], ![6] = x.r[6], ![5] = x.r[5],
                           ![3] = x.r[3], ![2] = x.r[2], ![1] = x.r[1]]
    BY <1>10, <1>11, <2>1, <2>2, <2>5 DEF OnePop
  <2>7. b1.r = [b2.r EXCEPT ![4] = x.r[4], ![0] = x.r[0]]
    BY <1>12, <1>14, <2>2 DEF OnePop
  <2>8. \A i \in 0..7 : b1.r[i] = x.r[i]
    <3>1. \A i \in 0..7 : i \in {0, 1, 2, 3, 4, 5, 6, 7}
      OBVIOUS
    <3> QED
      BY <2>1, <2>6, <2>7, <3>1
  <2> QED
    BY <2>1, <2>8
<1> QED
  BY <1>12, <1>13, <1>15 DEF OnePop

\* The instruction behind an operand of n bytes.
Behind(x, n) == AdvanceIP(x, n)

LEMMA BehindIs ==
  ASSUME NEW x, InRAM(x), NEW n \in Nat
  PROVE  LET t == Behind(x, n)
         IN  /\ InRAM(t) /\ t.r = x.r /\ t.s = x.s /\ t.mem = x.mem
             /\ t.ip = (x.ip + n) % Word /\ t.ip \in Words
             /\ \A k : Slot(t, k) = Slot(x, k) /\ Frame(t, k) = Frame(x, k)
<1> DEFINE t == Behind(x, n)
<1>1. MachineOK(x) /\ StackInRAM(x) /\ n \in Int
  BY DEF InRAM
<1>2. MachineOK(t)
  BY <1>1, AdvanceOK DEF Behind
<1>3. t.r = x.r /\ t.s = x.s /\ t.mem = x.mem /\ t.ip = (x.ip + n) % Word
  BY <1>1, Fields DEF Behind, AdvanceIP, MachineOK
<1> HIDE DEF t
<1>4. InRAM(t)
  BY <1>1, <1>2, <1>3 DEF InRAM, StackInRAM
<1>5. t.ip \in Words
  BY <1>2, Parts
<1>6. \A k : Slot(t, k) = Slot(x, k) /\ Frame(t, k) = Frame(x, k)
  BY <1>3 DEF Slot, Below, Frame
<1> QED
  BY <1>3, <1>4, <1>5, <1>6 DEF t

LEMMA BalancedAs ==
  ASSUME NEW z, NEW x, NEW t, t.s = x.s, NEW n, Frame(t, n) = Frame(x, n),
         NEW y, NEW p, p.r = y.r, p.mem = y.mem, Balanced(z, y, x, n)
  PROVE  Balanced(z, p, t, n)
BY DEF Balanced, Keeps, cell

\* A near call: RET goes on behind the operand of CALL, and the form with an
\* operand also removes that many bytes of parameters, if the function leaves the
\* return address alone and ends with the stack pointer it began with, also when
\* the stack wraps around its segment (cpu.c: CALL Jv, RET, RET Iw).
THEOREM NearCallReturns ==
  ASSUME NEW x, InRAM(x), NEW z, Balanced(z, JumpCall(x, 232), x, 2),
         NEW q, q = Read16Long(z, z.s[CS], z.ip)
  PROVE  /\ Ret(z, 195) = [z EXCEPT !.r[SP] = x.r[SP], !.ip = (x.ip + 2) % Word]
         /\ Ret(z, 194) = [z EXCEPT !.r[SP] = (x.r[SP] + q) % Word, !.ip = (x.ip + 2) % Word]
<1> DEFINE t == Behind(x, 2)
           p == push16(t, t.ip)
           y == JumpCall(x, 232)
           k == 1
           e == 2
<1>1. /\ InRAM(t) /\ t.r = x.r /\ t.s = x.s
      /\ t.ip = (x.ip + 2) % Word /\ t.ip \in Words
      /\ \A n : Slot(t, n) = Slot(x, n) /\ Frame(t, n) = Frame(x, n)
  <2> DEFINE w == 2
  <2>1. w \in Nat
    OBVIOUS
  <2> HIDE DEF w
  <2>2. LET a == Behind(x, w)
        IN  /\ InRAM(a) /\ a.r = x.r /\ a.s = x.s
            /\ a.ip = (x.ip + w) % Word /\ a.ip \in Words
            /\ \A n : Slot(a, n) = Slot(x, n) /\ Frame(a, n) = Frame(x, n)
    BY <2>1, BehindIs
  <2> QED
    BY <2>2 DEF w
<1>2. y = AdvanceIP(p, Code16(x))
  BY DEF JumpCall, Behind
<1> HIDE DEF t, y
<1> DEFINE v == <<t.ip>>
<1>3. Holding(p, t, 1, v)
  <2> DEFINE o == 0
  <2>1. o \in Nat /\ o < 20 /\ o + 1 = 1 /\ v[1] = t.ip /\ v[o + 1] \in Words
    BY <1>1
  <2>2. Holding(t, t, o, v)
    BY <1>1, HoldNothing
  <2> HIDE DEF o, v
  <2>3. Holding(push16(t, v[o + 1]), t, o + 1, v)
    BY <1>1, <2>1, <2>2, HoldMore
  <2> QED
    BY <2>1, <2>3
<1>4. y.r = p.r /\ y.mem = p.mem
  <2>1. MachineOK(t) /\ StackInRAM(t)
    BY <1>1 DEF InRAM
  <2>2. MachineOK(p)
    BY <1>3 DEF Holding, Pushed
  <2> HIDE DEF p
  <2> QED
    BY <1>2, <2>2, Fields DEF AdvanceIP, MachineOK
<1> HIDE DEF p, k, e
<1>5. e = 2 * k /\ k \in Nat /\ k <= 20 /\ k = 1 /\ e = 2
  BY DEF e, k
<1>6. Balanced(z, y, x, e)
  BY <1>5 DEF y
<1>7. Balanced(z, p, t, e)
  BY <1>1, <1>4, <1>6, BalancedAs
<1> HIDE DEF v
<1>8. /\ PoppedTo(z, z, t, k)
      /\ \A n \in Nat : 1 <= n /\ n <= k => StackWord(z, Slot(t, n)) = v[n]
  <2>1. Holding(p, t, k, v) /\ Balanced(z, p, t, 2 * k)
    BY <1>3, <1>5, <1>7
  <2> QED
    BY <1>1, <1>5, <2>1, HeldStill
<1>9. StackWord(z, z.r[SP]) = t.ip /\ z.r[SP] = Slot(t, 1) /\ MachineOK(z)
  BY <1>5, <1>8 DEF v, PoppedTo
<1>10. (z.r[SP] + 2) % Word = x.r[SP]
  <2> DEFINE o == 0
  <2>1. o \in Nat /\ o <= 20 /\ o + 1 = 1
    OBVIOUS
  <2>2. MachineOK(t)
    BY <1>1 DEF InRAM
  <2> HIDE DEF o
  <2>3. (Slot(t, o + 1) + 2) % Word = Slot(t, o)
    BY <2>1, <2>2, SlotAbove
  <2>4. Slot(t, 0) = t.r[SP]
    BY <1>1, SlotZero
  <2> QED
    BY <1>1, <1>9, <2>1, <2>3, <2>4 DEF o
<1>11. PopIP(z) = [z EXCEPT !.r[SP] = x.r[SP], !.ip = (x.ip + 2) % Word]
  BY <1>1, <1>9, <1>10, PopIPIs, Zenon
<1>12. Ret(z, 195) = PopIP(z) /\ Ret(z, 194) = Add(PopIP(z), SP, q)
  BY DEF Ret
<1>13. Add(PopIP(z), SP, q) = [z EXCEPT !.r[SP] = (x.r[SP] + q) % Word, !.ip = (x.ip + 2) % Word]
  <2> DEFINE u == PopIP(z)
             a == (x.r[SP] + q) % Word
             b == (x.ip + 2) % Word
  <2>1. z.r \in [0..7 -> Words] /\ SP \in 0..7
    BY <1>9, Parts, Names
  <2>2. u = [z EXCEPT !.r = [z.r EXCEPT ![SP] = x.r[SP]], !.ip = b]
    BY <1>11
  <2> HIDE DEF u, b
  <2>3. u.r = [z.r EXCEPT ![SP] = x.r[SP]]
    BY <1>9, <2>2, Fields DEF MachineOK
  <2>4. Add(u, SP, q) = [u EXCEPT !.r = [u.r EXCEPT ![SP] = a]]
    BY <2>1, <2>3 DEF Add
  <2> HIDE DEF a
  <2>5. [u.r EXCEPT ![SP] = a] = [z.r EXCEPT ![SP] = a]
    BY <2>1, <2>3
  <2>6. Add(u, SP, q) = [z EXCEPT !.r = [z.r EXCEPT ![SP] = a], !.ip = b]
    BY <1>9, <2>2, <2>4, <2>5, Fields DEF MachineOK
  <2> QED
    BY <2>6 DEF u, a, b
<1> QED
  BY <1>11, <1>12, <1>13

\* A far call: RETF restores cs and goes on behind the operand of CALL, under the
\* same condition (cpu.c: CALL Ap, RETF).
THEOREM FarCallReturns ==
  ASSUME NEW x, InRAM(x), NEW z, Balanced(z, CallFar(x), x, 4)
  PROVE  Retf(z, 203) = [z EXCEPT !.r[SP] = x.r[SP], !.s[CS] = x.s[CS], !.ip = (x.ip + 4) % Word]
<1> DEFINE t == Behind(x, 4)
           a == push16(t, x.s[CS])
           p == push16(a, t.ip)
           y == CallFar(x)
<1>1. /\ InRAM(t) /\ t.r = x.r /\ t.s = x.s
      /\ t.ip = (x.ip + 4) % Word /\ t.ip \in Words
      /\ \A n : Slot(t, n) = Slot(x, n) /\ Frame(t, n) = Frame(x, n)
  <2> DEFINE w == 4
  <2>1. w \in Nat
    OBVIOUS
  <2> HIDE DEF w
  <2>2. LET b == Behind(x, w)
        IN  /\ InRAM(b) /\ b.r = x.r /\ b.s = x.s
            /\ b.ip = (x.ip + w) % Word /\ b.ip \in Words
            /\ \A n : Slot(b, n) = Slot(x, n) /\ Frame(b, n) = Frame(x, n)
    BY <2>1, BehindIs
  <2> QED
    BY <2>2 DEF w
<1>2. y = [p EXCEPT !.ip = Code16(x), !.s[CS] = Code16(AdvanceIP(x, 2))]
  BY DEF CallFar, Behind
<1> HIDE DEF t, y
<1> DEFINE v == <<x.s[CS], t.ip>>
<1>3. v[1] = x.s[CS] /\ v[2] = t.ip /\ v[1] \in Words /\ v[2] \in Words
  <2>1. x.s[CS] \in Words
    BY Parts, Names DEF InRAM
  <2> QED
    BY <1>1, <2>1
<1> HIDE DEF v
<1>4. Holding(a, t, 1, v)
  <2> DEFINE o == 0
  <2>1. o \in Nat /\ o < 20 /\ o + 1 = 1 /\ v[o + 1] \in Words
    BY <1>3
  <2>2. Holding(t, t, o, v)
    BY <1>1, HoldNothing
  <2> HIDE DEF o
  <2>3. Holding(push16(t, v[o + 1]), t, o + 1, v)
    BY <1>1, <2>1, <2>2, HoldMore
  <2> QED
    BY <1>3, <2>1, <2>3
<1> HIDE DEF a
<1>5. Holding(p, t, 2, v)
  <2> DEFINE o == 1
  <2>1. o \in Nat /\ o < 20 /\ o + 1 = 2 /\ v[o + 1] \in Words
    BY <1>3
  <2>2. Holding(a, t, o, v)
    BY <1>4
  <2> HIDE DEF o
  <2>3. Holding(push16(a, v[o + 1]), t, o + 1, v)
    BY <1>1, <2>1, <2>2, HoldMore
  <2> QED
    BY <1>3, <2>1, <2>3
<1>6. y.r = p.r /\ y.mem = p.mem
  <2>1. MachineOK(p)
    BY <1>5 DEF Holding, Pushed
  <2> HIDE DEF p
  <2> QED
    BY <1>2, <2>1, Fields DEF MachineOK
<1> DEFINE k == 2
           e == 4
<1> HIDE DEF p, k, e
<1>7. e = 2 * k /\ k \in Nat /\ k <= 20 /\ k = 2 /\ e = 4
  BY DEF e, k
<1>8. Balanced(z, p, t, e)
  <2>1. Balanced(z, y, x, e)
    BY <1>7 DEF y
  <2> QED
    BY <1>1, <1>6, <2>1, BalancedAs
<1>9. /\ PoppedTo(z, z, t, k)
      /\ \A n \in Nat : 1 <= n /\ n <= k => StackWord(z, Slot(t, n)) = v[n]
  <2>1. Holding(p, t, k, v) /\ Balanced(z, p, t, 2 * k)
    BY <1>5, <1>7, <1>8
  <2> QED
    BY <1>1, <1>7, <2>1, HeldStill
<1>10. /\ StackWord(z, Slot(t, 2)) = t.ip /\ StackWord(z, Slot(t, 1)) = x.s[CS]
       /\ z.r[SP] = Slot(t, 2) /\ MachineOK(z)
  BY <1>3, <1>7, <1>9 DEF PoppedTo
<1>11. (Slot(t, 2) + 2) % Word = Slot(t, 1) /\ (Slot(t, 1) + 2) % Word = x.r[SP]
  <2>1. \A o \in 0..1 : (Slot(t, o + 1) + 2) % Word = Slot(t, o)
    <3>1. MachineOK(t) /\ \A o \in 0..1 : o \in Nat /\ o <= 20
      BY <1>1 DEF InRAM
    <3> QED
      BY <3>1, SlotAbove
  <2>2. Slot(t, 0) = t.r[SP]
    BY <1>1, SlotZero
  <2> QED
    BY <1>1, <2>1, <2>2
<1> DEFINE b == PopIP(z)
<1>12. b = [z EXCEPT !.r[SP] = Slot(t, 1), !.ip = t.ip]
  BY <1>10, <1>11, PopIPIs, ZenonT(60)
<1>13. MachineOK(b)
  BY <1>10, PopOK
<1> HIDE DEF b
<1>14. /\ b.r[SP] = Slot(t, 1) /\ b.r = [z.r EXCEPT ![SP] = Slot(t, 1)] /\ b.s = z.s /\ b.mem = z.mem
       /\ b = [z EXCEPT !.r = b.r, !.ip = t.ip]
  BY <1>10, <1>12, Fields, Names DEF MachineOK
<1>15. StackWord(b, b.r[SP]) = x.s[CS]
  BY <1>10, <1>14 DEF StackWord, Read16Unsafe, cell
<1>16. PopS(b, CS) = [b EXCEPT !.r[SP] = x.r[SP], !.s[CS] = x.s[CS]]
  <2>1. (b.r[SP] + 2) % Word = x.r[SP] /\ CS \in 0..5
    BY <1>11, <1>14, Names
  <2>2. PopS(b, CS) =
          [b EXCEPT !.r[SP] = (b.r[SP] + 2) % Word, !.s[CS] = StackWord(b, b.r[SP])]
    BY <1>13, <2>1, PopSIs, Zenon
  <2> QED
    BY <1>15, <2>1, <2>2
<1>17. PopS(b, CS) = [z EXCEPT !.r[SP] = x.r[SP], !.s[CS] = x.s[CS], !.ip = t.ip]
  <2> DEFINE c == x.s[CS]
             o == x.r[SP]
  <2>1. PopS(b, CS) = [b EXCEPT !.r = [b.r EXCEPT ![SP] = o], !.s = [b.s EXCEPT ![CS] = c]]
    BY <1>16
  <2>2. [b.r EXCEPT ![SP] = o] = [z.r EXCEPT ![SP] = o] /\ [b.s EXCEPT ![CS] = c] = [z.s EXCEPT ![CS] = c]
    BY <1>10, <1>14, Parts, Names
  <2> HIDE DEF c, o
  <2>3. PopS(b, CS) = [z EXCEPT !.r = [z.r EXCEPT ![SP] = o], !.s = [z.s EXCEPT ![CS] = c], !.ip = t.ip]
    BY <1>10, <1>14, <2>1, <2>2, Fields DEF MachineOK
  <2> QED
    BY <2>3 DEF c, o
<1>18. Retf(z, 203) = PopS(b, CS)
  BY DEF Retf, b
<1> QED
  BY <1>1, <1>17, <1>18

-----------------------------------------------------------------------------
\* A program in memory: the pieces a job is loaded from do not overlap.
LEMMA OnlyPiece ==
  ASSUME NEW P, NEW p \in P, NEW a \in DOMAIN p, \A q \in P : a \in DOMAIN q => q = p
  PROVE  a \in DOMAIN Together(P) /\ Together(P)[a] = p[a]
<1>1. a \in UNION {DOMAIN b : b \in P}
  OBVIOUS
<1>2. (CHOOSE b \in P : a \in DOMAIN b) = p
  OBVIOUS
<1> QED
  BY <1>1, <1>2 DEF Together

Between(q, lo, hi) == \A a \in DOMAIN q : a \in Int /\ lo <= a /\ a <= hi

LEMMA AtBetween ==
  ASSUME NEW bytes, NEW n \in Nat, Len(bytes) = n, NEW a \in Nat, NEW hi \in Nat, a + n - 1 <= hi
  PROVE  Between(At(bytes, a), a, hi)
BY DEF At, Between

LEMMA FourBetween ==
  ASSUME NEW b1, NEW b2, NEW b3, NEW b4, NEW a \in Nat
  PROVE  Between(At(<<b1, b2, b3, b4>>, a), a, a + 3)
<1> DEFINE bytes == <<b1, b2, b3, b4>>
<1>1. Len(bytes) = 4 /\ 4 \in Nat /\ a + 3 \in Nat /\ a + 4 - 1 <= a + 3
  OBVIOUS
<1> HIDE DEF bytes
<1>2. Between(At(bytes, a), a, a + 3)
  BY <1>1, AtBetween
<1> QED
  BY <1>2 DEF bytes

\* A callback and IRET.
Callback(n, a) == At(<<99, n, 207, 0>>, a)

LEMMA CallbackBetween ==
  ASSUME NEW n, NEW a \in Nat
  PROVE  Between(Callback(n, a), a, a + 3)
BY FourBetween DEF Callback

Vector(n) == IF n = 8 THEN At(<<0, 32, 0, 240>>, 32)
                      ELSE At(<<(4 * n) % Byte, (4 * n) \div Byte, 0, 240>>, 4 * n)
Stub(n) == Callback(n, 983040 + 4 * n)
Timer == At(TimerStub, 991232)

LEMMA ROMPieces ==
  ASSUME NEW V
  PROVE  ROM(V) = (UNION {{Vector(n), Stub(n)} : n \in V}) \cup {Timer}
BY SMT DEF ROM, Vector, Stub, Callback, Timer

LEMMA VectorsApart ==
  /\ Between(Vector(0), 0, 3) /\ Between(Vector(8), 32, 35) /\ Between(Vector(9), 36, 39)
  /\ Between(Vector(28), 112, 115) /\ Between(Vector(32), 128, 131)
<1> DEFINE q(n) == At(<<(4 * n) % Byte, (4 * n) \div Byte, 0, 240>>, 4 * n)
<1>1. Vector(8) = At(<<0, 32, 0, 240>>, 32)
  BY DEF Vector
<1>2. Vector(0) = q(0) /\ Vector(9) = q(9) /\ Vector(28) = q(28) /\ Vector(32) = q(32)
  BY DEF Vector
<1>3. Between(At(<<0, 32, 0, 240>>, 32), 32, 32 + 3)
  <2> DEFINE a == 32
  <2>1. a \in Nat
    OBVIOUS
  <2> HIDE DEF a
  <2>2. Between(At(<<0, 32, 0, 240>>, a), a, a + 3)
    BY <2>1, FourBetween
  <2> QED
    BY <2>2 DEF a
<1>4. ASSUME NEW n \in Nat
      PROVE  Between(q(n), 4 * n, 4 * n + 3)
  <2> DEFINE a == 4 * n
             lo == (4 * n) % Byte
             hi == (4 * n) \div Byte
  <2>1. a \in Nat
    OBVIOUS
  <2> HIDE DEF a, lo, hi
  <2>2. Between(At(<<lo, hi, 0, 240>>, a), a, a + 3)
    BY <2>1, FourBetween
  <2> QED
    BY <2>2 DEF a, lo, hi
<1> HIDE DEF q
<1>5. /\ 4 * 0 = 0 /\ 4 * 9 = 36 /\ 4 * 28 = 112 /\ 4 * 32 = 128 /\ 32 + 3 = 35
      /\ 0 + 3 = 3 /\ 36 + 3 = 39 /\ 112 + 3 = 115 /\ 128 + 3 = 131
      /\ 0 \in Nat /\ 9 \in Nat /\ 28 \in Nat /\ 32 \in Nat
  OBVIOUS
<1>6. Between(q(0), 4 * 0, 4 * 0 + 3) /\ Between(q(9), 4 * 9, 4 * 9 + 3)
  BY <1>4, <1>5
<1>7. Between(q(28), 4 * 28, 4 * 28 + 3) /\ Between(q(32), 4 * 32, 4 * 32 + 3)
  BY <1>4, <1>5
<1> QED
  BY <1>1, <1>2, <1>3, <1>5, <1>6, <1>7

LEMMA StubsApart ==
  /\ Between(Stub(0), 983040, 983043) /\ Between(Stub(8), 983072, 983075)
  /\ Between(Stub(9), 983076, 983079) /\ Between(Stub(28), 983152, 983155)
  /\ Between(Stub(32), 983168, 983171) /\ Between(Timer, 991232, 991243)
<1>1. ASSUME NEW n \in Nat
      PROVE  Between(Stub(n), 983040 + 4 * n, 983040 + 4 * n + 3)
  <2>1. 983040 + 4 * n \in Nat
    BY SMT
  <2> QED
    BY <2>1, CallbackBetween, SMT DEF Stub
<1>2. /\ 983040 + 4 * 0 = 983040 /\ 983040 + 4 * 8 = 983072 /\ 983040 + 4 * 9 = 983076
      /\ 983040 + 4 * 28 = 983152 /\ 983040 + 4 * 32 = 983168
      /\ 983040 + 3 = 983043 /\ 983072 + 3 = 983075 /\ 983076 + 3 = 983079
      /\ 983152 + 3 = 983155 /\ 983168 + 3 = 983171
  BY SMT
<1>3. Between(Timer, 991232, 991243)
  <2> DEFINE a == 991232
             b == 991243
  <2>1. a \in Nat /\ b \in Nat /\ a + 12 - 1 <= b /\ 12 \in Nat
    BY SMT
  <2>2. Len(TimerStub) = 12
    BY DEF TimerStub
  <2> HIDE DEF a, b
  <2>3. Between(At(TimerStub, a), a, b)
    BY <2>1, <2>2, AtBetween
  <2> QED
    BY <2>3, SMT DEF a, b, Timer
<1>4. 0 \in Nat /\ 8 \in Nat /\ 9 \in Nat /\ 28 \in Nat /\ 32 \in Nat
  OBVIOUS
<1>5. Between(Stub(0), 983040, 983043)
  BY <1>1, <1>2, <1>4, SMT
<1>6. Between(Stub(8), 983072, 983075)
  BY <1>1, <1>2, <1>4, SMT
<1>7. Between(Stub(9), 983076, 983079)
  BY <1>1, <1>2, <1>4, SMT
<1>8. Between(Stub(28), 983152, 983155)
  BY <1>1, <1>2, <1>4, SMT
<1>9. Between(Stub(32), 983168, 983171)
  BY <1>1, <1>2, <1>4, SMT
<1> QED
  BY <1>3, <1>5, <1>6, <1>7, <1>8, <1>9, SMT

Table == At(<<2, 0, 0, 3, 5, 6, 7, 8, 9, 0, 1, 2, 0, 0, 0, 0, 6, 0, 0, 1>>, 8192)
String == At(<<5, 6, 2, 8>>, 12288)
Program(t) == At(Code[t], 4096)

Vectors == {0, 8, 9, 28, 32}

Loaded(t) == {Program(t)} \cup Data \cup ROM(Vectors)

LEMMA LoadedPieces ==
  ASSUME NEW t
  PROVE  Loaded(t) = {Program(t), Table, String, Timer, Vector(0), Vector(8), Vector(9),
                      Vector(28), Vector(32), Stub(0), Stub(8), Stub(9), Stub(28), Stub(32)}
<1>1. Data = {Table, String}
  BY SMT DEF Data, Table, String
<1>2. UNION {{Vector(n), Stub(n)} : n \in Vectors} =
        {Vector(0), Vector(8), Vector(9), Vector(28), Vector(32),
         Stub(0), Stub(8), Stub(9), Stub(28), Stub(32)}
  BY SMT DEF Vectors
<1> QED
  BY <1>1, <1>2, ROMPieces, SMT DEF Loaded

LEMMA ProgramApart ==
  ASSUME NEW t \in DOMAIN Code
  PROVE  /\ Between(Program(t), 4096, 4159)
         /\ Between(Table, 8192, 8211) /\ Between(String, 12288, 12291)
<1>1. Between(Program(t), 4096, 4159)
  <2> DEFINE a == 4096
             b == 4159
             n == Len(Code[t])
  <2>1. n \in Nat /\ n < 64
    BY CodeIsBytes
  <2>2. a \in Nat /\ b \in Nat /\ a + n - 1 <= b
    BY <2>1, SMT
  <2> HIDE DEF a, b
  <2>3. Between(At(Code[t], a), a, b)
    BY <2>1, <2>2, AtBetween
  <2> QED
    BY <2>3, SMT DEF a, b, Program
<1>2. Between(Table, 8192, 8211)
  <2> DEFINE a == 8192
             b == 8211
             bytes == <<2, 0, 0, 3, 5, 6, 7, 8, 9, 0, 1, 2, 0, 0, 0, 0, 6, 0, 0, 1>>
  <2>1. a \in Nat /\ b \in Nat /\ a + 20 - 1 <= b /\ 20 \in Nat
    BY SMT
  <2>2. Len(bytes) = 20
    OBVIOUS
  <2> HIDE DEF a, b, bytes
  <2>3. Between(At(bytes, a), a, b)
    BY <2>1, <2>2, AtBetween
  <2> QED
    BY <2>3, SMT DEF a, b, bytes, Table
<1>3. Between(String, 12288, 12291)
  <2> DEFINE a == 12288
             b == 12291
             bytes == <<5, 6, 2, 8>>
  <2>1. a \in Nat /\ b \in Nat /\ a + 4 - 1 <= b /\ 4 \in Nat
    BY SMT
  <2>2. Len(bytes) = 4
    OBVIOUS
  <2> HIDE DEF a, b, bytes
  <2>3. Between(At(bytes, a), a, b)
    BY <2>1, <2>2, AtBetween
  <2> QED
    BY <2>3, SMT DEF a, b, bytes, String
<1> QED
  BY <1>1, <1>2, <1>3

LEMMA PiecesApart ==
  ASSUME NEW t \in DOMAIN Code, NEW p \in Loaded(t), NEW q \in Loaded(t),
         NEW a \in DOMAIN p, a \in DOMAIN q
  PROVE  p = q
<1> DEFINE In(x, lo, hi) == a \in DOMAIN x => a \in Int /\ lo <= a /\ a <= hi
<1>1. \A x : \A lo, hi : Between(x, lo, hi) => In(x, lo, hi)
  BY DEF Between
<1> HIDE DEF In
<1>2. /\ In(Program(t), 4096, 4159) /\ In(Table, 8192, 8211) /\ In(String, 12288, 12291)
      /\ In(Vector(0), 0, 3) /\ In(Vector(8), 32, 35) /\ In(Vector(9), 36, 39)
      /\ In(Vector(28), 112, 115) /\ In(Vector(32), 128, 131)
      /\ In(Stub(0), 983040, 983043) /\ In(Stub(8), 983072, 983075)
      /\ In(Stub(9), 983076, 983079) /\ In(Stub(28), 983152, 983155)
      /\ In(Stub(32), 983168, 983171) /\ In(Timer, 991232, 991243)
  BY <1>1, ProgramApart, VectorsApart, StubsApart, SMT
<1>3. /\ p \in {Program(t), Table, String, Timer, Vector(0), Vector(8), Vector(9),
                Vector(28), Vector(32), Stub(0), Stub(8), Stub(9), Stub(28), Stub(32)}
      /\ q \in {Program(t), Table, String, Timer, Vector(0), Vector(8), Vector(9),
                Vector(28), Vector(32), Stub(0), Stub(8), Stub(9), Stub(28), Stub(32)}
  BY LoadedPieces
<1> QED
  BY <1>2, <1>3, SMTT(60) DEF In

LEMMA LoadIs ==
  ASSUME NEW j
  PROVE  LET x == Load(j)
         IN  /\ x.r = j.r /\ x.h = j.h /\ x.s = Segments /\ x.f = decodeflags(j.flags)
             /\ x.mem = Together(Loaded(j.task)) /\ x.ip = 0 /\ x.hlt = FALSE
             /\ x.exited = FALSE /\ x.ports = <<>>
BY SMT DEF Load, Loaded, Vectors, Program, Reset

\* Every piece of a job is in its memory.
LEMMA PieceInMemory ==
  ASSUME NEW j \in Jobs, NEW p \in Loaded(j.task), NEW a \in DOMAIN p
  PROVE  cell(Load(j), a) = p[a]
<1>1. j.task \in DOMAIN Code
  BY JobsAssumption
<1>2. \A q \in Loaded(j.task) : a \in DOMAIN q => q = p
  BY <1>1, PiecesApart
<1>3. a \in DOMAIN Together(Loaded(j.task)) /\ Together(Loaded(j.task))[a] = p[a]
  BY <1>2, OnlyPiece
<1>4. Load(j).mem = Together(Loaded(j.task))
  BY LoadIs
<1> QED
  BY <1>3, <1>4 DEF cell

-----------------------------------------------------------------------------
\* Where a program stands: at an offset of its code, with registers, flags and k
\* words on its stack, awake and running.  Memory is what was loaded, but for the
\* stack and the counter of the timer.
Running(y) == y.exited = FALSE
SameBut(y, x, area) == \A b : b \notin area => cell(y, b) = cell(x, b)

Area(j) == Frame(Load(j), 60) \cup Counter

EvenStack(j) == j \in Jobs /\ j.r[SP] % 2 = 0

OnStack(y, j, k, v) ==
  /\ y.r[SP] = Slot(Load(j), k)
  /\ \A n \in Nat : 1 <= n /\ n <= k => StackWord(y, Slot(Load(j), n)) = v[n]

Stands(y, j, i, r, f, k, v) ==
  /\ Interruptible(y) /\ Awake(y) /\ Running(y)
  /\ y.s = Segments /\ y.h = j.h /\ y.ip = i /\ y.r = r /\ y.f = f
  /\ OnStack(y, j, k, v) /\ SameBut(y, Load(j), Area(j))

LEMMA SegmentsAre ==
  Segments[CS] = 256 /\ Segments[SS] = 1024 /\ Segments[DS] = 512 /\ Segments[ES] = 768
BY DEF Segments, CS, SS, DS, ES

LEMMA LoadStack ==
  ASSUME NEW j, EvenStack(j)
  PROVE  /\ MachineOK(Load(j)) /\ StackInRAM(Load(j)) /\ Load(j).s[SS] = 1024
         /\ j \in Jobs /\ j.task \in DOMAIN Code
         /\ Load(j).r = j.r /\ Load(j).h = j.h /\ Load(j).s = Segments
         /\ Load(j).f = decodeflags(j.flags)
<1>1. j \in Jobs /\ j.task \in DOMAIN Code /\ j.r \in [0..7 -> Words]
  BY JobsAssumption DEF EvenStack
<1>2. MachineOK(Load(j))
  BY <1>1, LoadOK
<1>3. /\ Load(j).r = j.r /\ Load(j).h = j.h /\ Load(j).s = Segments
      /\ Load(j).f = decodeflags(j.flags)
  BY LoadIs
<1>4. Load(j).s[SS] = 1024
  BY <1>3, SegmentsAre
<1>5. 80 <= 1024 /\ 1024 * 16 + Word <= 15 * Word
  BY SMT DEF Word, Byte
<1>6. j.r[SP] \in Evens
  BY <1>1, Names DEF EvenStack, Evens
<1> QED
  BY <1>1, <1>2, <1>3, <1>4, <1>5, <1>6 DEF StackInRAM

LEMMA AreaApart ==
  ASSUME NEW j, EvenStack(j), NEW b \in Area(j)
  PROVE  b \in Nat /\ 1132 <= b /\ b < 15 * Word /\ (b < 16384 => b \in Counter)
<1> DEFINE x == Load(j)
           n == 60
<1>1. MachineOK(x) /\ StackInRAM(x) /\ x.s[SS] = 1024
  BY LoadStack
<1>2. n \in Nat
  OBVIOUS
<1>3. CASE b \in Counter
  <2>1. b = 1132 \/ b = 1133
    BY <1>3 DEF Counter
  <2> QED
    BY <1>3, <2>1, SMT DEF Word, Byte
<1>4. CASE b \in Frame(x, n)
  <2> HIDE DEF n, x
  <2>1. b \in Nat /\ 1280 <= b /\ b < 15 * Word
    BY <1>1, <1>2, <1>4, FrameInRAM
  <2>2. PICK i \in 1..n : b = 1024 * 16 + Below(x, i)
    BY <1>1, <1>4 DEF Frame
  <2>3. Below(x, i) \in Nat
    <3>1. x.r[SP] - i \in Int
      BY <1>1, <1>2, Parts, Names, Numbers8
    <3>2. (x.r[SP] - i) % Word \in Words
      BY <3>1, ByteFacts
    <3> QED
      BY <3>2, Numbers8 DEF Below, Lower
  <2>4. 16384 <= b
    BY <2>2, <2>3, SMT
  <2> QED
    BY <2>1, <2>4, SMT
<1> QED
  BY <1>3, <1>4 DEF Area

\* The pieces that no stack reaches.
LEMMA StaysInMemory ==
  ASSUME NEW j, EvenStack(j), NEW y, SameBut(y, Load(j), Area(j)),
         NEW p \in Loaded(j.task), NEW a \in DOMAIN p, a \in Nat,
         a < 1000 \/ (2000 <= a /\ a < 16384) \/ 15 * Word <= a
  PROVE  cell(y, a) = p[a]
<1>1. j \in Jobs
  BY DEF EvenStack
<1>2. a \notin Area(j)
  <2>1. SUFFICES ASSUME a \in Area(j)
                 PROVE  FALSE
    OBVIOUS
  <2>2. 1132 <= a /\ a < 15 * Word /\ (a < 16384 => a \in Counter)
    BY <2>1, AreaApart
  <2>3. 15 * Word \in Nat
    BY ROMAddress
  <2> QED
    BY <2>2, <2>3, SMT DEF Counter
<1>3. cell(y, a) = cell(Load(j), a)
  BY <1>2 DEF SameBut
<1> QED
  BY <1>1, <1>3, PieceInMemory

\* The handlers of a job, and the end of the program.
LEMMA HandlersStay ==
  ASSUME NEW j, EvenStack(j), NEW y, SameBut(y, Load(j), Area(j))
  PROVE  /\ ROMInPlace(y)
         /\ \A a \in DOMAIN Vector(32) : cell(y, a) = Vector(32)[a]
         /\ \A a \in DOMAIN Stub(32) : cell(y, a) = Stub(32)[a]
<1> DEFINE high == 15 * Word
<1>0. 983040 = high /\ high \in Nat
  BY SMT, ROMAddress DEF Word, Byte
<1>1. j.task \in DOMAIN Code
  BY JobsAssumption DEF EvenStack
<1>2. \A p \in ROM(Vectors) : p \in Loaded(j.task)
  BY DEF Loaded
<1>3. ASSUME NEW n \in Vectors
      PROVE  /\ Vector(n) \in Loaded(j.task) /\ Stub(n) \in Loaded(j.task)
             /\ \A a \in DOMAIN Vector(n) : a \in Nat /\ a < 1000
             /\ \A a \in DOMAIN Stub(n) : a \in Nat /\ high <= a
  <2>1. n = 0 \/ n = 8 \/ n = 9 \/ n = 28 \/ n = 32
    BY <1>3 DEF Vectors
  <2>2. Vector(n) \in Loaded(j.task) /\ Stub(n) \in Loaded(j.task)
    <3>1. Vector(n) \in ROM(Vectors) /\ Stub(n) \in ROM(Vectors)
      BY <1>3, ROMPieces
    <3> QED
      BY <1>2, <3>1
  <2> HIDE DEF high
  <2>3. \A a \in DOMAIN Vector(n) : a \in Nat /\ a < 1000
    BY <2>1, VectorsApart, SMT DEF Between
  <2>4. \A a \in DOMAIN Stub(n) : a \in Nat /\ high <= a
    BY <1>0, <2>1, StubsApart, SMT DEF Between
  <2> QED
    BY <2>2, <2>3, <2>4
<1>4. Timer \in Loaded(j.task) /\ \A a \in DOMAIN Timer : a \in Nat /\ high <= a
  <2>1. Timer \in Loaded(j.task)
    BY <1>2, ROMPieces
  <2> HIDE DEF high
  <2>2. \A a \in DOMAIN Timer : a \in Nat /\ high <= a
    BY <1>0, StubsApart, SMT DEF Between
  <2> QED
    BY <2>1, <2>2
<1>5. ASSUME NEW n \in Vectors
      PROVE  /\ \A a \in DOMAIN Vector(n) : cell(y, a) = Vector(n)[a]
             /\ \A a \in DOMAIN Stub(n) : cell(y, a) = Stub(n)[a]
  BY <1>3, StaysInMemory
<1>6. \A a \in DOMAIN Timer : cell(y, a) = Timer[a]
  BY <1>4, StaysInMemory
<1>7. {8, 9, 28} \subseteq Vectors /\ 32 \in Vectors
  BY DEF Vectors
<1>8. ROMInPlace(y)
  <2>1. SUFFICES ASSUME NEW p \in ROM({8, 9, 28}), NEW a \in DOMAIN p
                 PROVE  cell(y, a) = p[a]
    BY DEF ROMInPlace
  <2>2. p = Timer \/ \E n \in {8, 9, 28} : p = Vector(n) \/ p = Stub(n)
    BY ROMPieces
  <2> HIDE DEF high
  <2> QED
    BY <1>5, <1>6, <1>7, <2>2
<1> QED
  BY <1>5, <1>7, <1>8

LEMMA CodeInMemory ==
  ASSUME NEW j, EvenStack(j), NEW y, SameBut(y, Load(j), Area(j)),
         NEW i \in Nat, i < Len(Code[j.task])
  PROVE  cell(y, 4096 + i) = Code[j.task][i + 1]
<1> DEFINE c == Code[j.task]
           b == 4096
           p == At(c, b)
           a == b + i
<1>1. j.task \in DOMAIN Code
  BY JobsAssumption DEF EvenStack
<1>2. Len(c) \in Nat /\ Len(c) < 64
  BY <1>1, CodeIsBytes
<1>3. b \in Nat /\ 2000 <= b /\ b + 64 < 16384
  BY SMT
<1>4. p \in Loaded(j.task)
  BY SMT DEF Loaded, Program
<1> HIDE DEF c, b
<1>5. a \in Nat /\ 2000 <= a /\ a < 16384 /\ a - b + 1 = i + 1
  BY <1>2, <1>3, SMT DEF c
<1>6. a \in b .. (b + Len(c) - 1)
  BY <1>2, <1>3 DEF c
<1>7. a \in DOMAIN p /\ p[a] = c[i + 1]
  BY <1>5, <1>6 DEF At
<1> HIDE DEF p, a
<1>8. cell(y, a) = p[a]
  BY <1>4, <1>5, <1>7, StaysInMemory, SMT
<1> QED
  BY <1>7, <1>8, SMT DEF a, b, c

-----------------------------------------------------------------------------
\* Flags that survive the stack.
Sane(f) == f \in Flags /\ f.ac = 0 /\ f.of \in 0..1

\* The machine z is y after an instruction that changed registers and flags only.
Does(z, y, i, r, f) ==
  /\ z.r = r /\ z.f = f /\ z.ip = i /\ z.s = y.s /\ z.h = y.h /\ z.mem = y.mem
  /\ z.hlt = y.hlt /\ z.exited = y.exited

LEMMA Onwards ==
  ASSUME NEW j, NEW y, NEW i, NEW r, NEW f, NEW k, NEW v, Stands(y, j, i, r, f, k, v),
         NEW z, MachineOK(z), NEW i2, NEW r2, NEW f2, Does(z, y, i2, r2, f2),
         Sane(f2), r2[SP] = r[SP]
  PROVE  Stands(z, j, i2, r2, f2, k, v)
<1>1. /\ MachineOK(y) /\ StackInRAM(y) /\ y.hlt = FALSE /\ y.exited = FALSE /\ y.s = Segments
      /\ y.h = j.h /\ y.r = r /\ OnStack(y, j, k, v) /\ SameBut(y, Load(j), Area(j))
  BY DEF Stands, Interruptible, Awake, Running
<1>2. /\ z.r = r2 /\ z.f = f2 /\ z.ip = i2 /\ z.s = Segments /\ z.h = j.h /\ z.mem = y.mem
      /\ z.hlt = FALSE /\ z.exited = FALSE /\ z.r[SP] = y.r[SP]
  BY <1>1 DEF Does
<1>3. Interruptible(z)
  BY <1>1, <1>2 DEF Interruptible, StackInRAM, Sane
<1>4. \A o : StackWord(z, o) = StackWord(y, o)
  BY <1>1, <1>2 DEF StackWord, Read16Unsafe, cell
<1>5. OnStack(z, j, k, v)
  BY <1>1, <1>2, <1>4 DEF OnStack
<1>6. SameBut(z, Load(j), Area(j))
  BY <1>1, <1>2 DEF SameBut, cell
<1> QED
  BY <1>2, <1>3, <1>5, <1>6 DEF Stands, Awake, Running

\* The machine x reads the code of j at offset i, and is y but for its place in it.
Reads(x, y, j, i) ==
  /\ MachineOK(x) /\ x.s = Segments /\ x.ip = i /\ SameBut(x, Load(j), Area(j))
  /\ x.r = y.r /\ x.f = y.f /\ x.h = y.h /\ x.mem = y.mem
  /\ x.hlt = y.hlt /\ x.exited = y.exited /\ y.s = Segments

LEMMA CodeRead ==
  ASSUME NEW j, EvenStack(j), NEW x, NEW y, NEW i \in Nat, Reads(x, y, j, i), i < Len(Code[j.task])
  PROVE  Code8(x) = Code[j.task][i + 1] /\ (i + 1) % Word = i + 1
<1>1. Linear(x, CS, x.ip) = 4096 + i
  <2>1. x.s[CS] = 256 /\ x.ip = i
    BY SegmentsAre DEF Reads
  <2>2. 256 * 16 = 4096
    OBVIOUS
  <2> DEFINE n == 256
  <2> HIDE DEF n
  <2>3. n * 16 = 4096
    BY <2>2 DEF n
  <2> QED
    BY <2>1, <2>3, SMT DEF Linear, n
<1>2. cell(x, 4096 + i) = Code[j.task][i + 1]
  BY CodeInMemory DEF Reads
<1>3. i + 1 < Word /\ i + 1 \in Nat
  <2>1. Len(Code[j.task]) \in Nat /\ Len(Code[j.task]) < 64
    BY JobsAssumption, CodeIsBytes DEF EvenStack
  <2>2. 64 < Word
    BY SMT DEF Word, Byte
  <2> QED
    BY <2>1, <2>2, Sizes
<1> QED
  BY <1>1, <1>2, <1>3, ModSmall, Sizes DEF Code8

LEMMA ReadsAt ==
  ASSUME NEW j, NEW y, NEW i, NEW r, NEW f, NEW k, NEW v, Stands(y, j, i, r, f, k, v)
  PROVE  /\ Reads(y, y, j, i) /\ MachineOK(y) /\ y.r = r /\ y.f = f /\ y.hlt = FALSE
         /\ y.exited = FALSE /\ StackInRAM(y) /\ Sane(f) /\ r \in [0..7 -> Words]
<1>1. /\ Interruptible(y) /\ Awake(y) /\ Running(y)
      /\ y.s = Segments /\ y.h = j.h /\ y.ip = i /\ y.r = r /\ y.f = f
      /\ OnStack(y, j, k, v) /\ SameBut(y, Load(j), Area(j))
  BY DEF Stands
<1>2. MachineOK(y)
  BY <1>1 DEF Interruptible
<1>3. y.f \in Flags /\ y.r \in [0..7 -> Words]
  BY <1>2, Parts
<1> QED
  BY <1>1, <1>2, <1>3 DEF Reads, Interruptible, Awake, Running, Sane

\* Behind an opcode, and behind another byte.
LEMMA Opcode ==
  ASSUME NEW j, EvenStack(j), NEW y, NEW i \in Nat, Reads(y, y, j, i), i < Len(Code[j.task]),
         Code[j.task][i + 1] \notin DOMAIN PrefixOf
  PROVE  /\ Reads(Fetch(y), y, j, i + 1)
         /\ Code[j.task][i + 1] < 64 => Execute(y) = ExecuteLow(Fetch(y), Code[j.task][i + 1])
         /\ Code[j.task][i + 1] \in 64..159 => Execute(y) = ExecuteMiddle(Fetch(y), Code[j.task][i + 1])
         /\ Code[j.task][i + 1] \in 160..255 => Execute(y) = ExecuteHigh(Fetch(y), Code[j.task][i + 1])
<1> DEFINE c == Code[j.task][i + 1]
           n == Fetch(y)
<1>1. Code8(y) = c /\ (i + 1) % Word = i + 1
  BY CodeRead
<1>2. /\ MachineOK(y) /\ y.s = Segments /\ y.ip = i /\ SameBut(y, Load(j), Area(j))
  BY DEF Reads
<1>3. /\ MachineOK(n) /\ n.r = y.r /\ n.s = y.s /\ n.mem = y.mem /\ n.f = y.f
      /\ n.ip = i + 1 /\ Rest(n, y)
  BY <1>1, <1>2, Fetched
<1> HIDE DEF c, n
<1>4. Execute(y) = CASE c < 64 -> ExecuteLow(n, c)
                     [] c \in 64..159 -> ExecuteMiddle(n, c)
                     [] c > 159 -> ExecuteHigh(n, c)
  <2>1. c \notin DOMAIN PrefixOf
    BY DEF c
  <2> QED
    BY <1>1, <1>2, <2>1, Executes DEF n
<1>5. SameBut(n, Load(j), Area(j))
  BY <1>2, <1>3 DEF SameBut, cell
<1>6. Reads(n, y, j, i + 1)
  BY <1>2, <1>3, <1>5 DEF Reads, Rest
<1>7. /\ c < 64 => Execute(y) = ExecuteLow(n, c)
      /\ c \in 64..159 => Execute(y) = ExecuteMiddle(n, c)
      /\ c \in 160..255 => Execute(y) = ExecuteHigh(n, c)
  <2>1. /\ c < 64 => ~(c \in 64..159) /\ ~(c > 159)
        /\ c \in 64..159 => ~(c < 64) /\ ~(c > 159)
        /\ c \in 160..255 => ~(c < 64) /\ ~(c \in 64..159) /\ c > 159
    <3>1. c \in Int
      BY <1>1, <1>2, CodeOK
    <3> QED
      BY <3>1
  <2> QED
    BY <1>4, <2>1
<1> QED
  BY <1>6, <1>7 DEF c, n

LEMMA Skips ==
  ASSUME NEW j, EvenStack(j), NEW x, NEW y, NEW i \in Nat, Reads(x, y, j, i), i < Len(Code[j.task])
  PROVE  Reads(AdvanceIP(x, 1), y, j, i + 1)
<1> DEFINE z == AdvanceIP(x, 1)
<1>1. MachineOK(x) /\ x.s = Segments /\ x.ip = i /\ SameBut(x, Load(j), Area(j))
  BY DEF Reads
<1>2. MachineOK(z)
  <2>1. 1 \in Int
    OBVIOUS
  <2> QED
    BY <1>1, <2>1, AdvanceOK
<1>3. /\ z.ip = i + 1 /\ z.r = x.r /\ z.f = x.f /\ z.h = x.h /\ z.mem = x.mem /\ z.s = x.s
      /\ z.hlt = x.hlt /\ z.exited = x.exited
  BY <1>1, CodeRead, Fields DEF AdvanceIP, MachineOK
<1> HIDE DEF z
<1>4. SameBut(z, Load(j), Area(j))
  BY <1>1, <1>3 DEF SameBut, cell
<1> QED
  BY <1>1, <1>2, <1>3, <1>4 DEF Reads, z

\* A ModR/M byte that names two registers.
Registers(b, reg, rm) == reg \in 0..7 /\ rm \in 0..7 /\ b = 192 + (8 * reg) + rm
Named(d, reg, rm) == d.mode = 3 /\ d.reg = reg /\ d.rm = rm

LEMMA RegisterForm ==
  ASSUME NEW j, EvenStack(j), NEW x, NEW y, NEW i \in Nat, Reads(x, y, j, i), i < Len(Code[j.task]),
         NEW reg, NEW rm, Registers(Code[j.task][i + 1], reg, rm)
  PROVE  LET d == modregrm(x)
         IN  Reads(d, y, j, i + 1) /\ Named(d, reg, rm)
<1> DEFINE b == Code8(x)
           t == [x EXCEPT !.mode = b \div 64, !.reg = (b \div 8) % 8, !.rm = b % 8]
           n == AdvanceIP(t, 1)
           z == [n EXCEPT !.disp = 0]
           d == modregrm(x)
<1>1. /\ b = 192 + (8 * reg) + rm /\ (i + 1) % Word = i + 1
      /\ reg \in 0..7 /\ rm \in 0..7
  BY CodeRead DEF Registers
<1>2. b \div 64 = 3 /\ (b \div 8) % 8 = reg /\ b % 8 = rm
  <2>1. b \div 8 = 24 + reg
    BY <1>1
  <2> QED
    BY <1>1, <2>1
<1>3. MachineOK(x) /\ x.s = Segments /\ x.ip = i /\ SameBut(x, Load(j), Area(j))
  BY DEF Reads
<1> HIDE DEF b
<1>4. /\ n.mode = 3 /\ n.reg = reg /\ n.rm = rm /\ n.ip = i + 1
      /\ n.r = x.r /\ n.f = x.f /\ n.h = x.h /\ n.mem = x.mem /\ n.s = x.s
      /\ n.hlt = x.hlt /\ n.exited = x.exited /\ DOMAIN n = DOMAIN Reset
  BY <1>1, <1>2, <1>3, Fields DEF AdvanceIP, MachineOK
<1>5. d = z
  BY <1>4 DEF modregrm, b
<1> HIDE DEF n, d
<1>6. /\ d.mode = 3 /\ d.reg = reg /\ d.rm = rm /\ d.ip = i + 1
      /\ d.r = x.r /\ d.f = x.f /\ d.h = x.h /\ d.mem = x.mem /\ d.s = x.s
      /\ d.hlt = x.hlt /\ d.exited = x.exited
  BY <1>4, <1>5, Fields
<1>7. MachineOK(d)
  BY <1>3, ModRmOK DEF d
<1>8. SameBut(d, Load(j), Area(j))
  BY <1>3, <1>6 DEF SameBut, cell
<1>9. Reads(d, y, j, i + 1)
  BY <1>3, <1>6, <1>7, <1>8 DEF Reads
<1> QED
  BY <1>6, <1>9 DEF d, Named

-----------------------------------------------------------------------------
\* An interrupt while a program stands at a place: the handlers, and the return.
LEMMA Undisturbed ==
  ASSUME NEW j, EvenStack(j), NEW x, NEW i, NEW r, NEW f, NEW k \in Nat, k <= 20, NEW v,
         Stands(x, j, i, r, f, k, v), NEW z, MachineOK(z),
         Unnoticed(z, x, Frame(x, 18) \cup Counter)
  PROVE  Stands(z, j, i, r, f, k, v)
<1> DEFINE x0 == Load(j)
           d == 2 * k
           n == 18
           e == d + n
           top == 60
<1>1. /\ MachineOK(x) /\ StackInRAM(x) /\ x.f.ac = 0 /\ x.f.of \in 0..1 /\ x.hlt = FALSE
      /\ x.exited = FALSE /\ x.s = Segments /\ x.h = j.h /\ x.ip = i /\ x.r = r /\ x.f = f
      /\ x.r[SP] = Slot(x0, k) /\ SameBut(x, x0, Area(j))
      /\ \A l \in Nat : 1 <= l /\ l <= k => StackWord(x, Slot(x0, l)) = v[l]
  BY DEF Stands, Interruptible, Awake, Running, OnStack
<1>2. /\ MachineOK(x0) /\ StackInRAM(x0) /\ x0.s = Segments
  BY LoadStack
<1>3. /\ z.r = x.r /\ z.h = x.h /\ z.s = x.s /\ z.ip = x.ip /\ z.f = x.f
      /\ z.hlt = FALSE /\ z.exited = x.exited
      /\ \A b : b \notin Frame(x, n) \cup Counter => cell(z, b) = cell(x, b)
  <2>1. z.hlt \in BOOLEAN
    BY Parts
  <2> QED
    BY <2>1 DEF Unnoticed
<1>4. d \in Nat /\ d <= 50 /\ n \in Nat /\ n <= 50 /\ e <= top /\ e = d + n /\ top \in Nat
  OBVIOUS
<1>5. x.r[SP] = Below(x0, d) /\ x.s[SS] = x0.s[SS] /\ z.s[SS] = x0.s[SS]
  BY <1>1, <1>2, <1>3 DEF Slot
<1>6. Interruptible(z)
  BY <1>1, <1>3 DEF Interruptible, StackInRAM
<1>7. \A l \in Nat : 1 <= l /\ l <= k => l <= 20 /\ 2 * l <= d
  OBVIOUS
<1>8. Area(j) = Frame(x0, top) \cup Counter
  BY DEF Area
<1> HIDE DEF x0, d, n, e, top
<1>9. Frame(x, n) \subseteq Frame(x0, e) /\ Frame(x, n) \cap Frame(x0, d) = {}
  BY <1>2, <1>4, <1>5, FrameDeeper
<1>10. Frame(x0, e) \subseteq Frame(x0, top)
  <2>1. 1..e \subseteq 1..top
    BY <1>4
  <2> QED
    BY <2>1 DEF Frame
<1>11. Counter \cap Frame(x0, d) = {}
  BY <1>2, <1>4, CounterApart
<1>12. Keeps(z, x, Frame(x0, d))
  BY <1>3, <1>9, <1>11 DEF Keeps
<1>13. \A l \in Nat : 1 <= l /\ l <= k => StackWord(z, Slot(x0, l)) = v[l]
  <2> SUFFICES ASSUME NEW l \in Nat, 1 <= l, l <= k
               PROVE  StackWord(z, Slot(x0, l)) = v[l]
    OBVIOUS
  <2>1. l <= 20 /\ 2 * l <= d
    BY <1>7
  <2>2. StackWord(z, Slot(x0, l)) = StackWord(x, Slot(x0, l))
    BY <1>2, <1>4, <1>5, <1>12, <2>1, WordsKept
  <2> QED
    BY <1>1, <2>2
<1>14. OnStack(z, j, k, v)
  BY <1>1, <1>3, <1>13 DEF OnStack, x0
<1>15. SameBut(z, x0, Area(j))
  BY <1>1, <1>3, <1>8, <1>9, <1>10 DEF SameBut
<1> QED
  BY <1>1, <1>3, <1>6, <1>14, <1>15 DEF Stands, Awake, Running, x0

\* The turns of a handler up to its return, from the turn that takes the interrupt.
Turns(q) == IF q = 8 THEN 12 ELSE 2

Handled(t, q) ==
  /\ t[1] = Turn(t[0], q)
  /\ \A n \in Nat : 1 <= n /\ n < Turns(q) => t[n + 1] = Turn(t[n], 0) /\ Serving(t[n], t[0])
  /\ Unnoticed(t[Turns(q)], t[0], Frame(t[0], 18) \cup Counter)

LEMMA TwelveTurns ==
  ASSUME NEW x
  PROVE  \E t : t[0] = x /\ t[1] = Turn(x, 8) /\ \A i \in 1..11 : t[i + 1] = Turn(t[i], 0)
<1> DEFINE a1 == Turn(x, 8)
           a2 == Turn(a1, 0)
           a3 == Turn(a2, 0)
           a4 == Turn(a3, 0)
           a5 == Turn(a4, 0)
           a6 == Turn(a5, 0)
           a7 == Turn(a6, 0)
           a8 == Turn(a7, 0)
           a9 == Turn(a8, 0)
           a10 == Turn(a9, 0)
           a11 == Turn(a10, 0)
           a12 == Turn(a11, 0)
           t == [i \in 0..12 |-> <<x, a1, a2, a3, a4, a5, a6, a7, a8, a9, a10, a11, a12>>[i + 1]]
<1>1. /\ a2 = Turn(a1, 0) /\ a3 = Turn(a2, 0) /\ a4 = Turn(a3, 0) /\ a5 = Turn(a4, 0)
      /\ a6 = Turn(a5, 0) /\ a7 = Turn(a6, 0) /\ a8 = Turn(a7, 0) /\ a9 = Turn(a8, 0)
      /\ a10 = Turn(a9, 0) /\ a11 = Turn(a10, 0) /\ a12 = Turn(a11, 0)
  OBVIOUS
<1>2. a1 = Turn(x, 8)
  OBVIOUS
<1> HIDE DEF a1, a2, a3, a4, a5, a6, a7, a8, a9, a10, a11, a12
<1>3. /\ t[0] = x /\ t[1] = a1 /\ t[2] = a2 /\ t[3] = a3 /\ t[4] = a4 /\ t[5] = a5 /\ t[6] = a6
      /\ t[7] = a7 /\ t[8] = a8 /\ t[9] = a9 /\ t[10] = a10 /\ t[11] = a11 /\ t[12] = a12
  OBVIOUS
<1> HIDE DEF t
<1>4. ASSUME NEW i \in 1..11
      PROVE  t[i + 1] = Turn(t[i], 0)
  <2>1. i \in {1, 2, 3, 4, 5, 6, 7, 8, 9, 10, 11}
    OBVIOUS
  <2>2. /\ t[2] = Turn(t[1], 0) /\ t[3] = Turn(t[2], 0) /\ t[4] = Turn(t[3], 0)
        /\ t[5] = Turn(t[4], 0) /\ t[6] = Turn(t[5], 0) /\ t[7] = Turn(t[6], 0)
        /\ t[8] = Turn(t[7], 0) /\ t[9] = Turn(t[8], 0) /\ t[10] = Turn(t[9], 0)
        /\ t[11] = Turn(t[10], 0) /\ t[12] = Turn(t[11], 0)
    BY <1>1, <1>3
  <2>3. /\ 1 + 1 = 2 /\ 2 + 1 = 3 /\ 3 + 1 = 4 /\ 4 + 1 = 5 /\ 5 + 1 = 6 /\ 6 + 1 = 7
        /\ 7 + 1 = 8 /\ 8 + 1 = 9 /\ 9 + 1 = 10 /\ 10 + 1 = 11 /\ 11 + 1 = 12
    OBVIOUS
  <2> QED
    BY <2>1, <2>2, <2>3
<1>5. t[0] = x /\ t[1] = Turn(x, 8)
  BY <1>2, <1>3
<1> QED
  BY <1>4, <1>5

LEMMA TimerHandled ==
  ASSUME NEW x, Interruptible(x), ROMInPlace(x), x.f.ifl = 1
  PROVE  \E t : t[0] = x /\ Handled(t, 8)
<1>1. PICK t : t[0] = x /\ t[1] = Turn(x, 8) /\ \A i \in 1..11 : t[i + 1] = Turn(t[i], 0)
  BY TwelveTurns
<1> DEFINE q == [i \in 1..11 |-> 0]
<1>2. \A i \in 1..11 : t[i + 1] = Turn(t[i], q[i])
  BY <1>1
<1> HIDE DEF q
<1>3. Interruptible(t[0]) /\ ROMInPlace(t[0]) /\ t[0].f.ifl = 1 /\ t[1] = Turn(t[0], 8)
  BY <1>1
<1>4. /\ Unnoticed(t[12], t[0], Frame(t[0], 18) \cup Counter)
      /\ \A i \in 1..11 : Serving(t[i], t[0])
  BY <1>2, <1>3, TimerServed
<1>5. Turns(8) = 12
  BY DEF Turns
<1>6. \A n \in Nat : 1 <= n /\ n < 12 => n \in 1..11
  OBVIOUS
<1>7. Handled(t, 8)
  BY <1>1, <1>4, <1>5, <1>6 DEF Handled
<1> QED
  BY <1>1, <1>7

LEMMA KeyHandled ==
  ASSUME NEW x, Interruptible(x), ROMInPlace(x), x.f.ifl = 1
  PROVE  \E t : t[0] = x /\ Handled(t, 9)
<1> DEFINE a == Turn(x, 9)
           b == Turn(a, 0)
           t == [i \in 0..2 |-> <<x, a, b>>[i + 1]]
<1>1. Unnoticed(b, x, Frame(x, 6)) /\ Serving(a, x)
  BY KeyServed
<1> DEFINE n6 == 6
           n18 == 18
<1>2. Frame(x, 6) \subseteq Frame(x, 18)
  <2>1. 1..6 \subseteq 1..18
    OBVIOUS
  <2> QED
    BY <2>1 DEF Frame
<1>3. b = Turn(a, 0) /\ a = Turn(x, 9)
  OBVIOUS
<1> HIDE DEF a, b
<1>4. t[0] = x /\ t[1] = a /\ t[2] = b
  OBVIOUS
<1> HIDE DEF t
<1>5. Unnoticed(b, x, Frame(x, 18) \cup Counter)
  BY <1>1, <1>2 DEF Unnoticed
<1>6. Turns(9) = 2
  BY DEF Turns
<1>7. \A n \in Nat : 1 <= n /\ n < 2 => n = 1 /\ n + 1 = 2
  OBVIOUS
<1>8. Handled(t, 9)
  BY <1>1, <1>3, <1>4, <1>5, <1>6, <1>7 DEF Handled
<1> QED
  BY <1>4, <1>8

-----------------------------------------------------------------------------
\* A machine that rests while the other one takes an interrupt.
LEMMA Rests ==
  ASSUME NEW j, NEW x, NEW i, NEW r, NEW f, NEW k, NEW v, Stands(x, j, i, r, f, k, v),
         NEW taken \in BOOLEAN, NEW z, z = [x EXCEPT !.hlt = @ /\ ~taken]
  PROVE  Stands(z, j, i, r, f, k, v)
<1> DEFINE b == x.hlt /\ ~taken
<1>1. MachineOK(x) /\ x.r = r /\ x.f = f /\ x.hlt = FALSE /\ Sane(f) /\ x.ip = i
  BY ReadsAt DEF Stands
<1>2. b = FALSE
  BY <1>1
<1>3. b \in BOOLEAN /\ z = [x EXCEPT !.hlt = b]
  BY <1>2
<1> HIDE DEF b
<1>4. MachineOK(z)
  BY <1>1, <1>3, WithHlt
<1>5. Does(z, x, i, r, f)
  BY <1>1, <1>2, <1>3, Fields DEF Does, MachineOK
<1> QED
  BY <1>1, <1>4, <1>5, Onwards

\* Both machines at one place, and one of them in a handler.
InStep(i, r, f, k, v) ==
  resume = <<>> /\ Stands(m, job, i, r, f, k, v) /\ Stands(plain, job, i, r, f, k, v)

Served(i, r, f, k, v) ==
  /\ Stands(plain, job, i, r, f, k, v)
  /\ \E t, q, n : /\ Handled(t, q) /\ q \in {8, 9} /\ n \in Nat /\ 1 <= n /\ n < Turns(q)
                  /\ m = t[n] /\ resume = Where(t[0]) /\ Stands(t[0], job, i, r, f, k, v)

\* Both machines have executed the instruction they stand at.
Ahead ==
  /\ resume' = <<>> /\ m' = Execute(m) /\ plain' = Execute(plain)
  /\ Followed(m) /\ Followed(plain) /\ MachineOK(m') /\ MachineOK(plain')

LEMMA RunIs ==
  ASSUME NEW request, Run(request)
  PROVE  /\ request # 0 => Accepts(m, request)
         /\ Goes(m, request) /\ m' = Turn(m, request) /\ job' = job /\ ~m.exited
         /\ IF resume = <<>> /\ ~Accepts(m, request)
            THEN Goes(plain, 0) /\ plain' = Turn(plain, 0)
            ELSE plain' = [plain EXCEPT !.hlt = @ /\ ~Accepts(m, request)]
         /\ Accepts(m, request) => resume' = Where(m)
         /\ ~Accepts(m, request) => resume' = IF resume = Where(m') THEN <<>> ELSE resume
<1> DEFINE taken == Accepts(m, request)
           turns(x) == x = "real" \/ (resume = <<>> /\ ~taken)
           asked(x) == IF x = "real" THEN request ELSE 0
           rests(x) == [x EXCEPT !.hlt = @ /\ ~taken]
<1>1. /\ ~m.exited /\ request # 0 => taken
      /\ \A x \in {"real", "plain"} : turns(x) => Goes(cpu[x], asked(x))
      /\ cpu' = [x \in {"real", "plain"} |-> IF turns(x) THEN Turn(cpu[x], asked(x))
                                                         ELSE rests(cpu[x])]
      /\ resume' = CASE taken -> Where(m)
                     [] ~taken /\ resume = Where(m') -> <<>>
                     [] OTHER -> resume
      /\ job' = job
  BY DEF Run
<1>8. ~m.exited /\ (request # 0 => taken) /\ job' = job
  BY DEF Run
<1> HIDE DEF taken, rests
<1>2. cpu'["real"] = Turn(cpu["real"], request) /\ Goes(cpu["real"], request)
  <2>1. turns("real") /\ asked("real") = request
    OBVIOUS
  <2> HIDE DEF turns, asked
  <2> QED
    BY <1>1, <2>1
<1>3. IF resume = <<>> /\ ~taken
      THEN Goes(cpu["plain"], 0) /\ cpu'["plain"] = Turn(cpu["plain"], 0)
      ELSE cpu'["plain"] = rests(cpu["plain"])
  <2>1. asked("plain") = 0 /\ (turns("plain") <=> (resume = <<>> /\ ~taken))
    OBVIOUS
  <2> HIDE DEF turns, asked
  <2> QED
    BY <1>1, <2>1
<1> HIDE DEF turns, asked
<1>4. taken => resume' = Where(m)
  BY <1>1
<1>5. ~taken => resume' = IF resume = Where(m') THEN <<>> ELSE resume
  BY <1>1
<1>6. IF resume = <<>> /\ ~taken
      THEN Goes(plain, 0) /\ plain' = Turn(plain, 0)
      ELSE plain' = [plain EXCEPT !.hlt = @ /\ ~taken]
  <2>1. cpu'["plain"] = plain' /\ cpu["plain"] = plain
    BY DEF plain
  <2>2. rests(plain) = [plain EXCEPT !.hlt = @ /\ ~taken]
    BY DEF rests
  <2> HIDE DEF rests, taken
  <2> QED
    BY <1>3, <2>1, <2>2
<1>7. /\ request # 0 => taken
      /\ Goes(m, request) /\ m' = Turn(m, request) /\ job' = job /\ ~m.exited
  <2>1. m' = Turn(m, request) /\ Goes(m, request)
    BY <1>2 DEF m
  <2> QED
    BY <1>8, <2>1
<1> QED
  BY <1>4, <1>5, <1>6, <1>7 DEF taken

LEMMA TurnAwake ==
  ASSUME NEW x, x.hlt = FALSE, Goes(x, 0)
  PROVE  Followed(x) /\ Turn(x, 0) = Execute(x)
BY DEF Goes, Turn, Interrupted, Accepts

LEMMA RunsOn ==
  ASSUME Typed, EvenStack(job), NEW request \in {0} \cup Requests, Run(request),
         NEW i, NEW r, NEW f, NEW k \in Nat, k <= 20, NEW v, InStep(i, r, f, k, v)
  PROVE  Ahead \/ Served(i, r, f, k, v)'
<1> DEFINE taken == Accepts(m, request)
<1>1. /\ request # 0 => taken
      /\ Goes(m, request) /\ m' = Turn(m, request) /\ job' = job
      /\ IF resume = <<>> /\ ~taken
         THEN Goes(plain, 0) /\ plain' = Turn(plain, 0)
         ELSE plain' = [plain EXCEPT !.hlt = @ /\ ~taken]
      /\ taken => resume' = Where(m)
      /\ ~taken => resume' = IF resume = Where(m') THEN <<>> ELSE resume
  BY RunIs
<1>2. /\ resume = <<>> /\ Stands(m, job, i, r, f, k, v) /\ Stands(plain, job, i, r, f, k, v)
  BY DEF InStep
<1>3. m.hlt = FALSE /\ plain.hlt = FALSE
  BY <1>2, ReadsAt
<1>4. MachineOK(m') /\ MachineOK(plain')
  BY TypedTurns DEF Typed, TypeOK
<1>5. CASE ~taken
  <2>1. request = 0
    BY <1>1, <1>5
  <2>2. Followed(m) /\ m' = Execute(m)
    BY <1>1, <1>3, <2>1, TurnAwake
  <2>3. Followed(plain) /\ plain' = Execute(plain)
    BY <1>1, <1>2, <1>3, <1>5, TurnAwake
  <2>4. resume' = <<>>
    BY <1>1, <1>2, <1>5
  <2> QED
    BY <1>4, <2>2, <2>3, <2>4 DEF Ahead
<1>6. CASE taken
  <2>1. request \in {8, 9} /\ m.f.ifl = 1
    BY <1>6, RequestsAssumption DEF Accepts
  <2>2. Interruptible(m) /\ ROMInPlace(m)
    BY <1>2, HandlersStay DEF Stands
  <2>3. PICK t : t[0] = m /\ Handled(t, request)
    BY <2>1, <2>2, TimerHandled, KeyHandled
  <2>4. m' = t[1] /\ resume' = Where(t[0])
    BY <1>1, <1>6, <2>3 DEF Handled
  <2>5. 1 \in Nat /\ 1 < Turns(request)
    BY DEF Turns
  <2>6. Stands(plain', job, i, r, f, k, v)
    <3> DEFINE b == taken
               y == plain
               z == plain'
    <3>1. b \in BOOLEAN
      BY DEF Accepts
    <3>2. z = [y EXCEPT !.hlt = @ /\ ~b]
      BY <1>1, <1>6
    <3>3. Stands(y, job, i, r, f, k, v)
      BY <1>2
    <3> HIDE DEF b, y, z
    <3>4. Stands(z, job, i, r, f, k, v)
      BY <3>1, <3>2, <3>3, Rests
    <3> QED
      BY <3>4 DEF z
  <2>7. Stands(t[0], job, i, r, f, k, v)
    BY <1>2, <2>3
  <2>8. Served(i, r, f, k, v)'
    <3> DEFINE n == 1
    <3>1. m' = t[n] /\ n \in Nat /\ 1 <= n /\ n < Turns(request)
      BY <2>4, <2>5
    <3> HIDE DEF n
    <3> QED
      BY <1>1, <2>1, <2>3, <2>4, <2>6, <2>7, <3>1 DEF Served
  <2> QED
    BY <2>8
<1> QED
  BY <1>5, <1>6

LEMMA ServedOn ==
  ASSUME Typed, EvenStack(job), NEW request, Run(request),
         NEW i, NEW r, NEW f, NEW k \in Nat, k <= 20, NEW v, Served(i, r, f, k, v)
  PROVE  InStep(i, r, f, k, v)' \/ Served(i, r, f, k, v)'
<1> DEFINE taken == Accepts(m, request)
<1>1. /\ request # 0 => taken
      /\ m' = Turn(m, request) /\ job' = job
      /\ IF resume = <<>> /\ ~taken
         THEN Goes(plain, 0) /\ plain' = Turn(plain, 0)
         ELSE plain' = [plain EXCEPT !.hlt = @ /\ ~taken]
      /\ ~taken => resume' = IF resume = Where(m') THEN <<>> ELSE resume
  BY RunIs
<1>2. PICK t, q, n : /\ Handled(t, q) /\ q \in {8, 9} /\ n \in Nat /\ 1 <= n /\ n < Turns(q)
                     /\ m = t[n] /\ resume = Where(t[0]) /\ Stands(t[0], job, i, r, f, k, v)
  BY DEF Served
<1>3. Stands(plain, job, i, r, f, k, v)
  BY DEF Served
<1>4. MachineOK(m') /\ MachineOK(plain')
  BY TypedTurns DEF Typed, TypeOK
<1>5. t[n + 1] = Turn(t[n], 0) /\ Serving(t[n], t[0])
  BY <1>2 DEF Handled
<1>6. ~taken /\ request = 0
  <2>1. m.f.ifl = 0
    BY <1>2, <1>5 DEF Serving
  <2> QED
    BY <1>1, <2>1 DEF Accepts
<1>7. m' = t[n + 1]
  BY <1>1, <1>2, <1>5, <1>6
<1>8. resume # <<>>
  <2>1. \A a, b, c : <<a, b, c>> # <<>>
    OBVIOUS
  <2> QED
    BY <1>2, <2>1 DEF Where
<1>9. Stands(plain', job, i, r, f, k, v)
  <2> DEFINE b == taken
             y == plain
             z == plain'
  <2>1. b \in BOOLEAN
    BY DEF Accepts
  <2>2. z = [y EXCEPT !.hlt = @ /\ ~b]
    BY <1>1, <1>8
  <2>3. Stands(y, job, i, r, f, k, v)
    BY <1>3
  <2> HIDE DEF b, y, z
  <2>4. Stands(z, job, i, r, f, k, v)
    BY <2>1, <2>2, <2>3, Rests
  <2> QED
    BY <2>4 DEF z
<1>10. resume' = IF resume = Where(m') THEN <<>> ELSE resume
  BY <1>1, <1>6
<1>11. CASE n + 1 < Turns(q)
  <2>1. n + 1 \in Nat /\ 1 <= n + 1
    BY <1>2
  <2>2. Serving(t[n + 1], t[0])
    BY <1>2, <1>11, <2>1 DEF Handled
  <2>3. Where(m') # Where(t[0])
    <3>1. m'.s[CS] = ROMSegment
      BY <1>7, <2>2 DEF Serving
    <3>2. t[0].s[CS] = 256
      BY <1>2, SegmentsAre DEF Stands
    <3>3. ROMSegment # 256
      BY SMT DEF ROMSegment
    <3>4. \A a, b, c, a2, b2, c2 : a # a2 => <<a, b, c>> # <<a2, b2, c2>>
      OBVIOUS
    <3> DEFINE a == t[0].s[CS]
    <3>5. a # m'.s[CS]
      BY <3>1, <3>2, <3>3
    <3> QED
      BY <3>4, <3>5 DEF Where
  <2>4. resume' = Where(t[0])
    BY <1>2, <1>10, <2>3
  <2> DEFINE l == n + 1
  <2>5. l \in Nat /\ 1 <= l /\ l < Turns(q) /\ m' = t[l]
    BY <1>7, <1>11, <2>1
  <2> HIDE DEF l
  <2>6. Served(i, r, f, k, v)'
    BY <1>1, <1>2, <1>9, <2>4, <2>5 DEF Served
  <2> QED
    BY <2>6
<1>12. CASE ~(n + 1 < Turns(q))
  <2>1. n + 1 = Turns(q)
    BY <1>2, <1>12 DEF Turns
  <2>2. Unnoticed(m', t[0], Frame(t[0], 18) \cup Counter)
    BY <1>2, <1>7, <2>1 DEF Handled
  <2>3. Where(m') = Where(t[0])
    BY <2>2 DEF Where, Unnoticed
  <2>4. resume' = <<>>
    BY <1>2, <1>10, <2>3
  <2>5. Stands(m', job, i, r, f, k, v)
    <3> DEFINE x == t[0]
               z == m'
    <3>1. Stands(x, job, i, r, f, k, v) /\ Unnoticed(z, x, Frame(x, 18) \cup Counter) /\ MachineOK(z)
      BY <1>2, <1>4, <2>2
    <3> HIDE DEF x, z
    <3>2. Stands(z, job, i, r, f, k, v)
      BY <3>1, Undisturbed
    <3> QED
      BY <3>2 DEF z
  <2> QED
    BY <1>1, <1>9, <2>4, <2>5 DEF InStep
<1> QED
  BY <1>11, <1>12

-----------------------------------------------------------------------------
\* What an instruction does to a program that stands at a place: every machine that
\* stands there stands at the next place.
Has(j, i, b) == i \in Nat /\ i < Len(Code[j.task]) /\ Code[j.task][i + 1] = b

Leads(j, i, r, f, k, v, i2, r2, f2, k2, v2) ==
  \A y : Stands(y, j, i, r, f, k, v) /\ MachineOK(Execute(y))
           => Stands(Execute(y), j, i2, r2, f2, k2, v2)

PutR(r, i, w, v) ==
  CASE w = Word -> [r EXCEPT ![i] = v]
    [] w = Byte /\ i < 4 -> [r EXCEPT ![i] = r[i] - (r[i] % Byte) + v]
    [] w = Byte /\ i > 3 -> [r EXCEPT ![i - 4] = (r[i - 4] % Byte) + Byte * v]

GetR(r, i, w) ==
  CASE w = Word -> r[i]
    [] w = Byte /\ i < 4 -> r[i] % Byte
    [] w = Byte /\ i > 3 -> r[i - 4] \div Byte

LEMMA RegisterGot ==
  \A x, i, w : R(x, i, w) = GetR(x.r, i, w)
BY DEF R, GetR

LEMMA RegisterPut ==
  ASSUME NEW x, MachineOK(x), NEW i \in 0..7, NEW w \in {Byte, Word}, NEW v
  PROVE  LET z == SetR(x, i, w, v)
         IN  /\ z.r = PutR(x.r, i, w, v) /\ z.f = x.f /\ z.ip = x.ip /\ z.s = x.s /\ z.h = x.h
             /\ z.mem = x.mem /\ z.hlt = x.hlt /\ z.exited = x.exited
<1>1. CASE w = Word
  <2>1. SetR(x, i, w, v) = [x EXCEPT !.r[i] = v] /\ PutR(x.r, i, w, v) = [x.r EXCEPT ![i] = v]
    BY <1>1, Sizes DEF SetR, PutR
  <2> QED
    BY <2>1, Fields DEF MachineOK
<1>2. CASE w = Byte /\ i < 4
  <2>1. /\ SetR(x, i, w, v) = [x EXCEPT !.r[i] = x.r[i] - (x.r[i] % Byte) + v]
        /\ PutR(x.r, i, w, v) = [x.r EXCEPT ![i] = x.r[i] - (x.r[i] % Byte) + v]
    BY <1>2, Sizes DEF SetR, PutR
  <2> DEFINE a == x.r[i] - (x.r[i] % Byte) + v
  <2> HIDE DEF a
  <2>2. SetR(x, i, w, v) = [x EXCEPT !.r[i] = a] /\ PutR(x.r, i, w, v) = [x.r EXCEPT ![i] = a]
    BY <2>1 DEF a
  <2> QED
    BY <2>2, Fields DEF MachineOK
<1>3. CASE w = Byte /\ ~(i < 4)
  <2> DEFINE a == (x.r[i - 4] % Byte) + Byte * v
             n == i - 4
  <2>1. SetR(x, i, w, v) = [x EXCEPT !.r[n] = a] /\ PutR(x.r, i, w, v) = [x.r EXCEPT ![n] = a]
    BY <1>3, Sizes DEF SetR, PutR
  <2> HIDE DEF a, n
  <2> QED
    BY <2>1, Fields DEF MachineOK
<1> QED
  BY <1>1, <1>2, <1>3

\* A result and its flags are stored in the register the ModR/M byte names.
LEMMA ResultStored ==
  ASSUME NEW j, NEW d, NEW y, NEW i, Reads(d, y, j, i), d.mode = 3, d.rm \in 0..7,
         NEW w \in {Byte, Word}, NEW a, NEW g \in Flags, NEW o, o = [v |-> a, f |-> g]
  PROVE  Does(StoreRm(d, w, o), y, i, PutR(y.r, d.rm, w, a), g)
<1> DEFINE x == [d EXCEPT !.f = g]
           z == SetR(x, d.rm, w, a)
<1>0. MachineOK(d) /\ d.r = y.r /\ d.h = y.h /\ d.mem = y.mem /\ d.s = y.s /\ d.ip = i
      /\ d.hlt = y.hlt /\ d.exited = y.exited
  BY DEF Reads
<1>1. /\ MachineOK(x) /\ x.r = d.r /\ x.f = g /\ x.ip = d.ip /\ x.s = d.s /\ x.h = d.h
      /\ x.mem = d.mem /\ x.hlt = d.hlt /\ x.exited = d.exited /\ x.mode = d.mode /\ x.rm = d.rm
  <2>1. MachineOK(x)
    BY <1>0, WithF
  <2> QED
    BY <1>0, <2>1, Fields DEF MachineOK
<1>2. StoreRm(d, w, o) = z
  <2>1. "v" \in DOMAIN o /\ o.v = a /\ o.f = g
    OBVIOUS
  <2>2. StoreRm(d, w, o) = SetRm(x, w, a)
    BY <2>1 DEF StoreRm, SetF
  <2> HIDE DEF x
  <2> QED
    BY <1>1, <2>2 DEF SetRm
<1> HIDE DEF x
<1>3. /\ z.r = PutR(x.r, d.rm, w, a) /\ z.f = x.f /\ z.ip = x.ip /\ z.s = x.s /\ z.h = x.h
      /\ z.mem = x.mem /\ z.hlt = x.hlt /\ z.exited = x.exited
  BY <1>1, RegisterPut
<1> QED
  BY <1>0, <1>1, <1>2, <1>3 DEF Does

\* An operation on two registers.
Alu(op) == op \in {0, 1, 17, 25, 40, 41, 57}

LEMMA AluIs ==
  ASSUME NEW op, Alu(op), NEW x, Code8(x) # 0
  PROVE  /\ ExecuteLow(x, op) = EG(x, Size(op), op \div 8)
         /\ op < 64 /\ op \notin DOMAIN PrefixOf /\ op \div 8 \in 0..7 /\ Size(op) \in {Byte, Word}
<1>1. /\ op \in 0..5 \cup 16..21 \cup 24..29 \cup 40..45 \cup 56..61 /\ op < 64
      /\ op \notin {6, 14, 22, 30} /\ op \notin {7, 23, 31} /\ op # 15 /\ op \notin {39, 47, 55, 63}
      /\ op \notin DOMAIN PrefixOf /\ op \div 8 \in 0..7 /\ op % 8 \in {0, 1}
  BY DEF Alu, PrefixOf
<1>2. TwoOperands(x, op, op \div 8) = EG(x, Size(op), op \div 8)
  BY <1>1 DEF TwoOperands
<1>3. ExecuteLow(x, op) = TwoOperands(x, op, op \div 8)
  <2>1. op = 0 \/ op = 1 \/ op = 17 \/ op = 25 \/ op = 40 \/ op = 41 \/ op = 57
    BY DEF Alu
  <2>2. CASE op = 0 \/ op = 1
    <3>1. ExecuteLow(x, op) = ADD(x, op) /\ op \div 8 = 0
      BY <2>2 DEF ExecuteLow
    <3> QED
      BY <3>1 DEF ADD
  <2>3. CASE op = 17
    <3>1. ExecuteLow(x, op) = ADC(x, op) /\ op \div 8 = 2
      BY <2>3 DEF ExecuteLow
    <3> QED
      BY <3>1 DEF ADC
  <2>4. CASE op = 25
    <3>1. ExecuteLow(x, op) = SBB(x, op) /\ op \div 8 = 3
      BY <2>4 DEF ExecuteLow
    <3> QED
      BY <3>1 DEF SBB
  <2>5. CASE op = 40 \/ op = 41
    <3>1. ExecuteLow(x, op) = SUB(x, op) /\ op \div 8 = 5
      BY <2>5 DEF ExecuteLow
    <3> QED
      BY <3>1 DEF SUB
  <2>6. CASE op = 57
    <3>1. ExecuteLow(x, op) = CMP(x, op) /\ op \div 8 = 7
      BY <2>6 DEF ExecuteLow
    <3> QED
      BY <3>1 DEF CMP
  <2> QED
    BY <2>1, <2>2, <2>3, <2>4, <2>5, <2>6
<1>4. Size(op) \in {Byte, Word}
  BY DEF Size
<1> QED
  BY <1>1, <1>2, <1>3, <1>4

LEMMA TwoRegisters ==
  ASSUME NEW j, EvenStack(j), NEW y, NEW i \in Nat, Reads(y, y, j, i), NEW op, Has(j, i, op), Alu(op),
         NEW reg, NEW rm, NEW b, Has(j, i + 1, b), Registers(b, reg, rm)
  PROVE  LET d == modregrm(Fetch(y))
         IN  /\ Reads(d, y, j, i + 2) /\ d.mode = 3 /\ d.reg = reg /\ d.rm = rm /\ rm \in 0..7
             /\ Execute(y) = EG(Fetch(y), Size(op), op \div 8)
<1> DEFINE n == Fetch(y)
           d == modregrm(n)
           l == i + 1
<1>1. /\ l \in Nat /\ i < Len(Code[j.task]) /\ l < Len(Code[j.task])
      /\ Code[j.task][i + 1] = op /\ Code[j.task][l + 1] = b /\ b # 0 /\ l + 1 = i + 2
      /\ rm \in 0..7
  BY DEF Has, Registers
<1> HIDE DEF n, d, l
<1>2. op \notin DOMAIN PrefixOf /\ op < 64
  BY DEF Alu, PrefixOf
<1>3. Reads(n, y, j, l) /\ Execute(y) = ExecuteLow(n, op)
  BY <1>1, <1>2, Opcode DEF n, l
<1>4. Reads(d, y, j, l + 1) /\ Named(d, reg, rm)
  <2>1. Registers(Code[j.task][l + 1], reg, rm)
    BY <1>1
  <2>2. l \in Nat /\ l < Len(Code[j.task]) /\ Reads(n, y, j, l)
    BY <1>1, <1>3
  <2> QED
    BY <2>1, <2>2, RegisterForm DEF d
<1>5. Code8(n) # 0
  BY <1>1, <1>3, CodeRead
<1>6. Execute(y) = EG(n, Size(op), op \div 8)
  BY <1>3, <1>5, AluIs
<1> QED
  BY <1>1, <1>4, <1>6 DEF d, n, Named

\* The result a of an operation, and its flags.
Yields(op, f, r, rm, reg, w, a, g) ==
  Operation(op \div 8, f, GetR(r, rm, w), GetR(r, reg, w), w) = [v |-> a, f |-> g]

Stored(r2, r, rm, w, a) == r2 = PutR(r, rm, w, a) /\ r2[SP] = r[SP]

LEMMA AluStored ==
  ASSUME NEW j, EvenStack(j), NEW i \in Nat, NEW op, Has(j, i, op), Alu(op),
         NEW reg, NEW rm, NEW b, Has(j, i + 1, b), Registers(b, reg, rm),
         NEW r, NEW f, NEW k, NEW v, NEW a, NEW g, Sane(g),
         Yields(op, f, r, rm, reg, Size(op), a, g), NEW r2, Stored(r2, r, rm, Size(op), a)
  PROVE  Leads(j, i, r, f, k, v, i + 2, r2, g, k, v)
<1> SUFFICES ASSUME NEW y, Stands(y, j, i, r, f, k, v), MachineOK(Execute(y))
             PROVE  Stands(Execute(y), j, i + 2, r2, g, k, v)
  BY DEF Leads
<1> DEFINE n == Fetch(y)
           d == modregrm(n)
           w == Size(op)
           o == [v |-> a, f |-> g]
           z == Execute(y)
           l == i + 2
<1> HIDE DEF n, d, w, o, z, l
<1>1. Reads(y, y, j, i) /\ y.r = r /\ y.f = f
  BY ReadsAt
<1>2. /\ Reads(d, y, j, l) /\ d.mode = 3 /\ d.reg = reg /\ d.rm = rm /\ rm \in 0..7
      /\ z = EG(n, w, op \div 8)
  BY <1>1, TwoRegisters DEF d, n, w, l, z
<1>3. d.r = r /\ d.f = f
  BY <1>1, <1>2 DEF Reads
<1>4. Rm(d, w) = GetR(r, rm, w) /\ R(d, d.reg, w) = GetR(r, reg, w)
  BY <1>2, <1>3, RegisterGot DEF Rm
<1>5. z = StoreRm(d, w, o)
  BY <1>2, <1>3, <1>4 DEF EG, d, o, Yields, w
<1>6. Does(StoreRm(d, w, o), y, l, PutR(y.r, d.rm, w, a), g)
  <2>1. o = [v |-> a, f |-> g] /\ d.rm \in 0..7 /\ g \in Flags /\ w \in {Byte, Word}
    BY <1>2 DEF o, Sane, Size, w
  <2> QED
    BY <1>2, <2>1, ResultStored
<1>7. Does(z, y, l, r2, g) /\ r2[SP] = r[SP]
  BY <1>1, <1>2, <1>5, <1>6 DEF Stored, w
<1>8. MachineOK(z) /\ Stands(y, j, i, r, f, k, v)
  BY DEF z
<1>9. Stands(z, j, l, r2, g, k, v)
  BY <1>7, <1>8, Onwards
<1> QED
  BY <1>9 DEF z, l

=============================================================================
