-------------------------- MODULE CpuProgramProofs --------------------------
(***************************************************************************)
(* Proofs about the programs of a session, from the bytes in memory to the *)
(* INT 20h at their end, with interrupts between any two instructions: a   *)
(* program has a way, the points it passes, in a loop those of every       *)
(* round, and the machine and the one that is never interrupted stay on it *)
(* (Underway).  What the programs leave at their end then follows from the *)
(* theorems of CpuProofs about the operations they are made of.            *)
(***************************************************************************)
EXTENDS CpuProofs

-----------------------------------------------------------------------------
\* An operation on a register and a byte behind the instruction.
YieldsWith(f, r, rm, reg, c, a, g) ==
  Operation(reg, f, GetR(r, rm, Byte), c, Byte) = [v |-> a, f |-> g]

LEMMA NumberBehind ==
  ASSUME NEW j, EvenStack(j), NEW y, NEW i \in Nat, Reads(y, y, j, i), Has(j, i, 128),
         NEW reg, NEW rm, NEW b, Has(j, i + 1, b), Registers(b, reg, rm), NEW c, Has(j, i + 2, c)
  PROVE  LET d == modregrm(Fetch(y))
             end == AdvanceIP(d, 1)
         IN  /\ Reads(end, y, j, i + 3) /\ end.mode = 3 /\ end.rm = rm /\ rm \in 0..7
             /\ Reads(d, y, j, i + 2) /\ Named(d, reg, rm) /\ Code8(d) = c
             /\ Execute(y) = GRP1(Fetch(y), 128)
<1> DEFINE n == Fetch(y)
           d == modregrm(n)
           end == AdvanceIP(d, 1)
           l == i + 1
           o == i + 2
           op == 128
<1>1. /\ l \in Nat /\ i < Len(Code[j.task]) /\ l < Len(Code[j.task]) /\ Code[j.task][l + 1] = b
      /\ Code[j.task][i + 1] = op /\ l + 1 = o /\ rm \in 0..7
      /\ o \in Nat /\ o < Len(Code[j.task]) /\ Code[j.task][o + 1] = c /\ o + 1 = i + 3
  BY DEF Has, Registers
<1>2. op \notin DOMAIN PrefixOf /\ op \in 64..159
  BY DEF PrefixOf
<1>3. ExecuteMiddle(n, op) = GRP1(n, op)
  BY DEF ExecuteMiddle
<1> HIDE DEF n, d, l, o, end, op
<1>4. Reads(n, y, j, l) /\ Execute(y) = ExecuteMiddle(n, op)
  BY <1>1, <1>2, Opcode DEF n, l
<1>5. Reads(d, y, j, o) /\ Named(d, reg, rm)
  <2>1. Registers(Code[j.task][l + 1], reg, rm)
    BY <1>1
  <2>2. l \in Nat /\ l < Len(Code[j.task]) /\ Reads(n, y, j, l)
    BY <1>1, <1>4
  <2>3. Reads(d, y, j, l + 1) /\ Named(d, reg, rm)
    BY <2>1, <2>2, RegisterForm DEF d
  <2> QED
    BY <1>1, <2>3
<1>6. Reads(end, y, j, o + 1) /\ Code8(d) = c
  BY <1>1, <1>5, Skips, CodeRead DEF end
<1>7. end.mode = d.mode /\ end.rm = d.rm
  BY <1>5, Fields DEF end, AdvanceIP, Reads, MachineOK
<1> QED
  BY <1>1, <1>3, <1>4, <1>5, <1>6, <1>7 DEF Named, n, d, end, l, o, op

LEMMA NumberStored ==
  ASSUME NEW j, EvenStack(j), NEW i \in Nat, Has(j, i, 128),
         NEW reg, NEW rm, NEW b, Has(j, i + 1, b), Registers(b, reg, rm), NEW c, Has(j, i + 2, c),
         NEW r, NEW f, NEW k, NEW v, NEW a, NEW g, Sane(g),
         YieldsWith(f, r, rm, reg, c, a, g), NEW r2, Stored(r2, r, rm, Byte, a)
  PROVE  Leads(j, i, r, f, k, v, i + 3, r2, g, k, v)
<1> SUFFICES ASSUME NEW y, Stands(y, j, i, r, f, k, v), MachineOK(Execute(y))
             PROVE  Stands(Execute(y), j, i + 3, r2, g, k, v)
  BY DEF Leads
<1> DEFINE n == Fetch(y)
           d == modregrm(n)
           end == AdvanceIP(d, 1)
           w == Byte
           o == [v |-> a, f |-> g]
           z == Execute(y)
           l == i + 3
           p == i + 2
<1>0. Size(128) = w /\ 128 # 131 /\ 128 # 129
  BY DEF Size
<1>10. Imm(d, w) = Code8(d)
  BY DEF Imm
<1> HIDE DEF n, d, w, o, z, l, end, p
<1>1. Reads(y, y, j, i) /\ y.r = r /\ y.f = f
  BY ReadsAt
<1>2. /\ Reads(end, y, j, l) /\ end.mode = 3 /\ end.rm = rm /\ rm \in 0..7
      /\ Reads(d, y, j, p) /\ Named(d, reg, rm) /\ Code8(d) = c
      /\ z = GRP1(n, 128)
  BY <1>1, NumberBehind DEF d, n, l, p, z, end
<1>3. d.r = r /\ d.f = f /\ d.reg = reg /\ d.rm = rm /\ d.mode = 3
  BY <1>1, <1>2 DEF Reads, Named
<1>4. Rm(d, w) = GetR(r, rm, w)
  BY <1>3, RegisterGot DEF Rm
<1>5. z = StoreRm(end, w, Operation(d.reg, d.f, Rm(d, w), Imm(d, w), w))
  BY <1>0, <1>2 DEF GRP1, d, end
<1>6. z = StoreRm(end, w, o)
  BY <1>2, <1>3, <1>4, <1>5, <1>10 DEF o, YieldsWith, w
<1>7. Does(StoreRm(end, w, o), y, l, PutR(y.r, end.rm, w, a), g)
  <2>1. o = [v |-> a, f |-> g] /\ end.rm \in 0..7 /\ g \in Flags /\ w \in {Byte, Word}
    BY <1>2 DEF o, Sane, w
  <2> QED
    BY <1>2, <2>1, ResultStored
<1>8. Does(z, y, l, r2, g) /\ r2[SP] = r[SP]
  BY <1>1, <1>2, <1>6, <1>7 DEF Stored, w
<1>9. MachineOK(z) /\ Stands(y, j, i, r, f, k, v)
  BY DEF z
<1>11. Stands(z, j, l, r2, g, k, v)
  BY <1>8, <1>9, Onwards
<1> QED
  BY <1>11 DEF z, l

-----------------------------------------------------------------------------
\* The decimal adjustments on AL and AH; b is the base behind AAM and AAD.
Decimals(op, f, al, ah, b) ==
  CASE op = 39 -> [al |-> DAA(f, al).al, ah |-> ah, f |-> DAA(f, al).f]
    [] op = 47 -> [al |-> DAS(f, al).al, ah |-> ah, f |-> DAS(f, al).f]
    [] op = 55 -> AAA(f, al, ah)
    [] op = 212 -> AAM(f, al, b)
    [] op = 213 -> AAD(f, al, ah, b)

WithAX(r, ah, al) == [r EXCEPT ![AX] = Byte * ah + al]

LEMMA AXStored ==
  ASSUME NEW x, MachineOK(x), NEW ah, NEW al, NEW g \in Flags
  PROVE  LET z == SetF([x EXCEPT !.r[AX] = Byte * ah + al], g)
         IN  /\ z.r = WithAX(x.r, ah, al) /\ z.f = g /\ z.ip = x.ip /\ z.s = x.s /\ z.h = x.h
             /\ z.mem = x.mem /\ z.hlt = x.hlt /\ z.exited = x.exited
<1> DEFINE v == Byte * ah + al
           n == AX
           e == [x EXCEPT !.r[n] = v]
           z == SetF(e, g)
<1>0. z = SetF([x EXCEPT !.r[AX] = Byte * ah + al], g)
  OBVIOUS
<1> HIDE DEF v, n
<1>1. /\ e.r = [x.r EXCEPT ![n] = v] /\ e.ip = x.ip /\ e.s = x.s /\ e.h = x.h
      /\ e.mem = x.mem /\ e.hlt = x.hlt /\ e.exited = x.exited /\ DOMAIN e = DOMAIN Reset
  BY Fields DEF MachineOK
<1> HIDE DEF e
<1>2. /\ z.r = e.r /\ z.f = g /\ z.ip = e.ip /\ z.s = e.s /\ z.h = e.h
      /\ z.mem = e.mem /\ z.hlt = e.hlt /\ z.exited = e.exited
  BY <1>1, Fields DEF SetF
<1>3. z.r = WithAX(x.r, ah, al)
  BY <1>1, <1>2 DEF WithAX, v, n
<1> HIDE DEF z
<1> QED
  BY <1>0, <1>1, <1>2, <1>3

\* What Decimal does with AL and AH of x; end is the machine behind the instruction.
LEMMA DecimalIs ==
  ASSUME NEW x, NEW op, op \in {39, 47, 55} \/ (op \in {212, 213} /\ Code8(x) # 0),
         NEW end, end = IF op < 64 THEN x ELSE AdvanceIP(x, 1),
         NEW e, e = Decimals(op, x.f, GetR(x.r, AX, Byte), GetR(x.r, 4, Byte), Code8(x))
  PROVE  Decimal(x, op) = SetF([end EXCEPT !.r[AX] = Byte * e.ah + e.al], e.f)
<1> DEFINE al == R(x, AX, Byte)
           ah == R(x, 4, Byte)
           set(u) == SetF([end EXCEPT !.r[AX] = Byte * u.ah + u.al], u.f)
<1>1. al = GetR(x.r, AX, Byte) /\ ah = GetR(x.r, 4, Byte)
  BY RegisterGot
<1> HIDE DEF al, ah
<1>2. CASE op = 39
  <2>1. Decimal(x, op) = set([al |-> DAA(x.f, al).al, ah |-> ah, f |-> DAA(x.f, al).f])
    BY <1>2 DEF Decimal, al, ah
  <2>2. e = [al |-> DAA(x.f, al).al, ah |-> ah, f |-> DAA(x.f, al).f]
    BY <1>1, <1>2 DEF Decimals
  <2> QED
    BY <2>1, <2>2
<1>3. CASE op = 47
  <2>1. Decimal(x, op) = set([al |-> DAS(x.f, al).al, ah |-> ah, f |-> DAS(x.f, al).f])
    BY <1>3 DEF Decimal, al, ah
  <2>2. e = [al |-> DAS(x.f, al).al, ah |-> ah, f |-> DAS(x.f, al).f]
    BY <1>1, <1>3 DEF Decimals
  <2> QED
    BY <2>1, <2>2
<1>4. CASE op = 55
  <2>1. Decimal(x, op) = set(AAA(x.f, al, ah))
    BY <1>4 DEF Decimal, al, ah
  <2>2. e = AAA(x.f, al, ah)
    BY <1>1, <1>4 DEF Decimals
  <2> QED
    BY <2>1, <2>2
<1>5. CASE op = 212
  <2>1. Decimal(x, op) = set(AAM(x.f, al, Code8(x)))
    BY <1>5 DEF Decimal, al, ah
  <2>2. e = AAM(x.f, al, Code8(x))
    BY <1>1, <1>5 DEF Decimals
  <2> QED
    BY <2>1, <2>2
<1>6. CASE op = 213
  <2>1. Decimal(x, op) = set(AAD(x.f, al, ah, Code8(x)))
    BY <1>6 DEF Decimal, al, ah
  <2>2. e = AAD(x.f, al, ah, Code8(x))
    BY <1>1, <1>6 DEF Decimals
  <2> QED
    BY <2>1, <2>2
<1> QED
  BY <1>2, <1>3, <1>4, <1>5, <1>6

\* The machine n, behind the opcode and its operand, with new AL, AH and flags.
LEMMA AdjustedLeads ==
  ASSUME NEW j, NEW y, NEW i, NEW r, NEW f, NEW k, NEW v, Stands(y, j, i, r, f, k, v),
         NEW z, MachineOK(z), NEW n, NEW l, Reads(n, y, j, l), NEW e, Sane(e.f),
         z = SetF([n EXCEPT !.r[AX] = Byte * e.ah + e.al], e.f)
  PROVE  Stands(z, j, l, WithAX(r, e.ah, e.al), e.f, k, v)
<1> DEFINE r2 == WithAX(r, e.ah, e.al)
           g == e.f
           ah == e.ah
           al == e.al
<1>1. y.r = r /\ r \in [0..7 -> Words]
  BY ReadsAt
<1>2. MachineOK(n) /\ g \in Flags /\ n.r = y.r /\ n.h = y.h /\ n.mem = y.mem /\ n.s = y.s
      /\ n.ip = l /\ n.hlt = y.hlt /\ n.exited = y.exited
  BY DEF Reads, Sane
<1>3. z = SetF([n EXCEPT !.r[AX] = Byte * ah + al], g)
  OBVIOUS
<1> HIDE DEF g, ah, al
<1>4. /\ z.r = WithAX(n.r, ah, al) /\ z.f = g /\ z.ip = n.ip /\ z.s = n.s /\ z.h = n.h
      /\ z.mem = n.mem /\ z.hlt = n.hlt /\ z.exited = n.exited
  BY <1>2, <1>3, AXStored
<1>5. r2[SP] = r[SP]
  BY <1>1 DEF WithAX, AX, SP
<1>6. WithAX(n.r, ah, al) = r2
  BY <1>1, <1>2 DEF ah, al
<1> HIDE DEF r2
<1>7. Does(z, y, l, r2, g)
  BY <1>2, <1>4, <1>6 DEF Does
<1>8. Sane(g)
  BY DEF g
<1>9. Stands(z, j, l, r2, g, k, v)
  BY <1>5, <1>7, <1>8, Onwards
<1> QED
  BY <1>9 DEF r2, g

Adjustment(op) == op \in {39, 47, 55}
Unpacks(op) == op \in {212, 213}
Adjusts(op, f, r, c, e) ==
  e = Decimals(op, f, GetR(r, AX, Byte), GetR(r, 4, Byte), c) /\ Sane(e.f)

LEMMA DecimalLeads ==
  ASSUME NEW j, EvenStack(j), NEW i \in Nat, NEW op, Has(j, i, op), Adjustment(op),
         NEW r, NEW f, NEW k, NEW v, NEW c,
         NEW e, Adjusts(op, f, r, c, e)
  PROVE  Leads(j, i, r, f, k, v, i + 1, WithAX(r, e.ah, e.al), e.f, k, v)
<1> SUFFICES ASSUME NEW y, Stands(y, j, i, r, f, k, v), MachineOK(Execute(y))
             PROVE  Stands(Execute(y), j, i + 1, WithAX(r, e.ah, e.al), e.f, k, v)
  BY DEF Leads
<1> DEFINE n == Fetch(y)
           l == i + 1
           z == Execute(y)
<1>1. op < 64 /\ op \notin DOMAIN PrefixOf /\ op \in {39, 47, 55, 63} /\ op \notin {6, 14, 22, 30}
      /\ op \notin {7, 23, 31} /\ op # 15
      /\ op \in {39, 47, 55}
  BY DEF PrefixOf, Adjustment
<1>2. i < Len(Code[j.task]) /\ Code[j.task][i + 1] = op
  BY DEF Has
<1>3. ExecuteLow(n, op) = Decimal(n, op)
  BY <1>1 DEF ExecuteLow
<1> HIDE DEF n, l, z
<1>4. Reads(y, y, j, i) /\ y.r = r /\ y.f = f
  BY ReadsAt
<1>5. Reads(n, y, j, l) /\ z = ExecuteLow(n, op)
  BY <1>1, <1>2, <1>4, Opcode DEF n, l, z
<1>6. n.r = r /\ n.f = f
  BY <1>4, <1>5 DEF Reads
<1>7. e = Decimals(op, n.f, GetR(n.r, AX, Byte), GetR(n.r, 4, Byte), Code8(n))
  BY <1>6 DEF Decimals, Adjusts
<1>8. Decimal(n, op) = SetF([n EXCEPT !.r[AX] = Byte * e.ah + e.al], e.f)
  BY <1>1, <1>7, DecimalIs
<1>9. MachineOK(z) /\ Stands(y, j, i, r, f, k, v) /\ Sane(e.f)
  BY DEF z, Adjusts
<1>10. Stands(z, j, l, WithAX(r, e.ah, e.al), e.f, k, v)
  BY <1>3, <1>5, <1>8, <1>9, AdjustedLeads
<1> QED
  BY <1>10 DEF l, z

LEMMA BaseLeads ==
  ASSUME NEW j, EvenStack(j), NEW i \in Nat, NEW op, Has(j, i, op), Unpacks(op),
         NEW c, Has(j, i + 1, c), c # 0, NEW r, NEW f, NEW k, NEW v,
         NEW e, Adjusts(op, f, r, c, e)
  PROVE  Leads(j, i, r, f, k, v, i + 2, WithAX(r, e.ah, e.al), e.f, k, v)
<1> SUFFICES ASSUME NEW y, Stands(y, j, i, r, f, k, v), MachineOK(Execute(y))
             PROVE  Stands(Execute(y), j, i + 2, WithAX(r, e.ah, e.al), e.f, k, v)
  BY DEF Leads
<1> DEFINE n == Fetch(y)
           l == i + 1
           o == i + 2
           z == Execute(y)
           end == AdvanceIP(n, 1)
<1>1. ~(op < 64) /\ op \in 160..255 /\ op \notin DOMAIN PrefixOf /\ op \in {212, 213}
  BY DEF PrefixOf, Unpacks
<1>2. /\ i < Len(Code[j.task]) /\ Code[j.task][i + 1] = op /\ l \in Nat /\ l < Len(Code[j.task])
      /\ Code[j.task][l + 1] = c /\ l + 1 = o
  BY DEF Has
<1>3. ExecuteHigh(n, op) = Decimal(n, op)
  BY <1>1 DEF ExecuteHigh
<1> HIDE DEF n, l, z, o, end
<1>4. Reads(y, y, j, i) /\ y.r = r /\ y.f = f
  BY ReadsAt
<1>5. Reads(n, y, j, l) /\ z = ExecuteHigh(n, op)
  <2>1. /\ i < Len(Code[j.task]) /\ Reads(y, y, j, i)
        /\ Code[j.task][i + 1] \notin DOMAIN PrefixOf /\ Code[j.task][i + 1] \in 160..255
    BY <1>1, <1>2, <1>4
  <2>2. /\ Reads(Fetch(y), y, j, i + 1)
        /\ Execute(y) = ExecuteHigh(Fetch(y), Code[j.task][i + 1])
    BY <2>1, Opcode
  <2> QED
    BY <1>2, <2>2 DEF n, l, z
<1>6. n.r = r /\ n.f = f
  BY <1>4, <1>5 DEF Reads
<1>7. Code8(n) = c /\ Reads(end, y, j, l + 1)
  BY <1>2, <1>5, CodeRead, Skips DEF end
<1>8. end = IF op < 64 THEN n ELSE AdvanceIP(n, 1)
  BY <1>1 DEF end
<1>9. e = Decimals(op, n.f, GetR(n.r, AX, Byte), GetR(n.r, 4, Byte), Code8(n))
  BY <1>6, <1>7 DEF Adjusts
<1>10. Decimal(n, op) = SetF([end EXCEPT !.r[AX] = Byte * e.ah + e.al], e.f)
  BY <1>1, <1>7, <1>8, <1>9, DecimalIs
<1>11. MachineOK(z) /\ Stands(y, j, i, r, f, k, v) /\ Sane(e.f)
  BY DEF z, Adjusts
<1>12. Reads(end, y, j, o)
  BY <1>2, <1>7
<1>13. Stands(z, j, o, WithAX(r, e.ah, e.al), e.f, k, v)
  BY <1>3, <1>5, <1>10, <1>11, <1>12, AdjustedLeads
<1> QED
  BY <1>13 DEF o, z

-----------------------------------------------------------------------------
\* The flags of an operation survive the stack as those it began with.
LEMMA SaneSum ==
  ASSUME NEW f, Sane(f), NEW a \in Int, NEW b \in Int, NEW c \in Int, NEW w \in Nat, 0 < w
  PROVE  Sane(flag_adc(f, a, b, c, w))
<1>1. f \in Flags
  BY DEF Sane
<1>2. flag_adc(f, a, b, c, w) \in Flags
  BY <1>1, AdcOK
<1>3. flag_adc(f, a, b, c, w).ac = f.ac
  BY <1>1 DEF flag_adc, flag_szp, Flags, FlagNames
<1>4. flag_adc(f, a, b, c, w).of \in 0..1
  BY <1>1 DEF flag_adc, flag_szp, Flags, FlagNames, Bool
<1> QED
  BY <1>2, <1>3, <1>4 DEF Sane

LEMMA SaneDifference ==
  ASSUME NEW f, Sane(f), NEW a \in Int, NEW b \in Int, NEW w \in Nat, 0 < w
  PROVE  Sane(flag_sub(f, a, b, w))
<1>1. f \in Flags
  BY DEF Sane
<1>2. flag_sub(f, a, b, w) \in Flags
  BY <1>1, SubOK
<1>3. flag_sub(f, a, b, w).ac = f.ac
  BY <1>1 DEF flag_sub, flag_szp, Flags, FlagNames
<1>4. flag_sub(f, a, b, w).of \in 0..1
  BY <1>1 DEF flag_sub, flag_szp, Flags, FlagNames, Bool
<1> QED
  BY <1>2, <1>3, <1>4 DEF Sane

LEMMA SaneOther ==
  ASSUME NEW f, Sane(f), NEW g \in Flags, g.ac = f.ac, g.of = f.of
  PROVE  Sane(g)
BY DEF Sane

LEMMA SaneAdjusted ==
  ASSUME NEW f, Sane(f), NEW al \in Octets, NEW ah \in Octets, NEW b \in Octets
  PROVE  /\ Sane(DAA(f, al).f) /\ DAA(f, al).al \in Octets
         /\ Sane(DAS(f, al).f) /\ DAS(f, al).al \in Octets
         /\ Sane(AAA(f, al, ah).f) /\ AAA(f, al, ah).al \in Octets /\ AAA(f, al, ah).ah \in Octets
         /\ Sane(AAD(f, al, ah, b).f) /\ AAD(f, al, ah, b).al \in Octets /\ AAD(f, al, ah, b).ah = 0
         /\ b # 0 => /\ Sane(AAM(f, al, b).f) /\ AAM(f, al, b).al \in Octets
                     /\ AAM(f, al, b).ah \in Octets
<1>1. f \in Flags
  BY DEF Sane
<1>2. /\ DAA(f, al).f.ac = f.ac /\ DAA(f, al).f.of = f.of
      /\ DAS(f, al).f.ac = f.ac /\ DAS(f, al).f.of = f.of
  <2>1. DAA(f, al).f.ac = f.ac /\ DAA(f, al).f.of = f.of
    BY <1>1 DEF DAA, flag_szp, Flags, FlagNames
  <2>2. DAS(f, al).f.ac = f.ac /\ DAS(f, al).f.of = f.of
    BY <1>1 DEF DAS, flag_szp, Flags, FlagNames
  <2> QED
    BY <2>1, <2>2
<1>3. /\ AAA(f, al, ah).f.ac = f.ac /\ AAA(f, al, ah).f.of = f.of
      /\ AAM(f, al, b).f.ac = f.ac /\ AAM(f, al, b).f.of = f.of
      /\ AAD(f, al, ah, b).f.ac = f.ac /\ AAD(f, al, ah, b).f.of = f.of
      /\ AAD(f, al, ah, b).ah = 0
  <2>1. AAA(f, al, ah).f.ac = f.ac /\ AAA(f, al, ah).f.of = f.of
    BY <1>1 DEF AAA, Flags, FlagNames
  <2>2. AAM(f, al, b).f.ac = f.ac /\ AAM(f, al, b).f.of = f.of
    BY <1>1 DEF AAM, flag_szp, Flags, FlagNames
  <2>3. AAD(f, al, ah, b).f.ac = f.ac /\ AAD(f, al, ah, b).f.of = f.of /\ AAD(f, al, ah, b).ah = 0
    BY <1>1 DEF AAD, flag_szp, Flags, FlagNames
  <2> QED
    BY <2>1, <2>2, <2>3
<1>4. /\ DAA(f, al).f \in Flags /\ DAA(f, al).al \in Octets
      /\ DAS(f, al).f \in Flags /\ DAS(f, al).al \in Octets
  BY <1>1, BcdOK
<1>5. /\ AAA(f, al, ah).f \in Flags /\ AAA(f, al, ah).al \in Octets /\ AAA(f, al, ah).ah \in Octets
      /\ AAD(f, al, ah, b).f \in Flags /\ AAD(f, al, ah, b).al \in Octets
      /\ b # 0 => /\ AAM(f, al, b).f \in Flags /\ AAM(f, al, b).al \in Octets
                  /\ AAM(f, al, b).ah \in Octets
  BY <1>1, AsciiOK DEF Adjusted
<1> QED
  BY <1>2, <1>3, <1>4, <1>5, SaneOther

LEMMA SaneAtFirst ==
  ASSUME NEW j \in Jobs
  PROVE  Sane(Load(j).f)
<1>1. j.flags \in Int
  BY JobsAssumption, Numbers8
<1>2. decodeflags(j.flags) \in Flags
  BY <1>1, DecodedOK
<1>3. decodeflags(j.flags).ac = 0
  BY DEF decodeflags
<1>4. decodeflags(j.flags).of \in 0..1
  BY <1>1 DEF decodeflags
<1> QED
  BY <1>2, <1>3, <1>4, LoadIs DEF Sane

-----------------------------------------------------------------------------
\* Two halves of a register.
LEMMA HalvesOf ==
  ASSUME NEW h \in Octets, NEW l \in Octets
  PROVE  /\ Byte * h + l \in Words /\ (Byte * h + l) % Byte = l /\ (Byte * h + l) \div Byte = h
         /\ (Byte * h + l) - ((Byte * h + l) % Byte) = Byte * h
<1>1. \A n \in Nat : \A a \in Nat : \A b \in 0..(n - 1) :
        n > 0 => /\ (n * a + b) % n = b /\ (n * a + b) \div n = a
                 /\ n * a + b \in Int /\ n * a \in Int /\ (n * a + b) - b = n * a
  OBVIOUS
<1>2. h \in Nat /\ l \in 0..(Byte - 1) /\ Byte \in Nat /\ Byte > 0
  BY Numbers8, Sizes DEF Octets
<1>3. /\ (Byte * h + l) % Byte = l /\ (Byte * h + l) \div Byte = h
      /\ (Byte * h + l) - l = Byte * h
  BY <1>1, <1>2
<1>4. Byte * h + l \in Words
  BY Word16
<1> QED
  BY <1>3, <1>4

LEMMA HalfRegisters ==
  ASSUME NEW r \in [0..7 -> Words], NEW h \in Octets, NEW l \in Octets,
         NEW q, q = WithAX(r, h, l)
  PROVE  /\ q \in [0..7 -> Words] /\ q[AX] = Byte * h + l
         /\ \A i \in 1..7 : q[i] = r[i]
         /\ GetR(q, AX, Byte) = l /\ GetR(q, 4, Byte) = h /\ GetR(q, BX, Byte) = r[BX] % Byte
         /\ \A a \in Octets : Stored(WithAX(r, h, a), q, AX, Byte, a)
         /\ \A a \in Octets : Stored(WithAX(r, a, l), q, 4, Byte, a)
         /\ \A a, b : WithAX(q, a, b) = WithAX(r, a, b)
<1> DEFINE x == Byte * h + l
<1>1. /\ x \in Words /\ x % Byte = l /\ x \div Byte = h /\ x - (x % Byte) = Byte * h
  BY HalvesOf
<1>2. q = [r EXCEPT ![0] = x]
  BY DEF WithAX, AX
<1> HIDE DEF x
<1>3. /\ q \in [0..7 -> Words] /\ q[0] = x /\ \A i \in 1..7 : q[i] = r[i]
  BY <1>1, <1>2
<1>4. GetR(q, AX, Byte) = l /\ GetR(q, 4, Byte) = h /\ GetR(q, BX, Byte) = r[BX] % Byte
  <2>1. Byte # Word
    BY SMT DEF Byte, Word
  <2>2. q[3] = r[3]
    BY <1>3
  <2> QED
    BY <1>1, <1>3, <2>1, <2>2 DEF GetR, AX, BX
<1>5. ASSUME NEW a, NEW b
      PROVE  WithAX(q, a, b) = WithAX(r, a, b)
  BY <1>2 DEF WithAX, AX
<1>6. ASSUME NEW a \in Octets
      PROVE  Stored(WithAX(r, h, a), q, AX, Byte, a) /\ Stored(WithAX(r, a, l), q, 4, Byte, a)
  <2>1. Byte # Word
    BY SMT DEF Byte, Word
  <2>2. PutR(q, AX, Byte, a) = [q EXCEPT ![0] = Byte * h + a]
    <3>1. PutR(q, 0, Byte, a) = [q EXCEPT ![0] = q[0] - (q[0] % Byte) + a]
      BY <2>1 DEF PutR
    <3> QED
      BY <1>1, <1>3, <3>1 DEF AX
  <2>3. PutR(q, 4, Byte, a) = [q EXCEPT ![0] = l + Byte * a]
    <3> DEFINE i == 4
               o == i - 4
               e == (q[o] % Byte) + Byte * a
    <3>1. i > 3 /\ ~(i < 4) /\ o = 0
      OBVIOUS
    <3>2. PutR(q, i, Byte, a) = [q EXCEPT ![o] = e]
      BY <2>1, <3>1 DEF PutR
    <3>3. e = l + Byte * a
      BY <1>1, <1>3, <3>1
    <3> HIDE DEF o, e
    <3> QED
      BY <3>1, <3>2, <3>3
  <2>4. PutR(q, AX, Byte, a) = WithAX(q, h, a)
    BY <2>2 DEF WithAX, AX
  <2>5. PutR(q, 4, Byte, a) = WithAX(q, a, l)
    <3>1. l + Byte * a = Byte * a + l
      BY <1>6, SMT DEF Octets, Byte
    <3> QED
      BY <2>3, <3>1 DEF WithAX, AX
  <2>6. \A u, v : WithAX(r, u, v)[SP] = r[SP] /\ q[SP] = r[SP]
    BY <1>2 DEF WithAX, AX, SP
  <2> QED
    BY <1>5, <2>4, <2>5, <2>6 DEF Stored
<1> QED
  BY <1>3, <1>4, <1>5, <1>6 DEF AX, x

LEMMA SmallAX ==
  ASSUME NEW r \in [0..7 -> Words], r[AX] < Byte
  PROVE  /\ r = WithAX(r, 0, r[AX]) /\ r[AX] \in Octets /\ 0 \in Octets
<1>1. r[0] \in Nat /\ Byte * 0 + r[0] = r[0] /\ Byte \in Nat
  BY Numbers8, Sizes
<1> QED
  BY <1>1, Numbers8, Sizes DEF WithAX, AX, Octets

-----------------------------------------------------------------------------
\* The end of a program: INT 20h, and the callback of the ROM that stops it.
EndBytes(y) ==
  /\ Read16Unsafe(y, 128) = 128 /\ Read16Unsafe(y, 130) = ROMSegment
  /\ cell(y, 15 * Word + 128) = 99 /\ cell(y, 15 * Word + 129) = 32

LEMMA EndInPlace ==
  ASSUME NEW j, EvenStack(j), NEW y, SameBut(y, Load(j), Area(j))
  PROVE  EndBytes(y)
<1> DEFINE p == Vector(32)
           q == Stub(32)
           a == 15 * Word
<1>1. (\A b \in DOMAIN p : cell(y, b) = p[b]) /\ (\A b \in DOMAIN q : cell(y, b) = q[b])
  BY HandlersStay
<1>2. cell(y, 128) = 128 /\ cell(y, 129) = 0 /\ cell(y, 130) = 0 /\ cell(y, 131) = 240
  <2>1. (4 * 32) % Byte = 128 /\ (4 * 32) \div Byte = 0 /\ 4 * 32 = 128
    BY DEF Byte
  <2>2. p = At(<<128, 0, 0, 240>>, 128)
    BY <2>1 DEF Vector
  <2> HIDE DEF p
  <2>3. 128 \in DOMAIN p /\ 129 \in DOMAIN p /\ 130 \in DOMAIN p /\ 131 \in DOMAIN p
    BY <2>2 DEF At
  <2>4. p[128] = 128 /\ p[129] = 0 /\ p[130] = 0 /\ p[131] = 240
    BY <2>2 DEF At
  <2> QED
    BY <1>1, <2>3, <2>4
<1>3. cell(y, a + 128) = 99 /\ cell(y, a + 129) = 32
  <2>1. 983040 + 4 * 32 = a + 128 /\ a \in Nat
    BY SMT DEF Word, Byte
  <2> HIDE DEF a
  <2>2. q = At(<<99, 32, 207, 0>>, a + 128)
    BY <2>1 DEF Stub, Callback
  <2> HIDE DEF q
  <2>3. a + 128 \in DOMAIN q /\ a + 129 \in DOMAIN q
    BY <2>1, <2>2 DEF At
  <2>4. q[a + 128] = 99 /\ q[a + 129] = 32
    BY <2>1, <2>2 DEF At
  <2> QED
    BY <1>1, <2>3, <2>4
<1>4. Read16Unsafe(y, 128) = 128 /\ Read16Unsafe(y, 130) = 240 * Byte
  <2>1. Byte \in Nat
    BY Sizes
  <2> QED
    BY <1>2, <2>1 DEF Read16Unsafe
<1>5. 240 * Byte = ROMSegment
  BY SMT DEF ROMSegment, Byte
<1> QED
  BY <1>3, <1>4, <1>5 DEF EndBytes

\* The registers and the flags when INT 20h has pushed its frame.
EndRegisters(j, r) == [r EXCEPT ![SP] = Below(Load(j), 6)]
EndFlags(f) == [f EXCEPT !.ifl = 0, !.tf = 0]
EndSegments == [Segments EXCEPT ![CS] = ROMSegment]

EndWords(f, i) == <<makeflags(f), 256, i + 2>>

Ended(y, j, i, e, r, f, v) ==
  /\ MachineOK(y) /\ Awake(y) /\ y.exited = e
  /\ y.s = EndSegments /\ y.h = j.h /\ y.ip = i
  /\ y.r = EndRegisters(j, r) /\ y.f = EndFlags(f)
  /\ StackWord(y, Below(Load(j), 2)) = v[1] /\ StackWord(y, Below(Load(j), 4)) = v[2]
  /\ StackWord(y, Below(Load(j), 6)) = v[3] /\ SameBut(y, Load(j), Area(j))

LEMMA InterruptCall ==
  ASSUME NEW j, EvenStack(j), NEW y, NEW i \in Nat, Reads(y, y, j, i), Has(j, i, 205), Has(j, i + 1, 32)
  PROVE  \E x : Reads(x, y, j, i + 2) /\ Execute(y) = intcall86(x, 32)
<1> DEFINE n == Fetch(y)
           x == AdvanceIP(n, 1)
           l == i + 1
           op == 205
<1>1. /\ i < Len(Code[j.task]) /\ Code[j.task][i + 1] = op /\ l \in Nat /\ l < Len(Code[j.task])
      /\ Code[j.task][l + 1] = 32 /\ l + 1 = i + 2
  BY DEF Has
<1>2. op \in 160..255 /\ op \notin DOMAIN PrefixOf
  BY DEF PrefixOf
<1>3. ExecuteHigh(n, op) = intcall86(x, Code8(n))
  <2>1. ExecuteHigh(n, op) = INT(n, op)
    BY DEF ExecuteHigh
  <2> QED
    BY <2>1 DEF INT
<1> HIDE DEF n, l, x, op
<1>4. Reads(n, y, j, l) /\ Execute(y) = ExecuteHigh(n, op)
  <2>1. Code[j.task][i + 1] \notin DOMAIN PrefixOf /\ Code[j.task][i + 1] \in 160..255
    BY <1>1, <1>2
  <2>2. /\ Reads(Fetch(y), y, j, i + 1)
        /\ Execute(y) = ExecuteHigh(Fetch(y), Code[j.task][i + 1])
    BY <1>1, <2>1, Opcode
  <2> QED
    BY <1>1, <2>2 DEF n, l
<1>5. Code8(n) = 32 /\ Reads(x, y, j, l + 1)
  BY <1>1, <1>4, CodeRead, Skips DEF x
<1> QED
  BY <1>1, <1>3, <1>4, <1>5

LEMMA InterruptEnds ==
  ASSUME NEW j, EvenStack(j), NEW i \in Nat, NEW y, NEW r, NEW f, NEW v, Stands(y, j, i, r, f, 0, v),
         NEW x, Reads(x, y, j, i + 2), NEW z, z = intcall86(x, 32), MachineOK(z),
         NEW v2, v2 = EndWords(f, i)
  PROVE  Ended(z, j, 128, FALSE, r, f, v2)
<1> DEFINE x0 == Load(j)
           n == 32
           l == i + 2
<1>1. /\ Reads(y, y, j, i) /\ MachineOK(y) /\ y.r = r /\ y.f = f /\ y.hlt = FALSE
      /\ y.exited = FALSE /\ StackInRAM(y)
  BY ReadsAt
<1>2. Reads(x, y, j, i + 2)
  OBVIOUS
<1>3. /\ MachineOK(x) /\ x.s = Segments /\ x.ip = l /\ SameBut(x, x0, Area(j))
      /\ x.r = r /\ x.f = f /\ x.h = j.h /\ x.hlt = FALSE /\ x.exited = FALSE
  BY <1>1, <1>2 DEF Reads, Stands
<1>4. /\ MachineOK(x0) /\ StackInRAM(x0) /\ x0.s = Segments /\ Segments[CS] = 256
  BY LoadStack, SegmentsAre
<1>5. x.r[SP] = x0.r[SP]
  <2>1. x.r[SP] = Slot(x0, 0)
    BY <1>1, <1>3 DEF Stands, OnStack
  <2>2. InRAM(x0)
    BY <1>4 DEF InRAM
  <2> HIDE DEF x0
  <2> QED
    BY <2>1, <2>2, SlotZero
<1>6. StackInRAM(x)
  BY <1>3, <1>4, <1>5 DEF StackInRAM
<1>7. n \in Octets /\ 4 * n = 128 /\ 4 * n + 2 = 130
  BY SMT DEF Octets, Byte
<1>8. EndBytes(x)
  BY <1>3, EndInPlace
<1> HIDE DEF x0, n, l
<1>9. Framed(z, x, n)
  <2>1. z = intcall86(x, n)
    BY DEF n
  <2> QED
    BY <1>3, <1>6, <1>7, <2>1, IntFrame
<1>10. \A d : Below(x, d) = Below(x0, d) /\ Frame(x, d) = Frame(x0, d)
  BY <1>3, <1>4, <1>5 DEF Below, Frame
<1>11. /\ z.r = EndRegisters(j, r) /\ z.f = EndFlags(f) /\ z.s = EndSegments /\ z.ip = 128
       /\ z.h = j.h /\ z.hlt = FALSE /\ z.exited = FALSE /\ MachineOK(z)
  <2>1. Read16Unsafe(x, 4 * n) = 128 /\ Read16Unsafe(x, 4 * n + 2) = ROMSegment
    BY <1>7, <1>8 DEF EndBytes
  <2>2. z.r = [x.r EXCEPT ![SP] = Below(x, 6)]
    BY <1>9 DEF Framed
  <2>3. z.r = EndRegisters(j, r)
    BY <1>3, <1>10, <2>2 DEF EndRegisters, x0
  <2>4. z.f = EndFlags(f) /\ z.s = EndSegments /\ z.ip = 128
    BY <1>3, <1>9, <2>1 DEF Framed, EndFlags, EndSegments
  <2>5. z.h = j.h /\ z.hlt = FALSE /\ z.exited = FALSE /\ MachineOK(z)
    BY <1>3, <1>9 DEF Framed
  <2> QED
    BY <2>3, <2>4, <2>5
<1>12. /\ StackWord(z, Below(x0, 2)) = makeflags(f) /\ StackWord(z, Below(x0, 4)) = 256
       /\ StackWord(z, Below(x0, 6)) = l
  BY <1>3, <1>4, <1>9, <1>10 DEF Framed
<1>13. SameBut(z, x0, Area(j))
  <2>1. SUFFICES ASSUME NEW b, b \notin Area(j)
                 PROVE  cell(z, b) = cell(x0, b)
    BY DEF SameBut
  <2>2. Frame(x0, 6) \subseteq Frame(x0, 60)
    BY DEF Frame
  <2>3. b \notin Frame(x, 6)
    BY <1>10, <2>1, <2>2 DEF Area, x0
  <2>4. cell(z, b) = cell(x, b)
    BY <1>9, <2>3 DEF Framed
  <2> QED
    BY <1>3, <2>1, <2>4 DEF SameBut
<1>14. v2[1] = makeflags(f) /\ v2[2] = 256 /\ v2[3] = l
  BY DEF l, EndWords
<1> QED
  BY <1>11, <1>12, <1>13, <1>14 DEF Ended, Awake, x0

LEMMA ProgramEnds ==
  ASSUME NEW j, EvenStack(j), NEW i \in Nat, Has(j, i, 205), Has(j, i + 1, 32),
         NEW y, NEW r, NEW f, NEW v, Stands(y, j, i, r, f, 0, v),
         NEW z, z = Execute(y), MachineOK(z), NEW v2, v2 = EndWords(f, i)
  PROVE  Ended(z, j, 128, FALSE, r, f, v2)
<1>1. Reads(y, y, j, i)
  BY ReadsAt
<1>2. \E x : Reads(x, y, j, i + 2) /\ z = intcall86(x, 32)
  BY <1>1, InterruptCall
<1>3. ASSUME NEW x, Reads(x, y, j, i + 2), z = intcall86(x, 32)
      PROVE  Ended(z, j, 128, FALSE, r, f, v2)
  BY <1>3, InterruptEnds
<1> QED
  BY <1>2, <1>3

LEMMA Exits ==
  ASSUME NEW j, EvenStack(j), NEW y, NEW r, NEW f, NEW v, Ended(y, j, 128, FALSE, r, f, v),
         NEW z, z = Execute(y), MachineOK(z)
  PROVE  Ended(z, j, 130, TRUE, r, f, v)
<1> DEFINE i == 128
           n == Fetch(y)
           w == exit_or_restart(n)
           op == 99
<1>1. /\ MachineOK(y) /\ y.hlt = FALSE /\ y.s = EndSegments /\ y.h = j.h /\ y.ip = i
      /\ y.r = EndRegisters(j, r) /\ y.f = EndFlags(f) /\ SameBut(y, Load(j), Area(j))
  BY DEF Ended, Awake
<1>2. y.s[CS] = ROMSegment
  BY <1>1, SegmentsAre DEF EndSegments, Segments, CS
<1>3. EndBytes(y)
  BY <1>1, EndInPlace
<1>4. i \in Nat /\ i < 16000 /\ (i + 2 < Word) /\ i + 1 = 129 /\ i + 1 + 1 = 130
  BY SMT DEF Word, Byte
<1> HIDE DEF i
<1>5. /\ Code8(y) = cell(y, 15 * Word + i)
      /\ n.ip = i + 1 /\ MachineOK(n)
      /\ n.r = y.r /\ n.s = y.s /\ n.mem = y.mem
      /\ n.f = y.f /\ Rest(n, y)
  BY <1>1, <1>2, <1>4, ROMFetch
<1>6. Code8(y) = op
  BY <1>3, <1>5 DEF EndBytes, i
<1>7. op \notin DOMAIN PrefixOf /\ op \in 64..159
  BY DEF PrefixOf
<1>8. z = ExecuteMiddle(n, op)
  <2> HIDE DEF op
  <2>1. Execute(y) = CASE op < 64 -> ExecuteLow(n, op)
                       [] op \in 64..159 -> ExecuteMiddle(n, op)
                       [] op > 159 -> ExecuteHigh(n, op)
    BY <1>1, <1>6, <1>7, Executes
  <2> QED
    BY <1>7, <2>1
<1>9. Code8(n) = 32
  <2>1. Linear(n, CS, n.ip) = 15 * Word + 129
    BY <1>2, <1>4, <1>5, ROMAddress DEF Linear
  <2>2. \A b : cell(n, b) = cell(y, b)
    BY <1>5 DEF cell
  <2> QED
    BY <1>3, <2>1, <2>2 DEF Code8, EndBytes
<1>10. z = AdvanceIP(w, 1)
  <2>1. ROMExec(n, 32) = w
    BY DEF ROMExec
  <2> QED
    BY <1>8, <1>9, <2>1 DEF ExecuteMiddle
<1> HIDE DEF n, op
<1>11. /\ w.r = n.r /\ w.s = n.s /\ w.mem = n.mem /\ w.f = n.f /\ w.ip = n.ip /\ w.h = n.h
       /\ w.hlt = n.hlt /\ w.exited = TRUE /\ DOMAIN w = DOMAIN Reset
  BY <1>5, Fields DEF exit_or_restart, MachineOK
<1> HIDE DEF w
<1>12. /\ z.r = w.r /\ z.s = w.s /\ z.mem = w.mem /\ z.f = w.f /\ z.h = w.h
       /\ z.hlt = w.hlt /\ z.exited = w.exited /\ z.ip = (w.ip + 1) % Word
  BY <1>10, <1>11, Fields DEF AdvanceIP
<1>13. (n.ip + 1) % Word = 130
  <2>1. 130 < Word /\ 130 \in Nat /\ n.ip + 1 = 130
    BY <1>4, <1>5 DEF i
  <2> QED
    BY <2>1, ModSmall, Sizes
<1>14. /\ n.h = y.h /\ n.hlt = y.hlt
  BY <1>5 DEF Rest
<1>15. /\ \A b : cell(z, b) = cell(y, b)
       /\ \A o : StackWord(z, o) = StackWord(y, o)
  <2>1. z.mem = y.mem /\ z.s = y.s
    BY <1>5, <1>11, <1>12
  <2>2. \A b : cell(z, b) = cell(y, b)
    BY <2>1 DEF cell
  <2> QED
    BY <2>1, <2>2 DEF StackWord, Read16Unsafe
<1>16. SameBut(z, Load(j), Area(j))
  BY <1>1, <1>15 DEF SameBut
<1>17. /\ z.hlt = FALSE /\ z.exited = TRUE /\ z.s = EndSegments /\ z.h = j.h /\ z.ip = 130
       /\ z.r = EndRegisters(j, r) /\ z.f = EndFlags(f)
  BY <1>1, <1>5, <1>11, <1>12, <1>13, <1>14
<1>18. /\ StackWord(y, Below(Load(j), 2)) = v[1] /\ StackWord(y, Below(Load(j), 4)) = v[2]
       /\ StackWord(y, Below(Load(j), 6)) = v[3]
  BY DEF Ended
<1> QED
  BY <1>15, <1>16, <1>17, <1>18 DEF Ended, Awake

-----------------------------------------------------------------------------
\* The way of a program: the points it stands at between two instructions.  It is
\* sound when the job begins on it and each point either leads to another one or is
\* the INT 20h at the end.
Point(i, r, f, k, v) == [i |-> i, r |-> r, f |-> f, k |-> k, v |-> v]
Standing(y, j, p) == Stands(y, j, p.i, p.r, p.f, p.k, p.v)
LeadsTo(j, p, q) == Leads(j, p.i, p.r, p.f, p.k, p.v, q.i, q.r, q.f, q.k, q.v)
Final(j, p) == p.k = 0 /\ Has(j, p.i, 205) /\ Has(j, p.i + 1, 32)
Begin(j) == Point(0, j.r, Load(j).f, 0, <<>>)
Small(p) == p.i \in Nat /\ p.k \in Nat /\ p.k <= 20

Sound(j, way) ==
  /\ Begin(j) \in way
  /\ \A p \in way : Small(p) /\ (Final(j, p) \/ \E q \in way : LeadsTo(j, p, q))

\* Where the two machines are on the way: both at a point, one of them in a handler,
\* or both at the end.
Abreast(p) == InStep(p.i, p.r, p.f, p.k, p.v)
Away(p) == Served(p.i, p.r, p.f, p.k, p.v)
Leaving(p, i, e) ==
  /\ resume = <<>> /\ Final(job, p)
  /\ Ended(m, job, i, e, p.r, p.f, EndWords(p.f, p.i)) /\ Ended(plain, job, i, e, p.r, p.f, EndWords(p.f, p.i))
Gone(p) == Leaving(p, 128, FALSE) \/ Leaving(p, 130, TRUE)

OnTheWay(way) == \E p \in way : Abreast(p) \/ Away(p) \/ Gone(p)

LEMMA EndedAlike ==
  ASSUME NEW p, EvenStack(job), Small(p), Final(job, p), Abreast(p), Ahead, job' = job
  PROVE  Leaving(p, 128, FALSE)'
<1> DEFINE i == p.i
           r == p.r
           f == p.f
           v == p.v
           v2 == EndWords(p.f, p.i)
           j == job
<1>1. i \in Nat /\ Has(j, i, 205) /\ Has(j, i + 1, 32) /\ p.k = 0
  BY DEF Final, Small
<1>2. resume = <<>> /\ Stands(m, j, i, r, f, 0, v) /\ Stands(plain, j, i, r, f, 0, v)
  BY <1>1 DEF Abreast, InStep
<1>3. v2 = EndWords(f, i)
  OBVIOUS
<1>4. EvenStack(j)
  OBVIOUS
<1> HIDE DEF i, r, f, v, v2, j
<1>5. ASSUME NEW y, Stands(y, j, i, r, f, 0, v), NEW z, z = Execute(y), MachineOK(z)
      PROVE  Ended(z, j, 128, FALSE, r, f, v2)
  BY <1>1, <1>3, <1>4, <1>5, ProgramEnds
<1>6. m' = Execute(m) /\ plain' = Execute(plain) /\ MachineOK(m') /\ MachineOK(plain') /\ resume' = <<>>
  BY DEF Ahead
<1>7. Ended(m', j, 128, FALSE, r, f, v2) /\ Ended(plain', j, 128, FALSE, r, f, v2)
  BY <1>2, <1>5, <1>6
<1>8. job' = j /\ Final(job', p)
  BY DEF j
<1> QED
  BY <1>6, <1>7, <1>8 DEF Leaving, r, f, v2

LEMMA GoneOn ==
  ASSUME Typed, EvenStack(job), NEW request, Run(request), NEW p, Leaving(p, 128, FALSE)
  PROVE  Leaving(p, 130, TRUE)'
<1> DEFINE taken == Accepts(m, request)
           r == p.r
           f == p.f
           v == EndWords(p.f, p.i)
           j == job
<1>1. /\ request # 0 => taken
      /\ Goes(m, request) /\ m' = Turn(m, request) /\ job' = job
      /\ IF resume = <<>> /\ ~taken
         THEN Goes(plain, 0) /\ plain' = Turn(plain, 0)
         ELSE plain' = [plain EXCEPT !.hlt = @ /\ ~taken]
      /\ ~taken => resume' = IF resume = Where(m') THEN <<>> ELSE resume
  BY RunIs
<1>2. /\ resume = <<>> /\ Final(j, p)
      /\ Ended(m, j, 128, FALSE, r, f, v) /\ Ended(plain, j, 128, FALSE, r, f, v)
  BY DEF Leaving
<1>3. m.hlt = FALSE /\ plain.hlt = FALSE
  BY <1>2 DEF Ended, Awake
<1>4. m.f.ifl = 0
  <2>1. MachineOK(m) /\ m.f = EndFlags(f)
    BY <1>2 DEF Ended
  <2>2. "ifl" \in DOMAIN m.f
    BY <2>1 DEF MachineOK, Flags, FlagNames
  <2>3. DOMAIN m.f = DOMAIN f
    BY <2>1 DEF EndFlags
  <2> QED
    BY <2>1, <2>2, <2>3 DEF EndFlags
<1>5. ~taken /\ request = 0
  BY <1>1, <1>4 DEF Accepts
<1>6. m' = Execute(m)
  BY <1>1, <1>3, <1>5, TurnAwake
<1>7. plain' = Execute(plain)
  BY <1>1, <1>2, <1>3, <1>5, TurnAwake
<1>8. MachineOK(m') /\ MachineOK(plain')
  BY TypedTurns DEF Typed, TypeOK
<1>9. resume' = <<>>
  BY <1>1, <1>2, <1>5
<1>10. EvenStack(j) /\ job' = j
  BY <1>1
<1> HIDE DEF r, f, v, j, taken
<1>11. ASSUME NEW y, Ended(y, j, 128, FALSE, r, f, v), NEW z, z = Execute(y), MachineOK(z)
       PROVE  Ended(z, j, 130, TRUE, r, f, v)
  BY <1>10, <1>11, Exits
<1>12. Ended(m', j, 130, TRUE, r, f, v) /\ Ended(plain', j, 130, TRUE, r, f, v)
  BY <1>2, <1>6, <1>7, <1>8, <1>11
<1> QED
  BY <1>2, <1>9, <1>10, <1>12 DEF Leaving, r, f, v

LEMMA GoesOn ==
  ASSUME NEW p, NEW q, LeadsTo(job, p, q), Abreast(p), Ahead, job' = job
  PROVE  Abreast(q)'
<1>1. Standing(m, job, p) /\ Standing(plain, job, p) /\ resume = <<>>
  BY DEF Abreast, InStep, Standing
<1>2. m' = Execute(m) /\ plain' = Execute(plain) /\ MachineOK(m') /\ MachineOK(plain') /\ resume' = <<>>
  BY DEF Ahead
<1>3. \A y : Standing(y, job, p) /\ MachineOK(Execute(y)) => Standing(Execute(y), job, q)
  BY DEF LeadsTo, Leads, Standing
<1>4. Standing(m', job, q) /\ Standing(plain', job, q)
  BY <1>1, <1>2, <1>3
<1> QED
  BY <1>2, <1>4 DEF Abreast, InStep, Standing

LEMMA WayBegins ==
  ASSUME Init, EvenStack(job), NEW way, Sound(job, way)
  PROVE  OnTheWay(way)
<1> DEFINE x == Load(job)
           p == Begin(job)
           g == x.f
           j == job
<1>1. m = x /\ plain = x /\ resume = <<>>
  BY DEF Init, m, plain
<1>2. MachineOK(x) /\ StackInRAM(x) /\ x.s = Segments /\ x.h = j.h /\ x.r = j.r /\ EvenStack(j)
  BY LoadStack
<1>3. x.hlt = FALSE /\ x.exited = FALSE /\ x.ip = 0
  BY DEF Load, Reset
<1>4. Sane(g) /\ j \in Jobs
  BY <1>2, SaneAtFirst DEF EvenStack
<1>5. OnStack(x, j, 0, <<>>)
  <2>1. InRAM(x) /\ x = Load(j)
    BY <1>2 DEF InRAM
  <2>2. Slot(x, 0) = x.r[SP]
    <3> HIDE DEF x
    <3> QED
      BY <2>1, SlotZero
  <2> QED
    BY <2>1, <2>2 DEF OnStack
<1>6. SameBut(x, x, Area(j))
  BY DEF SameBut
<1>7. Interruptible(x)
  BY <1>2, <1>4 DEF Interruptible, Sane
<1>8. Stands(x, j, 0, j.r, g, 0, <<>>)
  BY <1>2, <1>3, <1>5, <1>6, <1>7 DEF Stands, Awake, Running
<1>9. Abreast(p)
  BY <1>1, <1>8 DEF Abreast, InStep, Begin, Point
<1>10. p \in way
  BY DEF Sound
<1> QED
  BY <1>9, <1>10 DEF OnTheWay

LEMMA WayGoesOn ==
  ASSUME Typed, EvenStack(job), NEW way, Sound(job, way), [Next]_vars, OnTheWay(way)
  PROVE  OnTheWay(way)'
<1>1. CASE UNCHANGED vars
  BY <1>1, ZenonT(60) DEF vars, OnTheWay, Abreast, Away, Gone, InStep, Served, Leaving, m, plain
<1>2. ASSUME NEW request \in {0} \cup Requests, Run(request)
      PROVE  OnTheWay(way)'
  <2>1. PICK p \in way : Abreast(p) \/ Away(p) \/ Gone(p)
    BY DEF OnTheWay
  <2>2. Small(p) /\ (Final(job, p) \/ \E q \in way : LeadsTo(job, p, q)) /\ job' = job /\ ~m.exited
    BY <1>2, <2>1, RunIs DEF Sound
  <2> DEFINE i == p.i
             r == p.r
             f == p.f
             k == p.k
             v == p.v
  <2>3. k \in Nat /\ k <= 20
    BY <2>2 DEF Small
  <2>4. CASE Abreast(p)
    <3>1. InStep(i, r, f, k, v)
      BY <2>4 DEF Abreast
    <3>2. Ahead \/ Served(i, r, f, k, v)'
      <4> HIDE DEF i, r, f, k, v
      <4> QED
        BY <1>2, <2>3, <3>1, RunsOn
    <3>3. CASE Ahead /\ Final(job, p)
      <4>1. Leaving(p, 128, FALSE)'
        BY <2>2, <2>4, <3>3, EndedAlike
      <4> QED
        BY <2>1, <4>1 DEF OnTheWay, Gone
    <3>4. ASSUME Ahead, NEW q \in way, LeadsTo(job, p, q)
          PROVE  OnTheWay(way)'
      <4>1. Abreast(q)'
        BY <2>2, <2>4, <3>4, GoesOn
      <4> QED
        BY <3>4, <4>1 DEF OnTheWay
    <3>5. CASE Served(i, r, f, k, v)'
      <4>1. Away(p)'
        BY <3>5 DEF Away
      <4> QED
        BY <2>1, <4>1 DEF OnTheWay
    <3> QED
      BY <2>2, <3>2, <3>3, <3>4, <3>5
  <2>5. CASE Away(p)
    <3>1. Served(i, r, f, k, v)
      BY <2>5 DEF Away
    <3>2. InStep(i, r, f, k, v)' \/ Served(i, r, f, k, v)'
      <4> HIDE DEF i, r, f, k, v
      <4> QED
        BY <1>2, <2>3, <3>1, ServedOn
    <3>3. Abreast(p)' \/ Away(p)'
      BY <3>2 DEF Abreast, Away
    <3> QED
      BY <2>1, <3>3 DEF OnTheWay
  <2>6. CASE Gone(p)
    <3>1. ~Leaving(p, 130, TRUE)
      BY <2>2 DEF Leaving, Ended
    <3>2. Leaving(p, 128, FALSE)
      BY <2>6, <3>1 DEF Gone
    <3>3. Leaving(p, 130, TRUE)'
      BY <1>2, <3>2, GoneOn
    <3> QED
      BY <2>1, <3>3 DEF OnTheWay, Gone
  <2> QED
    BY <2>1, <2>4, <2>5, <2>6
<1> QED
  BY <1>1, <1>2 DEF Next

-----------------------------------------------------------------------------
\* The four operations of the decimal programs.
Sums(k) == k \in {0, 2, 3, 5}

Worked(o, w) == Sane(o.f) /\ o.v \in 0 .. w - 1 /\ o = [v |-> o.v, f |-> o.f]

LEMMA SaneOperation ==
  ASSUME NEW f, Sane(f), NEW w \in {Byte, Word}, NEW a \in 0 .. w - 1, NEW b \in 0 .. w - 1, NEW k, Sums(k),
         NEW o, o = Operation(k, f, a, b, w)
  PROVE  Worked(o, w)
<1> DEFINE c == b + f.cf
<1>1. f \in Flags /\ k \in 0..8 /\ k \in {0, 2, 3, 5}
  BY DEF Sane, Sums
<1>2. w \in Nat /\ 0 < w /\ a \in Int /\ b \in Int /\ f.cf \in Int /\ 0 \in Int /\ c \in Int
  BY <1>1, OperandFacts, FlagBits
<1>3. ResultOK(o, w)
  BY <1>1, OperationOK
<1>4. /\ k = 0 => o = [v |-> (a + b) % w, f |-> flag_adc(f, a, b, 0, w)]
      /\ k = 2 => o = [v |-> (a + b + f.cf) % w, f |-> flag_adc(f, a, b, f.cf, w)]
      /\ k = 3 => o = [v |-> (a - b - f.cf) % w, f |-> flag_sub(f, a, c, w)]
      /\ k = 5 => o = [v |-> (a - b) % w, f |-> flag_sub(f, a, b, w)]
  <2>1. k = 0 => o = op_add(f, a, b, w)
    BY DEF Operation
  <2>2. k = 2 => o = op_adc(f, a, b, w)
    BY DEF Operation
  <2>3. k = 3 => o = op_sbb(f, a, b, w)
    BY DEF Operation
  <2>4. k = 5 => o = op_sub(f, a, b, w)
    BY DEF Operation
  <2> QED
    BY <2>1, <2>2, <2>3, <2>4 DEF op_add, op_adc, op_sbb, op_sub, flag_sbb
<1> HIDE DEF c
<1>5. /\ Sane(flag_adc(f, a, b, 0, w)) /\ Sane(flag_adc(f, a, b, f.cf, w))
      /\ Sane(flag_sub(f, a, b, w)) /\ Sane(flag_sub(f, a, c, w))
  BY <1>2, SaneSum, SaneDifference
<1>6. Sane(o.f) /\ o = [v |-> o.v, f |-> o.f]
  BY <1>1, <1>4, <1>5
<1> QED
  BY <1>3, <1>6 DEF Worked, ResultOK

\* A step between two points without a word on the stack.
Plainly(j, i, r, f, i2, r2, f2) == Leads(j, i, r, f, 0, <<>>, i2, r2, f2, 0, <<>>)

LEMMA PlainStep ==
  ASSUME NEW j, NEW i, NEW r, NEW f, NEW i2, NEW r2, NEW f2, Plainly(j, i, r, f, i2, r2, f2)
  PROVE  LeadsTo(j, Point(i, r, f, 0, <<>>), Point(i2, r2, f2, 0, <<>>))
BY DEF Plainly, LeadsTo, Point

LEMMA PlainPoint ==
  ASSUME NEW i \in Nat, NEW r, NEW f
  PROVE  Small(Point(i, r, f, 0, <<>>))
BY DEF Small, Point

LEMMA PlainEnd ==
  ASSUME NEW j, NEW i \in Nat, NEW r, NEW f, Has(j, i, 205), Has(j, i + 1, 32)
  PROVE  Final(j, Point(i, r, f, 0, <<>>))
BY DEF Final, Point

-----------------------------------------------------------------------------
\* An addition or a subtraction of AL and BL, where AH is 0.
LEMMA FirstStep ==
  ASSUME NEW j, EvenStack(j), NEW op, Alu(op), Size(op) = Byte, Sums(op \div 8), Has(j, 0, op), Has(j, 1, 216),
         j.r[AX] \in Octets, j.r[BX] \in Octets,
         NEW g, g = Operation(op \div 8, Load(j).f, j.r[AX], j.r[BX], Byte)
  PROVE  Plainly(j, 0, j.r, Load(j).f, 2, WithAX(j.r, 0, g.v), g.f) /\ Worked(g, Byte)
<1> DEFINE f == Load(j).f
           r == j.r
           r1 == WithAX(r, 0, g.v)
           v == <<>>
<1>1. /\ Sane(f) /\ r \in [0..7 -> Words] /\ 0 \in Octets /\ Octets = 0 .. Byte - 1 /\ Byte \in {Byte, Word}
      /\ Octets \subseteq Words
  BY SaneAtFirst, JobsAssumption, Numbers8, Sizes DEF EvenStack, Octets, Words
<1>2. /\ r[AX] \in Octets /\ r[BX] \in Octets /\ r[AX] < Byte /\ r[BX] < Byte
  BY <1>1, Sizes
<1>4. Worked(g, Byte)
  <2> DEFINE k == op \div 8
             a == r[AX]
             b == r[BX]
  <2>1. a \in 0 .. Byte - 1 /\ b \in 0 .. Byte - 1 /\ Sums(k)
    BY <1>1, <1>2
  <2>2. g = Operation(k, f, a, b, Byte)
    OBVIOUS
  <2> HIDE DEF k, a, b, f
  <2> QED
    BY <1>1, <2>1, <2>2, SaneOperation
<1>5. Sane(g.f) /\ g.v \in Octets /\ g = [v |-> g.v, f |-> g.f]
  BY <1>1, <1>4 DEF Worked
<1> HIDE DEF f
<1>6. r = WithAX(r, 0, r[AX])
  BY <1>1, <1>2, SmallAX
<1>7. Plainly(j, 0, r, f, 2, r1, g.f)
  <2> DEFINE h == 0
             a == r[AX]
             i == 0
             reg1 == 3
             rm == AX
             b == 216
             gv == g.v
             gf == g.f
             w == Size(op)
  <2>1. /\ GetR(r, rm, w) = a /\ GetR(r, reg1, w) = r[BX] /\ Stored(r1, r, rm, w, gv)
    <3>0. r[BX] \in Nat
      BY <1>2, Numbers8, Sizes DEF Octets
    <3>1. h \in Octets /\ a \in Octets /\ r = WithAX(r, h, a) /\ gv \in Octets
      BY <1>1, <1>2, <1>5, <1>6
    <3> HIDE DEF h, a, gv, r
    <3>2. /\ GetR(r, AX, Byte) = a /\ GetR(r, BX, Byte) = r[BX] % Byte
          /\ Stored(WithAX(r, h, gv), r, AX, Byte, gv)
      <4>1. r \in [0..7 -> Words] /\ h \in Octets /\ a \in Octets /\ r = WithAX(r, h, a)
        BY <1>1, <3>1
      <4>2. /\ GetR(r, AX, Byte) = a /\ GetR(r, BX, Byte) = r[BX] % Byte
            /\ \A d \in Octets : Stored(WithAX(r, h, d), r, AX, Byte, d)
        BY <4>1, HalfRegisters
      <4> QED
        BY <3>1, <4>2
    <3>3. r[BX] % Byte = r[BX]
      BY <1>2, <3>0, ModSmall, Sizes
    <3> QED
      BY <3>2, <3>3 DEF h, a, gv, BX
  <2>2. Yields(op, f, r, rm, reg1, w, gv, gf)
    BY <1>5, <2>1 DEF Yields, f
  <2>3. Has(j, i, op) /\ Has(j, i + 1, b) /\ Registers(b, reg1, rm) /\ i \in Nat /\ i + 2 = 2
    BY DEF Registers, AX
  <2> HIDE DEF i, reg1, rm, b, gv, gf, w, r, r1
  <2>4. Leads(j, i, r, f, 0, v, i + 2, r1, gf, 0, v)
    <3>1. Sane(gf)
      BY <1>5 DEF gf
    <3>2. w = Size(op)
      BY DEF w
    <3> QED
      BY <2>1, <2>2, <2>3, <3>1, <3>2, AluStored
  <2> QED
    BY <2>3, <2>4 DEF Plainly, i, gf, r1
<1> QED
  BY <1>4, <1>7 DEF f

\* ADD or SUB of AL and BL, DAA or DAS, and ADC or SBB of AH and 0.
PackedFirst(j, op) == Operation(op \div 8, Load(j).f, j.r[AX], j.r[BX], Byte)
PackedThen(j, op, adj) == LET g == PackedFirst(j, op) IN Decimals(adj, g.f, g.v, 0, 0)
PackedLast(j, op, adj, reg) == Operation(reg, PackedThen(j, op, adj).f, 0, 0, Byte)

PackedWay(j, op, adj, reg) ==
  LET g == PackedFirst(j, op)
      e == PackedThen(j, op, adj)
      c == PackedLast(j, op, adj, reg)
  IN  {Begin(j), Point(2, WithAX(j.r, 0, g.v), g.f, 0, <<>>), Point(3, WithAX(j.r, 0, e.al), e.f, 0, <<>>),
       Point(6, WithAX(j.r, c.v, e.al), c.f, 0, <<>>)}

PackedCode(j, op, adj, reg) ==
  LET b == IF reg = 2 THEN 212 ELSE 220
  IN  /\ Has(j, 0, op) /\ Has(j, 1, 216) /\ Has(j, 2, adj) /\ Has(j, 3, 128) /\ Has(j, 4, b) /\ Has(j, 5, 0)
      /\ Has(j, 6, 205) /\ Has(j, 7, 32)
      /\ <<op, adj, reg>> \in {<<0, 39, 2>>, <<40, 47, 3>>}

LEMMA PackedStep ==
  ASSUME NEW j, EvenStack(j), NEW op, NEW adj, NEW reg, PackedCode(j, op, adj, reg),
         j.r[AX] \in Octets, j.r[BX] \in Octets
  PROVE  Sound(j, PackedWay(j, op, adj, reg))
<1> DEFINE f == Load(j).f
           r == j.r
           g == PackedFirst(j, op)
           e == PackedThen(j, op, adj)
           c == PackedLast(j, op, adj, reg)
           r1 == WithAX(r, 0, g.v)
           r2 == WithAX(r, 0, e.al)
           r3 == WithAX(r, c.v, e.al)
           v == <<>>
           zero == 0
<1>1. /\ Sane(f) /\ r \in [0..7 -> Words] /\ zero \in Octets /\ Octets = 0 .. Byte - 1 /\ Byte \in {Byte, Word}
      /\ Octets \subseteq Words
  BY SaneAtFirst, JobsAssumption, Numbers8, Sizes DEF EvenStack, Octets, Words
<1>2. /\ r[AX] \in Octets /\ r[BX] \in Octets /\ r[AX] < Byte /\ r[BX] < Byte
  BY <1>1, Sizes
<1>3. Alu(op) /\ Size(op) = Byte /\ Adjustment(adj) /\ Sums(op \div 8) /\ Sums(reg)
  <2>1. op \in {0, 40} /\ adj \in {39, 47} /\ reg \in {2, 3}
    BY DEF PackedCode
  <2>2. op \div 8 \in {0, 5} /\ op % 2 = 0
    BY <2>1
  <2> QED
    BY <2>1, <2>2 DEF Alu, Adjustment, Sums, Size
<1>4. Plainly(j, 0, r, Load(j).f, 2, r1, g.f) /\ Sane(g.f) /\ g.v \in Octets
  <2>1. Has(j, 0, op) /\ Has(j, 1, 216)
    BY DEF PackedCode
  <2>2. g = Operation(op \div 8, Load(j).f, j.r[AX], j.r[BX], Byte)
    BY DEF PackedFirst
  <2> HIDE DEF g, f
  <2>3. Plainly(j, 0, r, Load(j).f, 2, r1, g.f) /\ Worked(g, Byte)
    BY <1>3, <2>1, <2>2, FirstStep
  <2> QED
    BY <1>1, <2>3 DEF Worked
<1>5. e = Decimals(adj, g.f, g.v, 0, 0)
  BY DEF PackedThen
<1>6. c = Operation(reg, e.f, 0, 0, Byte)
  BY DEF PackedLast
<1> HIDE DEF g, e, c, f
<1>7. Sane(e.f) /\ e.al \in Octets /\ e.ah = 0
  <2>1. adj \in {39, 47}
    BY DEF PackedCode
  <2>2. /\ Sane(DAA(g.f, g.v).f) /\ DAA(g.f, g.v).al \in Octets
        /\ Sane(DAS(g.f, g.v).f) /\ DAS(g.f, g.v).al \in Octets
    BY <1>1, <1>4, SaneAdjusted
  <2> QED
    BY <1>5, <2>1, <2>2 DEF Decimals
<1>8. Sane(c.f) /\ c.v \in Octets /\ c = [v |-> c.v, f |-> c.f]
  <2>1. zero \in 0 .. Byte - 1
    BY <1>1
  <2>2. c = Operation(reg, e.f, zero, zero, Byte)
    BY <1>6
  <2> HIDE DEF zero
  <2> DEFINE f2 == e.f
  <2>3. Sane(f2) /\ c = Operation(reg, f2, zero, zero, Byte)
    BY <1>7, <2>2
  <2> HIDE DEF f2
  <2>4. Worked(c, Byte)
    BY <1>1, <1>3, <2>1, <2>3, SaneOperation
  <2> QED
    BY <1>1, <2>4 DEF Worked
<1>10. Plainly(j, 0, r, f, 2, r1, g.f)
  BY <1>4 DEF f
<1>11. Plainly(j, 2, r1, g.f, 3, r2, e.f)
  <2> DEFINE h == 0
             i == 2
             gv == g.v
             gf == g.f
             q == WithAX(r, h, gv)
             c0 == 0
  <2>1. h \in Octets /\ gv \in Octets /\ i \in Nat /\ i + 1 = 3 /\ Has(j, i, adj)
    BY <1>1, <1>4 DEF PackedCode
  <2>2. e = Decimals(adj, gf, gv, 0, 0) /\ Sane(e.f) /\ e.ah = h
    BY <1>5, <1>7
  <2> HIDE DEF h, gv, q, gf, i, r
  <2>3. /\ GetR(q, AX, Byte) = gv /\ GetR(q, 4, Byte) = h /\ \A a, b : WithAX(q, a, b) = WithAX(r, a, b)
    BY <1>1, <2>1, HalfRegisters DEF q
  <2>4. Adjusts(adj, gf, q, c0, e)
    BY <2>2, <2>3 DEF Adjusts, h
  <2> HIDE DEF c0
  <2>5. Leads(j, i, q, gf, 0, v, i + 1, WithAX(q, e.ah, e.al), e.f, 0, v)
    BY <1>3, <2>1, <2>4, DecimalLeads
  <2> QED
    BY <2>1, <2>2, <2>3, <2>5 DEF Plainly, i, q, gf, gv, h
<1>12. Plainly(j, 3, r2, e.f, 6, r3, c.f)
  <2> DEFINE h == 0
             i == 3
             al == e.al
             cv == c.v
             cf == c.f
             q == WithAX(r, h, al)
             q2 == WithAX(r, cv, al)
             rm == 4
             b == IF reg = 2 THEN 212 ELSE 220
             n == 0
  <2>1. h \in Octets /\ al \in Octets /\ cv \in Octets /\ i \in Nat /\ i + 3 = 6 /\ Has(j, i, 128)
        /\ Has(j, i + 1, b) /\ Has(j, i + 2, n) /\ Registers(b, reg, rm) /\ Sane(cf)
    BY <1>1, <1>7, <1>8, SMTT(30) DEF PackedCode, Registers
  <2>2. c = [v |-> cv, f |-> cf] /\ c = Operation(reg, e.f, h, n, Byte)
    BY <1>6, <1>8
  <2> HIDE DEF h, al, cv, cf, q, q2, i, n, b, r
  <2>3. GetR(q, 4, Byte) = h /\ Stored(WithAX(r, cv, al), q, 4, Byte, cv)
    BY <1>1, <2>1, HalfRegisters DEF q
  <2>4. YieldsWith(e.f, q, rm, reg, n, cv, cf) /\ Stored(q2, q, rm, Byte, cv)
    BY <2>2, <2>3 DEF YieldsWith, q2
  <2> HIDE DEF rm
  <2>5. Leads(j, i, q, e.f, 0, v, i + 3, q2, cf, 0, v)
    BY <2>1, <2>4, NumberStored
  <2> QED
    BY <2>1, <2>5 DEF Plainly, i, q, q2, cf, cv, al, h
<1> DEFINE p0 == Begin(j)
           p1 == Point(2, r1, g.f, 0, <<>>)
           p2 == Point(3, r2, e.f, 0, <<>>)
           p3 == Point(6, r3, c.f, 0, <<>>)
<1>13. LeadsTo(j, p0, p1) /\ LeadsTo(j, p1, p2) /\ LeadsTo(j, p2, p3)
  <2>1. p0 = Point(0, r, f, 0, <<>>)
    BY DEF Begin, f
  <2> HIDE DEF r1, r2, r3, r
  <2> QED
    BY <1>10, <1>11, <1>12, <2>1, PlainStep
<1>14. Final(j, p3)
  <2> DEFINE i == 6
  <2>1. Has(j, i, 205) /\ Has(j, i + 1, 32) /\ i \in Nat
    BY DEF PackedCode
  <2> HIDE DEF i, r3
  <2>2. Final(j, Point(i, r3, c.f, 0, <<>>))
    BY <2>1, PlainEnd
  <2> QED
    BY <2>2 DEF i
<1>15. Small(p0) /\ Small(p1) /\ Small(p2) /\ Small(p3)
  BY DEF Small, Point, Begin
<1>16. PackedWay(j, op, adj, reg) = {p0, p1, p2, p3}
  BY DEF PackedWay, g, e, c
<1> HIDE DEF p1, p2, p3
<1> QED
  BY <1>13, <1>14, <1>15, <1>16 DEF Sound

-----------------------------------------------------------------------------
\* ADD AL,BL; AAA.
AsciiFirst(j) == Operation(0, Load(j).f, j.r[AX], j.r[BX], Byte)
AsciiThen(j) == LET g == AsciiFirst(j) IN AAA(g.f, g.v, 0)
AsciiWay(j) ==
  LET g == AsciiFirst(j)
      e == AsciiThen(j)
  IN  {Begin(j), Point(2, WithAX(j.r, 0, g.v), g.f, 0, <<>>), Point(3, WithAX(j.r, e.ah, e.al), e.f, 0, <<>>)}

AsciiCode(j) == Has(j, 0, 0) /\ Has(j, 1, 216) /\ Has(j, 2, 55) /\ Has(j, 3, 205) /\ Has(j, 4, 32)

\* An adjustment of AL and AH, as a step between points.
LEMMA AdjustedStep ==
  ASSUME NEW j, EvenStack(j), NEW r \in [0..7 -> Words], NEW h \in Octets, NEW l \in Octets,
         NEW i \in Nat, NEW op, Has(j, i, op), NEW c, NEW len,
         (Adjustment(op) /\ len = 1) \/ (Unpacks(op) /\ Has(j, i + 1, c) /\ c # 0 /\ len = 2),
         NEW f, NEW e, e = Decimals(op, f, l, h, c), Sane(e.f)
  PROVE  Plainly(j, i, WithAX(r, h, l), f, i + len, WithAX(r, e.ah, e.al), e.f)
<1> DEFINE q == WithAX(r, h, l)
           v == <<>>
<1>1. GetR(q, AX, Byte) = l /\ GetR(q, 4, Byte) = h /\ \A a, b : WithAX(q, a, b) = WithAX(r, a, b)
  BY HalfRegisters
<1>2. Adjusts(op, f, q, c, e)
  BY <1>1 DEF Adjusts
<1> HIDE DEF q, v
<1>3. CASE Adjustment(op) /\ len = 1
  <2>1. Leads(j, i, q, f, 0, v, i + 1, WithAX(q, e.ah, e.al), e.f, 0, v)
    BY <1>2, <1>3, DecimalLeads
  <2> QED
    BY <1>1, <1>3, <2>1 DEF Plainly, q, v
<1>4. CASE Unpacks(op) /\ Has(j, i + 1, c) /\ c # 0 /\ len = 2
  <2>1. Leads(j, i, q, f, 0, v, i + 2, WithAX(q, e.ah, e.al), e.f, 0, v)
    BY <1>2, <1>4, BaseLeads
  <2> QED
    BY <1>1, <1>4, <2>1 DEF Plainly, q, v
<1> QED
  BY <1>3, <1>4

LEMMA AsciiStep ==
  ASSUME NEW j, EvenStack(j), AsciiCode(j), j.r[AX] \in Octets, j.r[BX] \in Octets
  PROVE  Sound(j, AsciiWay(j))
<1> DEFINE f == Load(j).f
           r == j.r
           g == AsciiFirst(j)
           e == AsciiThen(j)
           r1 == WithAX(r, 0, g.v)
           r2 == WithAX(r, e.ah, e.al)
<1>1. r \in [0..7 -> Words] /\ 0 \in Octets /\ Octets = 0 .. Byte - 1
  BY JobsAssumption, Numbers8, Sizes DEF EvenStack, Octets
<1>2. Plainly(j, 0, r, f, 2, r1, g.f) /\ Worked(g, Byte)
  <2> DEFINE op == 0
  <2>1. Alu(op) /\ Size(op) = Byte /\ Sums(op \div 8) /\ op \div 8 = 0
    BY DEF Alu, Size, Sums
  <2>2. Has(j, 0, op) /\ Has(j, 1, 216)
    BY DEF AsciiCode
  <2>3. g = Operation(op \div 8, Load(j).f, j.r[AX], j.r[BX], Byte)
    BY <2>1 DEF AsciiFirst
  <2> HIDE DEF g, op
  <2> QED
    BY <2>1, <2>2, <2>3, FirstStep
<1>3. e = AAA(g.f, g.v, 0)
  BY DEF AsciiThen
<1> HIDE DEF g, e
<1>4. Sane(g.f) /\ g.v \in Octets
  BY <1>1, <1>2 DEF Worked
<1>5. Sane(e.f)
  <2> DEFINE z == 0
  <2>1. z \in Octets
    BY <1>1
  <2>2. e = AAA(g.f, g.v, z)
    BY <1>3
  <2> HIDE DEF z
  <2>3. Sane(AAA(g.f, g.v, z).f)
    BY <1>4, <2>1, SaneAdjusted
  <2> QED
    BY <2>2, <2>3
<1>6. Plainly(j, 2, r1, g.f, 3, r2, e.f)
  <2> DEFINE op == 55
             i == 2
             h == 0
             l == g.v
             gf == g.f
             len == 1
             c == 0
  <2>1. Adjustment(op) /\ i \in Nat /\ Has(j, i, op) /\ h \in Octets /\ l \in Octets /\ i + len = 3
    BY <1>1, <1>4 DEF AsciiCode, Adjustment
  <2>2. e = Decimals(op, gf, l, h, c) /\ len = 1
    BY <1>3 DEF Decimals
  <2> HIDE DEF op, i, h, l, c, gf, len, r
  <2>3. Plainly(j, i, WithAX(r, h, l), gf, i + len, WithAX(r, e.ah, e.al), e.f)
    BY <1>1, <1>5, <2>1, <2>2, AdjustedStep
  <2> QED
    BY <2>1, <2>3 DEF i, h, l, gf
<1> DEFINE p0 == Begin(j)
           p1 == Point(2, r1, g.f, 0, <<>>)
           p2 == Point(3, r2, e.f, 0, <<>>)
<1>7. LeadsTo(j, p0, p1) /\ LeadsTo(j, p1, p2)
  <2>1. p0 = Point(0, r, f, 0, <<>>)
    BY DEF Begin, f
  <2> HIDE DEF r1, r2, r, f
  <2> QED
    BY <1>2, <1>6, <2>1, PlainStep
<1>8. Final(j, p2)
  <2> DEFINE i == 3
  <2>1. Has(j, i, 205) /\ Has(j, i + 1, 32) /\ i \in Nat
    BY DEF AsciiCode
  <2> HIDE DEF i, r2
  <2>2. Final(j, Point(i, r2, e.f, 0, <<>>))
    BY <2>1, PlainEnd
  <2> QED
    BY <2>2 DEF i
<1>9. Small(p0) /\ Small(p1) /\ Small(p2)
  BY DEF Small, Point, Begin
<1>10. AsciiWay(j) = {p0, p1, p2}
  BY DEF AsciiWay, g, e
<1> HIDE DEF p1, p2
<1> QED
  BY <1>7, <1>8, <1>9, <1>10 DEF Sound

-----------------------------------------------------------------------------
\* AAM 10; AAD 10.
UnpackFirst(j) == AAM(Load(j).f, j.r[AX], 10)
UnpackThen(j) == LET a == UnpackFirst(j) IN AAD(a.f, a.al, a.ah, 10)
UnpackWay(j) ==
  LET a == UnpackFirst(j)
      d == UnpackThen(j)
  IN  {Begin(j), Point(2, WithAX(j.r, a.ah, a.al), a.f, 0, <<>>), Point(4, WithAX(j.r, d.ah, d.al), d.f, 0, <<>>)}

UnpackCode(j) ==
  /\ Has(j, 0, 212) /\ Has(j, 1, 10) /\ Has(j, 2, 213) /\ Has(j, 3, 10)
  /\ Has(j, 4, 205) /\ Has(j, 5, 32)

LEMMA UnpackStep ==
  ASSUME NEW j, EvenStack(j), UnpackCode(j), j.r[AX] \in Octets
  PROVE  Sound(j, UnpackWay(j))
<1> DEFINE f == Load(j).f
           r == j.r
           a == UnpackFirst(j)
           d == UnpackThen(j)
           r1 == WithAX(r, a.ah, a.al)
           r2 == WithAX(r, d.ah, d.al)
           n == 10
           zero == 0
<1>1. /\ Sane(f) /\ r \in [0..7 -> Words] /\ zero \in Octets /\ Octets = 0 .. Byte - 1
      /\ n \in Octets /\ n # 0
  <2>1. n \in Octets
    BY SMT DEF Octets, Byte
  <2> QED
    BY <2>1, SaneAtFirst, JobsAssumption, Numbers8, Sizes DEF EvenStack, Octets
<1>2. r[AX] < Byte
  BY <1>1, Sizes
<1>3. r = WithAX(r, zero, r[AX])
  BY <1>1, <1>2, SmallAX
<1>4. a = AAM(f, r[AX], n) /\ d = AAD(a.f, a.al, a.ah, n)
  BY DEF UnpackFirst, UnpackThen
<1> HIDE DEF a, d, n, zero, f
<1>5. Sane(a.f) /\ a.al \in Octets /\ a.ah \in Octets
  <2> DEFINE al == r[AX]
  <2>1. al \in Octets /\ a = AAM(f, al, n)
    BY <1>4
  <2> HIDE DEF al
  <2>2. Sane(AAM(f, al, n).f) /\ AAM(f, al, n).al \in Octets /\ AAM(f, al, n).ah \in Octets
    BY <1>1, <2>1, SaneAdjusted
  <2> QED
    BY <2>1, <2>2
<1>6. Sane(d.f) /\ d.al \in Octets /\ d.ah = 0
  <2> DEFINE al == a.al
             ah == a.ah
             g == a.f
  <2>1. al \in Octets /\ ah \in Octets /\ Sane(g) /\ d = AAD(g, al, ah, n)
    BY <1>4, <1>5
  <2> HIDE DEF al, ah, g
  <2>2. Sane(AAD(g, al, ah, n).f) /\ AAD(g, al, ah, n).al \in Octets /\ AAD(g, al, ah, n).ah = 0
    <3>1. n \in Octets
      BY <1>1
    <3> QED
      BY <2>1, <3>1, SaneAdjusted
  <2> QED
    BY <2>1, <2>2
<1>7. Plainly(j, 0, r, f, 2, r1, a.f)
  <2> DEFINE op == 212
             i == 0
             l == r[AX]
             len == 2
             s == WithAX(r, zero, l)
  <2>1. Unpacks(op) /\ i \in Nat /\ Has(j, i, op) /\ Has(j, i + 1, n) /\ l \in Octets /\ i + len = 2 /\ s = r
    BY <1>3 DEF UnpackCode, Unpacks, n
  <2>2. a = Decimals(op, f, l, zero, n) /\ len = 2
    BY <1>4 DEF Decimals
  <2> HIDE DEF op, i, l, len, r
  <2>3. Plainly(j, i, WithAX(r, zero, l), f, i + len, WithAX(r, a.ah, a.al), a.f)
    BY <1>1, <1>5, <2>1, <2>2, AdjustedStep
  <2> QED
    BY <2>1, <2>3 DEF i
<1>8. Plainly(j, 2, r1, a.f, 4, r2, d.f)
  <2> DEFINE op == 213
             i == 2
             h == a.ah
             l == a.al
             g == a.f
             len == 2
  <2>1. Unpacks(op) /\ i \in Nat /\ Has(j, i, op) /\ Has(j, i + 1, n) /\ l \in Octets /\ h \in Octets /\ i + len = 4
    BY <1>5 DEF UnpackCode, Unpacks, n
  <2>2. d = Decimals(op, g, l, h, n) /\ len = 2
    BY <1>4 DEF Decimals
  <2> HIDE DEF op, i, l, h, g, len, r
  <2>3. Plainly(j, i, WithAX(r, h, l), g, i + len, WithAX(r, d.ah, d.al), d.f)
    BY <1>1, <1>6, <2>1, <2>2, AdjustedStep
  <2> QED
    BY <2>1, <2>3 DEF i, l, h, g
<1> DEFINE p0 == Begin(j)
           p1 == Point(2, r1, a.f, 0, <<>>)
           p2 == Point(4, r2, d.f, 0, <<>>)
<1>9. LeadsTo(j, p0, p1) /\ LeadsTo(j, p1, p2)
  <2>1. p0 = Point(0, r, f, 0, <<>>)
    BY DEF Begin, f
  <2> HIDE DEF r1, r2, r
  <2> QED
    BY <1>7, <1>8, <2>1, PlainStep
<1>10. Final(j, p2)
  <2> DEFINE i == 4
  <2>1. Has(j, i, 205) /\ Has(j, i + 1, 32) /\ i \in Nat
    BY DEF UnpackCode
  <2> HIDE DEF i, r2
  <2>2. Final(j, Point(i, r2, d.f, 0, <<>>))
    BY <2>1, PlainEnd
  <2> QED
    BY <2>2 DEF i
<1>11. Small(p0) /\ Small(p1) /\ Small(p2)
  BY DEF Small, Point, Begin
<1>12. UnpackWay(j) = {p0, p1, p2}
  BY DEF UnpackWay, a, d
<1> HIDE DEF p1, p2
<1> QED
  BY <1>9, <1>10, <1>11, <1>12 DEF Sound

-----------------------------------------------------------------------------
\* The bytes of equal words are equal.
LEMMA BytesOfWords ==
  ASSUME NEW j, EvenStack(j), NEW y, MachineOK(y), NEW z, MachineOK(z), y.s[SS] = 1024, z.s[SS] = 1024,
         NEW k \in Nat, k <= 20, \A n \in Nat : 1 <= n /\ n <= k => StackWord(y, Slot(Load(j), n)) = StackWord(z, Slot(Load(j), n)),
         NEW a \in Frame(Load(j), 2 * k)
  PROVE  cell(y, a) = cell(z, a)
<1> DEFINE x == Load(j)
           s == 1024 * 16
<1>1. MachineOK(x) /\ StackInRAM(x) /\ x.s[SS] = 1024 /\ s \in Nat
  BY LoadStack
<1> HIDE DEF x
<1>2. PICK i \in 1 .. 2 * k : a = s + Below(x, i)
  BY <1>1 DEF Frame, x
<1>3. PICK n \in Nat : 1 <= n /\ n <= k /\ (i = 2 * n \/ i = 2 * n - 1)
  <2>1. i \in Nat /\ (i = 2 * (i \div 2) \/ i = 2 * ((i + 1) \div 2) - 1)
    OBVIOUS
  <2> QED
    BY <2>1
<1> DEFINE o == Below(x, 2 * n)
           p == 2 * n
<1>4. p \in 2..100 /\ n \in 0..32 /\ x.r[SP] \in Words
  BY <1>1, <1>3, Parts, Names
<1>5. o \in Evens
  BY <1>1, <1>4, BelowEven
<1>6. Below(x, p - 1) = o + 1
  <2> HIDE DEF p
  <2>1. (Below(x, p) + 1) % Word = Below(x, p - 1)
    BY <1>4, Higher DEF Below
  <2> QED
    BY <1>5, <2>1, EvenOffsets DEF p
<1>7. o \in Nat
  BY <1>5, Numbers8 DEF Evens
<1> HIDE DEF s, o
<1>8. a = s + o \/ a = s + o + 1
  <2>1. CASE i = 2 * n
    BY <1>2, <2>1 DEF o
  <2>2. CASE i = 2 * n - 1
    <3>1. a = s + (o + 1)
      BY <1>2, <1>6, <2>2 DEF p
    <3> QED
      BY <1>1, <1>7, <3>1
  <2> QED
    BY <1>3, <2>1, <2>2
<1>9. Read16Unsafe(y, s + o) = Read16Unsafe(z, s + o)
  <2>1. StackWord(y, Slot(x, n)) = StackWord(z, Slot(x, n))
    BY <1>3 DEF x
  <2> QED
    BY <2>1 DEF StackWord, Slot, s, o
<1> DEFINE b == s + o
           c == s + o + 1
           ly == cell(y, b)
           hy == cell(y, c)
           lz == cell(z, b)
           hz == cell(z, c)
<1>10. ly \in Octets /\ hy \in Octets /\ lz \in Octets /\ hz \in Octets
  BY CellOK
<1>11. ly + Byte * hy = lz + Byte * hz
  BY <1>9 DEF Read16Unsafe
<1> HIDE DEF b, c, ly, hy, lz, hz
<1>12. ly = lz /\ hy = hz
  <2>1. ly \in 0..255 /\ hy \in 0..255 /\ lz \in 0..255 /\ hz \in 0..255 /\ ly + 256 * hy = lz + 256 * hz
    BY <1>10, <1>11 DEF Octets, Byte
  <2> QED
    BY <2>1
<1> QED
  BY <1>8, <1>12 DEF b, c, ly, hy, lz, hz

\* What lies below the stack pointer within the reach of a program is scratch.
LEMMA BelowIsScratch ==
  ASSUME NEW j, EvenStack(j), NEW n \in Nat, n <= 40, NEW o, o = Below(Load(j), n),
         NEW a \in Frame(Load(j), 60), a \notin Frame(Load(j), n)
  PROVE  (1024 * 16 + o - 1 - a) % Word < Depth
<1> DEFINE x == Load(j)
           sp == x.r[SP]
<1>1. MachineOK(x) /\ StackInRAM(x) /\ x.s[SS] = 1024
  BY LoadStack
<1>2. sp \in Words
  BY <1>1, Parts, Names
<1> HIDE DEF x
<1>3. PICK i \in 1..60 : a = 1024 * 16 + Below(x, i)
  BY <1>1 DEF Frame, x
<1>4. n < i
  <2>1. SUFFICES ASSUME i <= n
                 PROVE  FALSE
    OBVIOUS
  <2>2. i \in 1..n
    BY <2>1
  <2> QED
    BY <1>1, <1>3, <2>2 DEF Frame, x
<1> HIDE DEF sp
<1>5. /\ o = IF n <= sp THEN sp - n ELSE sp - n + Word
      /\ Below(x, i) = IF i <= sp THEN sp - i ELSE sp - i + Word
      /\ sp \in Nat /\ sp < Word
  <2>1. n < 1000 /\ i < 1000 /\ i \in Nat
    OBVIOUS
  <2>2. o = Lower(sp, n) /\ Below(x, i) = Lower(sp, i)
    BY DEF Below, sp, x
  <2>3. /\ Lower(sp, n) = IF n <= sp THEN sp - n ELSE sp - n + Word
        /\ sp \in Nat /\ sp < Word
    BY <1>2, <2>1, LowerIs
  <2>4. Lower(sp, i) = IF i <= sp THEN sp - i ELSE sp - i + Word
    BY <1>2, <2>1, LowerIs
  <2> QED
    BY <2>2, <2>3, <2>4
<1> DEFINE e == Below(x, i)
<1>6. /\ e = IF i <= sp THEN sp - i ELSE sp - i + Word
      /\ a = 1024 * 16 + e
  BY <1>3, <1>5
<1> HIDE DEF e
<1>7. Word = 65536 /\ Depth = 64
  BY SMT DEF Word, Byte, Depth
<1>8. o \in Int /\ e \in Int
  BY <1>5, <1>6, <1>7
<1>9. 1024 * 16 + o - 1 - a = o - e - 1
  BY <1>6, <1>8
<1>10. o - e - 1 = i - n - 1 \/ o - e - 1 = i - n - 1 - 65536
  BY <1>4, <1>5, <1>6, <1>7
<1>11. (i - n - 1) % 65536 < 64 /\ (i - n - 1 - 65536) % 65536 < 64
  <2>1. i - n - 1 \in 0..59
    BY <1>4
  <2> DEFINE d == i - n - 1
  <2>2. d \in 0..59
    BY <2>1
  <2> HIDE DEF d
  <2>3. d % 65536 = d /\ (d - 65536) % 65536 = d
    BY <2>2, SMT
  <2> QED
    BY <2>2, <2>3 DEF d
<1> QED
  BY <1>7, <1>9, <1>10, <1>11

\* Two machines that stand alike differ in scratch only.
LEMMA AlikeMemory ==
  ASSUME NEW j, EvenStack(j), NEW y, MachineOK(y), NEW z, MachineOK(z), y.s[SS] = 1024, z.s[SS] = 1024,
         SameBut(y, Load(j), Area(j)), SameBut(z, Load(j), Area(j)),
         NEW k \in Nat, k <= 20, \A n \in Nat : 1 <= n /\ n <= k => StackWord(y, Slot(Load(j), n)) = StackWord(z, Slot(Load(j), n)),
         y.r[SP] = Slot(Load(j), k), NEW a
  PROVE  a \in {1132, 1133} \/ (y.s[SS] * 16 + y.r[SP] - 1 - a) % Word < Depth \/ cell(y, a) = cell(z, a)
<1>1. CASE a \notin Area(j)
  BY <1>1 DEF SameBut
<1>2. CASE a \in Counter
  BY <1>2 DEF Counter
<1>3. CASE a \in Frame(Load(j), 2 * k)
  BY <1>3, BytesOfWords
<1>4. CASE a \in Frame(Load(j), 60) /\ a \notin Frame(Load(j), 2 * k)
  <2> DEFINE n == 2 * k
             o == y.r[SP]
  <2>1. n \in Nat /\ n <= 40 /\ o = Below(Load(j), n) /\ a \notin Frame(Load(j), n)
    BY <1>4 DEF Slot
  <2> HIDE DEF n, o
  <2>2. (1024 * 16 + o - 1 - a) % Word < Depth
    BY <1>4, <2>1, BelowIsScratch
  <2> QED
    BY <2>2 DEF o
<1> QED
  BY <1>1, <1>2, <1>3, <1>4 DEF Area

LEMMA AlikeIsInvisible ==
  ASSUME EvenStack(job), NEW way, Sound(job, way), OnTheWay(way)
  PROVE  InterruptsInvisible
<1> DEFINE j == job
<1>0. EvenStack(j)
  OBVIOUS
<1>1. SUFFICES ASSUME resume = <<>>
               PROVE  /\ m.r = plain.r /\ m.h = plain.h /\ m.s = plain.s /\ m.ip = plain.ip /\ m.f = plain.f
                      /\ m.hlt = plain.hlt /\ m.exited = plain.exited
                      /\ \A a : Scratch(a) \/ cell(m, a) = cell(plain, a)
  BY DEF InterruptsInvisible
<1>2. PICK p \in way : Abreast(p) \/ Away(p) \/ Gone(p)
  BY DEF OnTheWay
<1>3. p.k \in Nat /\ p.k <= 20
  BY DEF Sound, Small
<1>4. ~Away(p)
  <2>1. SUFFICES ASSUME Away(p)
                 PROVE  FALSE
    OBVIOUS
  <2>2. PICK t : resume = Where(t)
    BY <2>1 DEF Away, Served
  <2> QED
    BY <1>1, <2>2 DEF Where
<1>5. Segments[SS] = 1024 /\ EndSegments[SS] = 1024
  BY SegmentsAre DEF EndSegments, Segments, CS, SS
<1>6. CASE Abreast(p)
  <2> DEFINE k == p.k
             y == m
             z == plain
             v == p.v
  <2>1. Stands(y, j, p.i, p.r, p.f, k, v) /\ Stands(z, j, p.i, p.r, p.f, k, v)
    BY <1>6 DEF Abreast, InStep
  <2> HIDE DEF k, y, z, v, j
  <2>2. /\ y.r = p.r /\ z.r = p.r /\ y.h = j.h /\ z.h = j.h /\ y.s = Segments /\ z.s = Segments
        /\ y.ip = p.i /\ z.ip = p.i /\ y.f = p.f /\ z.f = p.f /\ y.hlt = FALSE /\ z.hlt = FALSE
        /\ y.exited = FALSE /\ z.exited = FALSE /\ MachineOK(y) /\ MachineOK(z)
        /\ SameBut(y, Load(j), Area(j)) /\ SameBut(z, Load(j), Area(j))
    BY <2>1 DEF Stands, Awake, Running, Interruptible
  <2>3. /\ y.r[SP] = Slot(Load(j), k)
        /\ \A n \in Nat : 1 <= n /\ n <= k => StackWord(y, Slot(Load(j), n)) = StackWord(z, Slot(Load(j), n))
    BY <2>1 DEF Stands, OnStack
  <2>4. k \in Nat /\ k <= 20
    BY <1>3 DEF k
  <2>5. ASSUME NEW a
        PROVE  a \in {1132, 1133} \/ (y.s[SS] * 16 + y.r[SP] - 1 - a) % Word < Depth \/ cell(y, a) = cell(z, a)
    <3>1. y.s[SS] = 1024 /\ z.s[SS] = 1024
      BY <1>5, <2>2
    <3> QED
      BY <1>0, <2>2, <2>3, <2>4, <3>1, AlikeMemory
  <2> QED
    BY <2>2, <2>5, Zenon DEF y, z, Scratch
<1>7. ASSUME NEW i, NEW e, Leaving(p, i, e)
      PROVE  /\ m.r = plain.r /\ m.h = plain.h /\ m.s = plain.s /\ m.ip = plain.ip /\ m.f = plain.f
             /\ m.hlt = plain.hlt /\ m.exited = plain.exited
             /\ \A a : Scratch(a) \/ cell(m, a) = cell(plain, a)
  <2> DEFINE k == 3
             y == m
             z == plain
             v == EndWords(p.f, p.i)
             x == Load(j)
  <2>1. Ended(y, j, i, e, p.r, p.f, v) /\ Ended(z, j, i, e, p.r, p.f, v)
    BY <1>7 DEF Leaving
  <2> HIDE DEF y, z, v, j
  <2>2. /\ y.r = EndRegisters(j, p.r) /\ z.r = EndRegisters(j, p.r) /\ y.h = j.h /\ z.h = j.h
        /\ y.s = EndSegments /\ z.s = EndSegments
        /\ y.ip = i /\ z.ip = i /\ y.f = EndFlags(p.f) /\ z.f = EndFlags(p.f) /\ y.hlt = FALSE /\ z.hlt = FALSE
        /\ y.exited = e /\ z.exited = e /\ MachineOK(y) /\ MachineOK(z)
        /\ SameBut(y, x, Area(j)) /\ SameBut(z, x, Area(j))
    BY <2>1 DEF Ended, Awake
  <2>3. /\ y.r[SP] = Slot(x, k)
        /\ \A n \in Nat : 1 <= n /\ n <= k => StackWord(y, Slot(x, n)) = StackWord(z, Slot(x, n))
    <3>1. /\ StackWord(y, Below(x, 2)) = StackWord(z, Below(x, 2))
          /\ StackWord(y, Below(x, 4)) = StackWord(z, Below(x, 4))
          /\ StackWord(y, Below(x, 6)) = StackWord(z, Below(x, 6))
      BY <2>1 DEF Ended
    <3>2. y.r[SP] = Below(x, 6)
      <4>1. SP \in DOMAIN y.r
        BY <2>2, Parts, Names
      <4>2. DOMAIN y.r = DOMAIN p.r
        BY <2>2 DEF EndRegisters
      <4> QED
        BY <2>2, <4>1, <4>2 DEF EndRegisters
    <3>3. \A n \in Nat : 1 <= n /\ n <= 3 => n = 1 \/ n = 2 \/ n = 3
      OBVIOUS
    <3>4. Slot(x, 1) = Below(x, 2) /\ Slot(x, 2) = Below(x, 4) /\ Slot(x, 3) = Below(x, 6)
      <4> HIDE DEF x
      <4> QED
        BY DEF Slot
    <3> HIDE DEF x
    <3> QED
      BY <3>1, <3>2, <3>3, <3>4
  <2>4. k \in Nat /\ k <= 20
    OBVIOUS
  <2> HIDE DEF k
  <2>5. ASSUME NEW a
        PROVE  a \in {1132, 1133} \/ (y.s[SS] * 16 + y.r[SP] - 1 - a) % Word < Depth \/ cell(y, a) = cell(z, a)
    <3>1. y.s[SS] = 1024 /\ z.s[SS] = 1024
      BY <1>5, <2>2
    <3> QED
      BY <1>0, <2>2, <2>3, <2>4, <3>1, AlikeMemory
  <2> QED
    BY <2>2, <2>5, Zenon DEF y, z, Scratch
<1> QED
  BY <1>2, <1>4, <1>6, <1>7 DEF Gone

-----------------------------------------------------------------------------
\* MUL, IMUL, DIV and IDIV of bytes: reg 4 to 7 of the opcode F6h.
Product(reg, al, a) == IF reg = 4 THEN op_mul(al, a, Byte) ELSE op_imul(al, a, Byte)
Quotient(reg, ax, a) ==
  IF reg = 6 THEN op_div(ax, a, Byte) ELSE op_idiv(Signed(ax, Word), a, Byte)
Multiplies(reg, rm, r, x) == reg \in {4, 5} /\ x = Product(reg, GetR(r, AX, Byte), GetR(r, rm, Byte))
Divides(reg, rm, r, x) == reg \in {6, 7} /\ x = Quotient(reg, r[AX], GetR(r, rm, Byte)) /\ x.fault = FALSE

LEMMA SaneProduct ==
  ASSUME NEW f, Sane(f), NEW hi
  PROVE  Sane(MulFlags(f, hi))
<1> DEFINE c == Bool(hi # 0)
           f1 == [f EXCEPT !.cf = c]
           f2 == [f1 EXCEPT !.of = c]
           f3 == [f2 EXCEPT !.zf = 0]
           zero == 0
<1>1. f3 = MulFlags(f, hi)
  BY DEF MulFlags
<1>2. f \in Flags /\ f.ac = 0 /\ c \in 0..1 /\ zero \in 0..1
  BY DEF Sane, Bool
<1>3. \A g \in Flags : DOMAIN g = FlagNames
  BY DEF Flags
<1> HIDE DEF c, zero
<1>4. f1 \in Flags /\ f1.ac = 0
  <2>1. f1 \in Flags
    BY <1>2, SetFlag
  <2> QED
    BY <1>2, <1>3, <2>1 DEF FlagNames
<1> HIDE DEF f1
<1>5. f2 \in Flags /\ f2.ac = 0 /\ f2.of = c
  <2>1. f2 \in Flags
    BY <1>2, <1>4, SetFlag
  <2> QED
    BY <1>3, <1>4, <2>1 DEF FlagNames
<1> HIDE DEF f2
<1>6. f3 \in Flags /\ f3.ac = 0 /\ f3.of = c
  <2>1. [f2 EXCEPT !.zf = zero] \in Flags
    BY <1>2, <1>5, SetFlag
  <2>2. f3 \in Flags
    BY <2>1 DEF zero
  <2> QED
    BY <1>3, <1>5, <2>2 DEF FlagNames
<1> QED
  BY <1>1, <1>2, <1>6 DEF Sane

LEMMA GroupThree ==
  ASSUME NEW j, EvenStack(j), NEW y, NEW i \in Nat, Reads(y, y, j, i), Has(j, i, 246),
         NEW reg, NEW rm, NEW b, Has(j, i + 1, b), Registers(b, reg, rm)
  PROVE  LET d == modregrm(Fetch(y))
         IN  Reads(d, y, j, i + 2) /\ Named(d, reg, rm) /\ Execute(y) = op_grp3(Fetch(y), Byte)
<1> DEFINE n == Fetch(y)
           d == modregrm(n)
           l == i + 1
           op == 246
<1>1. /\ l \in Nat /\ i < Len(Code[j.task]) /\ l < Len(Code[j.task])
      /\ Code[j.task][i + 1] = op /\ Code[j.task][l + 1] = b /\ l + 1 = i + 2
  BY DEF Has
<1>2. op \notin DOMAIN PrefixOf /\ op \in 160..255
  BY DEF PrefixOf
<1>3. ExecuteHigh(n, op) = op_grp3(n, Byte)
  <2>1. ExecuteHigh(n, op) = op_grp3(n, Size(op))
    BY DEF ExecuteHigh
  <2>2. Size(op) = Byte
    BY DEF Size
  <2> QED
    BY <2>1, <2>2
<1> HIDE DEF n, d, l, op
<1>4. Reads(n, y, j, l) /\ Execute(y) = ExecuteHigh(n, op)
  BY <1>1, <1>2, Opcode DEF n, l
<1>5. Reads(d, y, j, l + 1) /\ Named(d, reg, rm)
  <2>1. Registers(Code[j.task][l + 1], reg, rm)
    BY <1>1
  <2>2. l \in Nat /\ l < Len(Code[j.task]) /\ Reads(n, y, j, l)
    BY <1>1, <1>4
  <2> QED
    BY <2>1, <2>2, RegisterForm DEF d
<1> QED
  BY <1>1, <1>3, <1>4, <1>5 DEF d, n

LEMMA MultiplyLeads ==
  ASSUME NEW j, EvenStack(j), NEW i \in Nat, Has(j, i, 246),
         NEW reg, NEW rm, NEW b, Has(j, i + 1, b), Registers(b, reg, rm),
         NEW r, NEW f, NEW k, NEW v, NEW x, Multiplies(reg, rm, r, x)
  PROVE  Leads(j, i, r, f, k, v, i + 2, WithAX(r, x.hi, x.lo), MulFlags(f, x.hi), k, v)
<1> SUFFICES ASSUME NEW y, Stands(y, j, i, r, f, k, v), MachineOK(Execute(y))
             PROVE  Stands(Execute(y), j, i + 2, WithAX(r, x.hi, x.lo), MulFlags(f, x.hi), k, v)
  BY DEF Leads
<1> DEFINE n == Fetch(y)
           d == modregrm(n)
           z == Execute(y)
           l == i + 2
           e == [ah |-> x.hi, al |-> x.lo, f |-> MulFlags(f, x.hi)]
           a == Rm(d, Byte)
           al == R(d, AX, Byte)
<1>1. Reads(y, y, j, i) /\ y.r = r /\ y.f = f /\ Sane(f)
  BY ReadsAt
<1>2. Reads(d, y, j, l) /\ Named(d, reg, rm) /\ z = op_grp3(n, Byte)
  BY <1>1, GroupThree
<1>3. d.r = r /\ d.f = f /\ d.reg = reg /\ d.rm = rm /\ d.mode = 3
  BY <1>1, <1>2 DEF Reads, Named
<1>4. a = GetR(r, rm, Byte) /\ al = GetR(r, AX, Byte)
  BY <1>3, RegisterGot DEF Rm
<1>5. z = Multiply(d, Byte, x)
  <2>1. reg = 4 => z = Multiply(d, Byte, op_mul(al, a, Byte))
    BY <1>2, <1>3 DEF op_grp3
  <2>2. reg = 5 => z = Multiply(d, Byte, op_imul(al, a, Byte))
    BY <1>2, <1>3 DEF op_grp3
  <2>3. reg \in {4, 5} /\ x = Product(reg, al, a)
    BY <1>4 DEF Multiplies
  <2> HIDE DEF z, d, a, al
  <2> QED
    BY <2>1, <2>2, <2>3 DEF Product
<1> HIDE DEF n, d, z, l, a, al
<1>6. z = SetF([d EXCEPT !.r[AX] = Byte * x.hi + x.lo], MulFlags(f, x.hi))
  BY <1>3, <1>5 DEF Multiply, Double
<1>7. z = SetF([d EXCEPT !.r[AX] = Byte * e.ah + e.al], e.f) /\ Sane(e.f) /\ MachineOK(z)
  BY <1>1, <1>6, SaneProduct DEF z
<1>8. e.ah = x.hi /\ e.al = x.lo /\ e.f = MulFlags(f, x.hi)
  OBVIOUS
<1> HIDE DEF e
<1>9. Stands(z, j, l, WithAX(r, e.ah, e.al), e.f, k, v)
  BY <1>2, <1>7, AdjustedLeads
<1> QED
  BY <1>8, <1>9 DEF z, l

LEMMA DivideLeads ==
  ASSUME NEW j, EvenStack(j), NEW i \in Nat, Has(j, i, 246),
         NEW reg, NEW rm, NEW b, Has(j, i + 1, b), Registers(b, reg, rm),
         NEW r, NEW f, NEW k, NEW v, NEW x, Divides(reg, rm, r, x)
  PROVE  Leads(j, i, r, f, k, v, i + 2, WithAX(r, x.hi, x.lo), f, k, v)
<1> SUFFICES ASSUME NEW y, Stands(y, j, i, r, f, k, v), MachineOK(Execute(y))
             PROVE  Stands(Execute(y), j, i + 2, WithAX(r, x.hi, x.lo), f, k, v)
  BY DEF Leads
<1> DEFINE n == Fetch(y)
           d == modregrm(n)
           z == Execute(y)
           l == i + 2
           r2 == WithAX(r, x.hi, x.lo)
           a == Rm(d, Byte)
<1>0. r \in [0..7 -> Words]
  BY ReadsAt
<1>1. Reads(y, y, j, i) /\ y.r = r /\ y.f = f /\ Sane(f)
  BY ReadsAt
<1>2. Reads(d, y, j, l) /\ Named(d, reg, rm) /\ z = op_grp3(n, Byte)
  BY <1>1, GroupThree
<1>3. d.r = r /\ d.f = f /\ d.reg = reg /\ d.rm = rm /\ d.mode = 3
  BY <1>1, <1>2 DEF Reads, Named
<1>4. a = GetR(r, rm, Byte)
  BY <1>3, RegisterGot DEF Rm
<1>5. z = Divide(d, Byte, x)
  <2>1. reg = 6 => z = Divide(d, Byte, op_div(d.r[AX], a, Byte))
    BY <1>2, <1>3 DEF op_grp3, Dividend
  <2>2. reg = 7 => z = Divide(d, Byte, op_idiv(Signed(d.r[AX], Word), a, Byte))
    BY <1>2, <1>3 DEF op_grp3, SignedDividend
  <2>3. reg \in {6, 7} /\ x = Quotient(reg, d.r[AX], a)
    BY <1>3, <1>4 DEF Divides
  <2> HIDE DEF z, d, a
  <2> QED
    BY <2>1, <2>2, <2>3 DEF Quotient
<1> HIDE DEF n, d, z, l, a
<1>6. z = [d EXCEPT !.r[AX] = Byte * x.hi + x.lo]
  BY <1>5 DEF Divide, Double, Divides
<1>7. MachineOK(z) /\ MachineOK(d) /\ d.ip = l
  BY <1>2 DEF z, Reads
<1>8. z.r = r2 /\ z.f = f /\ z.ip = l /\ z.s = d.s /\ z.h = d.h /\ z.mem = d.mem /\ z.hlt = d.hlt
      /\ z.exited = d.exited
  <2> DEFINE c == Byte * x.hi + x.lo
             p == AX
  <2>1. z = [d EXCEPT !.r[p] = c]
    BY <1>6
  <2>2. r2 = [r EXCEPT ![p] = c]
    BY DEF WithAX
  <2> HIDE DEF c, p, r2
  <2> QED
    BY <1>3, <1>7, <2>1, <2>2, Fields DEF MachineOK
<1>9. Does(z, y, l, r2, f)
  BY <1>2, <1>8 DEF Does, Reads
<1>10. r2[SP] = r[SP]
  BY <1>0 DEF WithAX, AX, SP
<1> HIDE DEF r2
<1>11. Stands(z, j, l, r2, f, k, v)
  BY <1>1, <1>7, <1>9, <1>10, Onwards
<1> QED
  BY <1>11 DEF z, l, r2

-----------------------------------------------------------------------------
\* MUL BL; DIV BL and IMUL BL; IDIV BL give AX back.
ProductFirst(j, reg) == Product(reg, j.r[AX], j.r[BX])
ProductWay(j, reg) ==
  LET x == ProductFirst(j, reg)
      g == MulFlags(Load(j).f, x.hi)
  IN  {Begin(j), Point(2, WithAX(j.r, x.hi, x.lo), g, 0, <<>>), Point(4, j.r, g, 0, <<>>)}

ProductCode(j, reg) ==
  LET b == IF reg = 4 THEN 227 ELSE 235
      c == IF reg = 4 THEN 243 ELSE 251
  IN  /\ Has(j, 0, 246) /\ Has(j, 1, b) /\ Has(j, 2, 246) /\ Has(j, 3, c)
      /\ Has(j, 4, 205) /\ Has(j, 5, 32) /\ reg \in {4, 5}

\* The quotient by the second factor is the first one.
LEMMA ProductDivides ==
  ASSUME NEW reg \in {4, 5}, NEW a \in Octets, NEW b \in Octets, b # 0, reg = 5 => a # 128,
         NEW x, x = Product(reg, a, b)
  PROVE  /\ x.hi \in Octets /\ x.lo \in Octets
         /\ Quotient(reg + 2, Byte * x.hi + x.lo, b) = [fault |-> FALSE, lo |-> a, hi |-> 0]
<1> DEFINE w == Byte
<1>1. w \in Nat \ {0} /\ a \in 0..(w - 1) /\ b \in 1..(w - 1) /\ Byte \in {Byte, Word} /\ w = Byte
  BY Sizes DEF Octets
<1>2. Halved(w, 128)
  BY SMT DEF Halved, Byte
<1>3. x.hi \in Octets /\ x.lo \in Octets
  <2>1. Pair(op_mul(a, b, w), w) /\ Pair(op_imul(a, b, w), w)
    BY <1>1, ProductsOK
  <2> HIDE DEF w
  <2>2. Pair(x, w)
    BY <1>1, <2>1 DEF Product
  <2> QED
    BY <1>1, <2>2 DEF Pair, Octets
<1>4. CASE reg = 4
  <2>1. x = op_mul(a, b, w) /\ reg + 2 = 6
    BY <1>4 DEF Product
  <2> HIDE DEF w
  <2>2. op_div(w * x.hi + x.lo, b, w) = [fault |-> FALSE, lo |-> a, hi |-> 0]
    BY <1>1, <2>1, DivisionUndoesProduct
  <2> QED
    BY <1>1, <1>3, <2>1, <2>2 DEF Quotient
<1>5. CASE reg = 5
  <2> DEFINE half == 128
  <2>1. x = op_imul(a, b, w) /\ reg + 2 = 7 /\ a # half /\ Halved(w, half)
    BY <1>2, <1>5 DEF Product
  <2>2. Signed(Byte * x.hi + x.lo, Word) = Byte * Signed(x.hi, Byte) + x.lo
    <3>1. x.hi \in 0..255 /\ x.lo \in 0..255 /\ Byte = 256 /\ Word = 65536
      BY <1>3, SMT DEF Octets, Byte, Word
    <3> DEFINE h == x.hi
               o == x.lo
    <3>2. h \in 0..255 /\ o \in 0..255
      BY <3>1
    <3> HIDE DEF h, o
    <3>3. Signed(256 * h + o, 65536) = 256 * Signed(h, 256) + o
      BY <3>2, SMT DEF Signed, Sign, Bool
    <3> QED
      BY <3>1, <3>3 DEF h, o
  <2> HIDE DEF w, half
  <2>3. op_idiv(w * Signed(x.hi, w) + x.lo, b, w) = [fault |-> FALSE, lo |-> a, hi |-> 0]
    BY <1>1, <2>1, SignedDivisionUndoesProduct
  <2>4. Quotient(reg + 2, Byte * x.hi + x.lo, b) = op_idiv(Byte * Signed(x.hi, Byte) + x.lo, b, Byte)
    BY <2>1, <2>2 DEF Quotient
  <2> QED
    BY <1>1, <1>3, <2>3, <2>4
<1> QED
  BY <1>3, <1>4, <1>5

LEMMA ProductStep ==
  ASSUME NEW j, EvenStack(j), NEW reg, ProductCode(j, reg), j.r[AX] \in Octets, j.r[BX] \in Octets,
         j.r[BX] # 0, reg = 5 => j.r[AX] # 128
  PROVE  Sound(j, ProductWay(j, reg))
<1> DEFINE f == Load(j).f
           r == j.r
           x == ProductFirst(j, reg)
           g == MulFlags(f, x.hi)
           r1 == WithAX(r, x.hi, x.lo)
           a == r[AX]
           c == r[BX]
           rm == 3
<1>1. r \in [0..7 -> Words] /\ 0 \in Octets /\ a \in Octets /\ c \in Octets /\ reg \in {4, 5}
  BY JobsAssumption, Numbers8, Sizes DEF EvenStack, Octets, ProductCode
<1>2. a < Byte /\ c < Byte /\ a \in Nat /\ c \in Nat
  BY <1>1, Sizes, Numbers8 DEF Octets
<1>3. r = WithAX(r, 0, a) /\ a % Byte = a /\ c % Byte = c
  BY <1>1, <1>2, SmallAX, ModSmall, Sizes
<1>4. GetR(r, AX, Byte) = a /\ GetR(r, rm, Byte) = c
  BY <1>3, Sizes DEF GetR, AX, BX
<1>5. Multiplies(reg, rm, r, x)
  BY <1>1, <1>4 DEF Multiplies, ProductFirst
<1> DEFINE q == [fault |-> FALSE, lo |-> a, hi |-> 0]
           reg2 == reg + 2
           n == Byte * x.hi + x.lo
<1>6. x.hi \in Octets /\ x.lo \in Octets /\ Quotient(reg2, n, c) = q
  <2>1. x = Product(reg, a, c) /\ c # 0 /\ (reg = 5 => a # 128)
    BY DEF ProductFirst
  <2> HIDE DEF x, a, c
  <2> QED
    BY <1>1, <2>1, ProductDivides
<1> HIDE DEF x, g, f
<1>7. r1[AX] = n /\ GetR(r1, rm, Byte) = c /\ WithAX(r1, 0, a) = r
  <2> DEFINE h == x.hi
             l == x.lo
  <2>1. h \in Octets /\ l \in Octets /\ r1 = WithAX(r, h, l) /\ r \in [0..7 -> Words]
    BY <1>1, <1>6
  <2> HIDE DEF h, l, r, r1
  <2>2. /\ r1[AX] = Byte * h + l /\ GetR(r1, BX, Byte) = r[BX] % Byte
        /\ \A u, v : WithAX(r1, u, v) = WithAX(r, u, v)
    BY <2>1, HalfRegisters
  <2> QED
    BY <1>3, <2>2 DEF h, l, BX
<1>8. Divides(reg2, rm, r1, q) /\ q.lo = a /\ q.hi = 0
  <2>1. reg2 \in {6, 7}
    BY <1>1
  <2> HIDE DEF reg2, n, r1, a, c
  <2> QED
    BY <1>6, <1>7, <2>1 DEF Divides
<1>9. Plainly(j, 0, r, f, 2, r1, g)
  <2> DEFINE i == 0
             b == IF reg = 4 THEN 227 ELSE 235
  <2>1. i \in Nat /\ i + 2 = 2 /\ Has(j, i, 246) /\ Has(j, i + 1, b) /\ Registers(b, reg, rm)
    BY <1>1 DEF ProductCode, Registers
  <2> HIDE DEF i, b, r, rm
  <2>2. Leads(j, i, r, f, 0, <<>>, i + 2, WithAX(r, x.hi, x.lo), MulFlags(f, x.hi), 0, <<>>)
    BY <1>5, <2>1, MultiplyLeads, ZenonT(60)
  <2> QED
    BY <2>1, <2>2 DEF Plainly, i, g
<1>10. Plainly(j, 2, r1, g, 4, r, g)
  <2> DEFINE i == 2
             b == IF reg = 4 THEN 243 ELSE 251
  <2>1. i \in Nat /\ i + 2 = 4 /\ Has(j, i, 246) /\ Has(j, i + 1, b) /\ Registers(b, reg2, rm)
    BY <1>1 DEF ProductCode, Registers
  <2> HIDE DEF i, b, r, rm, q, r1, reg2
  <2>2. Leads(j, i, r1, g, 0, <<>>, i + 2, WithAX(r1, q.hi, q.lo), g, 0, <<>>)
    BY <1>8, <2>1, DivideLeads, ZenonT(40)
  <2> QED
    BY <1>7, <1>8, <2>1, <2>2 DEF Plainly, i
<1> DEFINE p0 == Begin(j)
           p1 == Point(2, r1, g, 0, <<>>)
           p2 == Point(4, r, g, 0, <<>>)
<1>11. LeadsTo(j, p0, p1) /\ LeadsTo(j, p1, p2)
  <2>1. p0 = Point(0, r, f, 0, <<>>)
    BY DEF Begin, f
  <2> HIDE DEF r1, r
  <2> QED
    BY <1>9, <1>10, <2>1, PlainStep
<1>12. Final(j, p2)
  <2> DEFINE i == 4
  <2>1. Has(j, i, 205) /\ Has(j, i + 1, 32) /\ i \in Nat
    BY DEF ProductCode
  <2> HIDE DEF i, r
  <2>2. Final(j, Point(i, r, g, 0, <<>>))
    BY <2>1, PlainEnd
  <2> QED
    BY <2>2 DEF i
<1>13. Small(p0) /\ Small(p1) /\ Small(p2)
  BY DEF Small, Point, Begin
<1>14. ProductWay(j, reg) = {p0, p1, p2}
  BY DEF ProductWay, g, x, f
<1> HIDE DEF p1, p2
<1> QED
  BY <1>11, <1>12, <1>13, <1>14 DEF Sound

-----------------------------------------------------------------------------
\* A conditional jump over one byte.
Jumps1(op, f, i, i2) == op \in {114, 124} /\ i2 = IF Condition(op % 16, f) THEN i + 3 ELSE i + 2

LEMMA JumpLeads ==
  ASSUME NEW j, EvenStack(j), NEW i \in Nat, NEW op, Has(j, i, op), Has(j, i + 1, 1),
         NEW f, NEW r, NEW k, NEW v, NEW i2, Jumps1(op, f, i, i2)
  PROVE  Leads(j, i, r, f, k, v, i2, r, f, k, v)
<1> SUFFICES ASSUME NEW y, Stands(y, j, i, r, f, k, v), MachineOK(Execute(y))
             PROVE  Stands(Execute(y), j, i2, r, f, k, v)
  BY DEF Leads
<1> DEFINE n == Fetch(y)
           l == i + 1
           z == Execute(y)
           taken == Condition(op % 16, f)
           d == IF taken THEN 2 ELSE 1
<1>1. op \in 64..159 /\ op \notin DOMAIN PrefixOf /\ op \in 112..127
  BY DEF PrefixOf, Jumps1
<1>2. /\ i < Len(Code[j.task]) /\ Code[j.task][i + 1] = op /\ l \in Nat /\ l < Len(Code[j.task])
      /\ Code[j.task][l + 1] = 1
  BY DEF Has
<1>3. ExecuteMiddle(n, op) = Jcc(n, op)
  BY <1>1 DEF ExecuteMiddle
<1>4. d \in {1, 2} /\ l + d = i2
  BY DEF Jumps1
<1>5. Signed(1, Byte) = 1 /\ 1 + 1 = 2 /\ 1 + 0 = 1
  <2>1. Signed(1, 256) = 1
    BY SMT DEF Signed, Sign, Bool
  <2> QED
    BY <2>1 DEF Byte
<1> HIDE DEF n, l, z, d, taken
<1>6. Reads(y, y, j, i) /\ y.r = r /\ y.f = f /\ Sane(f)
  BY ReadsAt
<1>7. Reads(n, y, j, l) /\ z = ExecuteMiddle(n, op)
  <2>1. /\ i < Len(Code[j.task]) /\ Reads(y, y, j, i)
        /\ Code[j.task][i + 1] \notin DOMAIN PrefixOf /\ Code[j.task][i + 1] \in 64..159
    BY <1>1, <1>2, <1>6
  <2>2. /\ Reads(Fetch(y), y, j, i + 1)
        /\ Execute(y) = ExecuteMiddle(Fetch(y), Code[j.task][i + 1])
    BY <2>1, Opcode
  <2> QED
    BY <1>2, <2>2 DEF n, l, z
<1>8. n.r = r /\ n.f = f /\ n.ip = l /\ MachineOK(n)
  BY <1>6, <1>7 DEF Reads
<1>9. Code8(n) = 1
  BY <1>2, <1>7, CodeRead
<1>10. z = AdvanceIP(n, d)
  BY <1>3, <1>5, <1>7, <1>8, <1>9 DEF Jcc, Short, taken, d
<1>11. /\ z.ip = (l + d) % Word /\ z.r = n.r /\ z.f = n.f /\ z.h = n.h /\ z.mem = n.mem /\ z.s = n.s
       /\ z.hlt = n.hlt /\ z.exited = n.exited
  BY <1>8, <1>10, Fields DEF AdvanceIP, MachineOK
<1>12. (l + d) % Word = i2
  <2>1. Len(Code[j.task]) \in Nat /\ Len(Code[j.task]) < 64
    BY JobsAssumption, CodeIsBytes DEF EvenStack
  <2>2. 70 < Word /\ Word \in Nat
    BY SMT DEF Word, Byte
  <2>3. i2 \in Nat /\ i2 < Word
    BY <1>2, <1>4, <2>1, <2>2
  <2> QED
    BY <1>4, <2>2, <2>3, ModSmall
<1>13. Does(z, y, i2, r, f)
  BY <1>7, <1>8, <1>11, <1>12 DEF Does, Reads
<1>14. MachineOK(z) /\ Stands(y, j, i, r, f, k, v)
  BY DEF z
<1>15. Stands(z, j, i2, r, f, k, v)
  BY <1>6, <1>13, <1>14, Onwards
<1> QED
  BY <1>15 DEF z

\* CMP of two registers.
Compares(f, r, rm, reg, g) == g = flag_sub(f, r[rm], r[reg], Word) /\ Sane(g)

LEMMA CompareLeads ==
  ASSUME NEW j, EvenStack(j), NEW i \in Nat, Has(j, i, 57),
         NEW reg, NEW rm, NEW b, Has(j, i + 1, b), Registers(b, reg, rm),
         NEW r, NEW f, NEW k, NEW v, NEW g, Compares(f, r, rm, reg, g)
  PROVE  Leads(j, i, r, f, k, v, i + 2, r, g, k, v)
<1> SUFFICES ASSUME NEW y, Stands(y, j, i, r, f, k, v), MachineOK(Execute(y))
             PROVE  Stands(Execute(y), j, i + 2, r, g, k, v)
  BY DEF Leads
<1> DEFINE op == 57
           n == Fetch(y)
           d == modregrm(n)
           w == Word
           o == [f |-> g]
           z == Execute(y)
           l == i + 2
<1>0. Alu(op) /\ Size(op) = w /\ op \div 8 = 7 /\ Has(j, i, op)
  BY DEF Alu, Size
<1> HIDE DEF op, n, d, w, z, l
<1>1. Reads(y, y, j, i) /\ y.r = r /\ y.f = f
  BY ReadsAt
<1>2. /\ Reads(d, y, j, l) /\ d.mode = 3 /\ d.reg = reg /\ d.rm = rm
      /\ z = EG(n, w, 7)
  BY <1>0, <1>1, TwoRegisters DEF d, n, l, z
<1>3. d.r = r /\ d.f = f
  BY <1>1, <1>2 DEF Reads
<1>4. Rm(d, w) = r[rm] /\ R(d, d.reg, w) = r[reg]
  <2>1. GetR(r, rm, Word) = r[rm] /\ GetR(r, reg, Word) = r[reg]
    BY Sizes DEF GetR
  <2> QED
    BY <1>2, <1>3, <2>1, RegisterGot DEF Rm, w
<1>5. Operation(7, f, r[rm], r[reg], w) = o
  BY DEF Operation, op_cmp, Compares, w
<1>6. z = StoreRm(d, w, o)
  BY <1>2, <1>3, <1>4, <1>5 DEF EG, d
<1>7. z = [d EXCEPT !.f = g]
  <2>1. "v" \notin DOMAIN o /\ o.f = g
    OBVIOUS
  <2> HIDE DEF o
  <2> QED
    BY <1>6, <2>1 DEF StoreRm, SetF
<1>8. Does(z, y, l, r, g)
  BY <1>1, <1>2, <1>7, Fields DEF Does, Reads, MachineOK
<1>9. MachineOK(z) /\ Stands(y, j, i, r, f, k, v) /\ Sane(g)
  BY DEF z, Compares
<1>10. Stands(z, j, l, r, g, k, v)
  BY <1>8, <1>9, Onwards
<1> QED
  BY <1>10 DEF z, l

\* INC of a register.
Increments(f, r, q, a, g) ==
  /\ a = (r[q] + 1) % Word /\ g = [flag_adc(f, r[q], 1, 0, Word) EXCEPT !.cf = f.cf]

LEMMA SaneIncrement ==
  ASSUME NEW f, Sane(f), NEW r \in [0..7 -> Words], NEW q \in 0..7, NEW a, NEW g, Increments(f, r, q, a, g)
  PROVE  Sane(g) /\ a \in Words /\ g.cf = f.cf
<1> DEFINE e == flag_adc(f, r[q], 1, 0, Word)
           c == f.cf
<1>1. r[q] \in Int /\ 1 \in Int /\ 0 \in Int /\ Word \in Nat /\ 0 < Word
  BY Numbers8, Sizes
<1>2. Sane(e)
  BY <1>1, SaneSum
<1>3. c \in 0..1
  BY FlagBits DEF Sane
<1>4. g = [e EXCEPT !.cf = c]
  BY DEF Increments
<1>5. r[q] + 1 \in Int
  BY <1>1
<1>6. a \in Words
  BY <1>5, ByteFacts DEF Increments
<1> HIDE DEF e, c
<1>7. g \in Flags
  BY <1>2, <1>3, <1>4, SetFlag DEF Sane
<1>8. DOMAIN e = FlagNames
  BY <1>2 DEF Sane, Flags
<1>9. g.ac = e.ac /\ g.of = e.of /\ g.cf = c
  BY <1>4, <1>8 DEF FlagNames
<1> QED
  BY <1>2, <1>6, <1>7, <1>9 DEF Sane, c

IncrementOf(op, q) == q \in 6..7 /\ op = 64 + q

LEMMA IncrementLeads ==
  ASSUME NEW j, EvenStack(j), NEW i \in Nat, NEW q, NEW op, IncrementOf(op, q), Has(j, i, op),
         NEW r, NEW f, NEW k, NEW v, NEW a, NEW g, Increments(f, r, q, a, g)
  PROVE  Leads(j, i, r, f, k, v, i + 1, [r EXCEPT ![q] = a], g, k, v)
<1> SUFFICES ASSUME NEW y, Stands(y, j, i, r, f, k, v), MachineOK(Execute(y))
             PROVE  Stands(Execute(y), j, i + 1, [r EXCEPT ![q] = a], g, k, v)
  BY DEF Leads
<1> DEFINE n == Fetch(y)
           l == i + 1
           z == Execute(y)
           r2 == [r EXCEPT ![q] = a]
           o == [v |-> a, f |-> g]
           e == flag_adc(f, r[q], 1, 0, Word)
           x == [n EXCEPT !.f = g]
<1>1. op \in 64..159 /\ op \notin DOMAIN PrefixOf /\ op \in 64..71 /\ op - 64 = q /\ q \in 0..7
  BY DEF PrefixOf, IncrementOf
<1>2. i < Len(Code[j.task]) /\ Code[j.task][i + 1] = op
  BY DEF Has
<1>3. ExecuteMiddle(n, op) = INC(n, q)
  BY <1>1 DEF ExecuteMiddle
<1>4. KeepCarry([v |-> a, f |-> e], f) = o
  BY DEF KeepCarry, Increments
<1>5. op_add(f, r[q], 1, Word) = [v |-> a, f |-> e]
  BY DEF op_add, Increments
<1> HIDE DEF n, l, z, e, x, r2, o
<1>6. Reads(y, y, j, i) /\ y.r = r /\ y.f = f /\ Sane(f) /\ r \in [0..7 -> Words]
  <2>1. Stands(y, j, i, r, f, k, v)
    OBVIOUS
  <2>2. Reads(y, y, j, i) /\ y.r = r /\ y.f = f /\ Sane(f)
    BY <2>1, ReadsAt
  <2>3. r \in [0..7 -> Words]
    BY <2>1, ReadsAt
  <2> QED
    BY <2>2, <2>3
<1>7. Reads(n, y, j, l) /\ z = ExecuteMiddle(n, op)
  <2>1. /\ i < Len(Code[j.task]) /\ Reads(y, y, j, i)
        /\ Code[j.task][i + 1] \notin DOMAIN PrefixOf /\ Code[j.task][i + 1] \in 64..159
    BY <1>1, <1>2, <1>6
  <2>2. /\ Reads(Fetch(y), y, j, i + 1)
        /\ Execute(y) = ExecuteMiddle(Fetch(y), Code[j.task][i + 1])
    BY <2>1, Opcode
  <2> QED
    BY <1>2, <2>2 DEF n, l, z
<1>8. n.r = r /\ n.f = f /\ n.ip = l /\ MachineOK(n)
  BY <1>6, <1>7 DEF Reads
<1>9. z = StoreR(n, q, Word, o)
  BY <1>3, <1>4, <1>5, <1>7, <1>8 DEF INC
<1>10. z = SetR(x, q, Word, a)
  <2>1. "v" \in DOMAIN o /\ o.v = a /\ o.f = g
    BY DEF o
  <2> QED
    BY <1>9, <2>1 DEF StoreR, SetF, x
<1>11. z = [x EXCEPT !.r[q] = a]
  BY <1>10, Sizes DEF SetR
<1>12. Sane(g)
  BY <1>1, <1>6, SaneIncrement
<1>13. /\ x.r = r /\ x.f = g /\ x.ip = l /\ x.s = n.s /\ x.h = n.h /\ x.mem = n.mem
       /\ x.hlt = n.hlt /\ x.exited = n.exited /\ DOMAIN x = DOMAIN Reset
  BY <1>8, Fields DEF MachineOK, x
<1>14. /\ z.r = r2 /\ z.f = g /\ z.ip = l /\ z.s = n.s /\ z.h = n.h /\ z.mem = n.mem
       /\ z.hlt = n.hlt /\ z.exited = n.exited
  BY <1>11, <1>13, Fields DEF r2
<1>15. r2[SP] = r[SP]
  BY <1>1, <1>6 DEF SP, IncrementOf, r2
<1>16. Does(z, y, l, r2, g)
  BY <1>7, <1>14 DEF Does, Reads
<1>17. MachineOK(z) /\ Stands(y, j, i, r, f, k, v)
  BY DEF z
<1>18. Stands(z, j, l, r2, g, k, v)
  BY <1>12, <1>15, <1>16, <1>17, Onwards
<1> QED
  BY <1>18 DEF z, l, r2

-----------------------------------------------------------------------------
\* INC of a register, and a jump over it.
Incremented(r, q) == [r EXCEPT ![q] = (r[q] + 1) % Word]
UpFlags(r, q, f) == [flag_adc(f, r[q], 1, 0, Word) EXCEPT !.cf = f.cf]

JumpsOver(j, i, op, q) ==
  /\ op \in {114, 124} /\ q \in 6..7
  /\ Has(j, i, op) /\ Has(j, i + 1, 1) /\ Has(j, i + 2, 64 + q)

LEMMA JumpedIncrement ==
  ASSUME NEW j, EvenStack(j), NEW i \in Nat, NEW op, NEW q, JumpsOver(j, i, op, q), NEW r, NEW f
  PROVE  /\ Condition(op % 16, f) => Plainly(j, i, r, f, i + 3, r, f)
         /\ ~Condition(op % 16, f) => Plainly(j, i, r, f, i + 2, r, f)
         /\ Plainly(j, i + 2, r, f, i + 3, Incremented(r, q), UpFlags(r, q, f))
<1> DEFINE t == i + 2
           u == i + 3
           k == 0
           v == <<>>
<1>1. t \in Nat /\ t + 1 = u
  OBVIOUS
<1> HIDE DEF t, u, k, v
<1>2. ASSUME NEW i2, Jumps1(op, f, i, i2)
      PROVE  Leads(j, i, r, f, k, v, i2, r, f, k, v)
  <2>1. Has(j, i, op) /\ Has(j, i + 1, 1)
    BY DEF JumpsOver
  <2> QED
    BY <1>2, <2>1, JumpLeads
<1>3. ASSUME Condition(op % 16, f)
      PROVE  Leads(j, i, r, f, k, v, u, r, f, k, v)
  <2>1. Jumps1(op, f, i, u)
    BY <1>3 DEF Jumps1, JumpsOver, u
  <2> QED
    BY <1>2, <2>1
<1>4. ASSUME ~Condition(op % 16, f)
      PROVE  Leads(j, i, r, f, k, v, t, r, f, k, v)
  <2>1. Jumps1(op, f, i, t)
    BY <1>4 DEF Jumps1, JumpsOver, t
  <2> QED
    BY <1>2, <2>1
<1>5. Leads(j, t, r, f, k, v, u, Incremented(r, q), UpFlags(r, q, f), k, v)
  <2> DEFINE a == (r[q] + 1) % Word
             g == UpFlags(r, q, f)
             op2 == 64 + q
  <2>1. Increments(f, r, q, a, g) /\ IncrementOf(op2, q) /\ Has(j, t, op2) /\ [r EXCEPT ![q] = a] = Incremented(r, q)
    BY DEF Increments, IncrementOf, JumpsOver, Incremented, UpFlags, t
  <2> HIDE DEF a, g, op2
  <2>2. Leads(j, t, r, f, k, v, t + 1, [r EXCEPT ![q] = a], g, k, v)
    BY <1>1, <2>1, IncrementLeads
  <2> QED
    BY <1>1, <2>1, <2>2 DEF g
<1> QED
  BY <1>3, <1>4, <1>5 DEF Plainly, t, u, k, v

-----------------------------------------------------------------------------
\* CMP AX,BX; SBB DX,CX; JL +1; INC SI; JB +1; INC DI.
CompareLow(j) == flag_sub(Load(j).f, j.r[AX], j.r[BX], Word)
CompareHigh(j) == Operation(3, CompareLow(j), j.r[DX], j.r[CX], Word)
ComparedRegisters(j) == [j.r EXCEPT ![DX] = CompareHigh(j).v]

SignedLess(j) == Condition(12, CompareHigh(j).f)
SignedRegisters(j) ==
  IF SignedLess(j) THEN ComparedRegisters(j) ELSE Incremented(ComparedRegisters(j), SI)
SignedFlags(j) ==
  IF SignedLess(j) THEN CompareHigh(j).f ELSE UpFlags(ComparedRegisters(j), SI, CompareHigh(j).f)

UnsignedLess(j) == Condition(2, SignedFlags(j))
UnsignedRegisters(j) ==
  IF UnsignedLess(j) THEN SignedRegisters(j) ELSE Incremented(SignedRegisters(j), DI)
UnsignedFlags(j) ==
  IF UnsignedLess(j) THEN SignedFlags(j) ELSE UpFlags(SignedRegisters(j), DI, SignedFlags(j))

CompareWay(j) ==
  {Begin(j), Point(2, j.r, CompareLow(j), 0, <<>>), Point(4, ComparedRegisters(j), CompareHigh(j).f, 0, <<>>),
   Point(7, SignedRegisters(j), SignedFlags(j), 0, <<>>), Point(10, UnsignedRegisters(j), UnsignedFlags(j), 0, <<>>)}
  \cup {p \in {Point(6, ComparedRegisters(j), CompareHigh(j).f, 0, <<>>)} : ~SignedLess(j)}
  \cup {p \in {Point(9, SignedRegisters(j), SignedFlags(j), 0, <<>>)} : ~UnsignedLess(j)}

CompareCode(j) ==
  /\ Has(j, 0, 57) /\ Has(j, 1, 216) /\ Has(j, 2, 25) /\ Has(j, 3, 202)
  /\ JumpsOver(j, 4, 124, SI) /\ JumpsOver(j, 7, 114, DI) /\ Has(j, 10, 205) /\ Has(j, 11, 32)

LEMMA CompareFirst ==
  ASSUME NEW j, EvenStack(j), CompareCode(j)
  PROVE  Plainly(j, 0, j.r, Load(j).f, 2, j.r, CompareLow(j)) /\ Sane(CompareLow(j))
<1> DEFINE f == Load(j).f
           r == j.r
           g == CompareLow(j)
           i == 0
           reg == 3
           rm == AX
           b == 216
           k == 0
           v == <<>>
<1>1. Sane(f) /\ r \in [0..7 -> Words]
  BY SaneAtFirst, JobsAssumption DEF EvenStack
<1>2. Sane(g)
  <2> DEFINE a == r[AX]
             c == r[BX]
  <2>1. a \in Int /\ c \in Int /\ Word \in Nat /\ 0 < Word
    BY <1>1, Numbers8, Sizes DEF AX, BX
  <2>2. g = flag_sub(f, a, c, Word)
    BY DEF CompareLow
  <2> HIDE DEF a, c, f, g
  <2>3. Sane(flag_sub(f, a, c, Word))
    BY <1>1, <2>1, SaneDifference
  <2> QED
    BY <2>2, <2>3
<1>3. Compares(f, r, rm, reg, g)
  BY <1>2 DEF Compares, CompareLow, BX
<1>4. Has(j, i, 57) /\ Has(j, i + 1, b) /\ Registers(b, reg, rm) /\ i \in Nat /\ i + 2 = 2
  BY DEF CompareCode, Registers, AX
<1> HIDE DEF f, r, g, i, reg, rm, b, k, v
<1>5. Leads(j, i, r, f, k, v, i + 2, r, g, k, v)
  BY <1>3, <1>4, CompareLeads
<1> QED
  BY <1>2, <1>4, <1>5 DEF Plainly, f, r, g, i, k, v

LEMMA CompareSecond ==
  ASSUME NEW j, EvenStack(j), CompareCode(j)
  PROVE  /\ Plainly(j, 2, j.r, CompareLow(j), 4, ComparedRegisters(j), CompareHigh(j).f)
         /\ Worked(CompareHigh(j), Word)
<1> DEFINE f == CompareLow(j)
           r == j.r
           o == CompareHigh(j)
           g == o.f
           a == o.v
           r2 == ComparedRegisters(j)
           i == 2
           op == 25
           reg == 1
           rm == DX
           b == 202
           k == 0
           v == <<>>
<1>1. Sane(f) /\ r \in [0..7 -> Words]
  BY CompareFirst, JobsAssumption DEF EvenStack
<1>2. Worked(o, Word)
  <2> DEFINE x == r[DX]
             y == r[CX]
             n == 3
  <2>1. x \in 0 .. Word - 1 /\ y \in 0 .. Word - 1 /\ Sums(n) /\ Word \in {Byte, Word}
    BY <1>1 DEF Words, Sums, DX, CX
  <2>2. o = Operation(n, f, x, y, Word)
    BY DEF CompareHigh
  <2> HIDE DEF x, y, n, f, o
  <2> QED
    BY <1>1, <2>1, <2>2, SaneOperation
<1>3. Sane(g) /\ a \in Words /\ o = [v |-> a, f |-> g]
  BY <1>2 DEF Worked, Words
<1>4. Alu(op) /\ Size(op) = Word /\ op \div 8 = 3
  BY DEF Alu, Size
<1>5. GetR(r, rm, Word) = r[DX] /\ GetR(r, reg, Word) = r[CX]
  BY Sizes DEF GetR, DX, CX
<1>6. Yields(op, f, r, rm, reg, Size(op), a, g)
  BY <1>3, <1>4, <1>5 DEF Yields, CompareHigh
<1>7. Stored(r2, r, rm, Size(op), a)
  <2>1. r2 = [r EXCEPT ![rm] = a]
    BY DEF ComparedRegisters
  <2>2. r2 = PutR(r, rm, Word, a)
    BY <2>1, Sizes DEF PutR
  <2>3. r2[SP] = r[SP]
    BY <1>1, <2>1 DEF SP, DX
  <2> QED
    BY <1>4, <2>2, <2>3 DEF Stored
<1>8. Has(j, i, op) /\ Has(j, i + 1, b) /\ Registers(b, reg, rm) /\ i \in Nat /\ i + 2 = 4
  BY DEF CompareCode, Registers, DX
<1> HIDE DEF f, r, o, g, a, r2, i, op, reg, rm, b, k, v
<1>9. Leads(j, i, r, f, k, v, i + 2, r2, g, k, v)
  BY <1>3, <1>4, <1>6, <1>7, <1>8, AluStored
<1> QED
  BY <1>2, <1>8, <1>9 DEF Plainly, f, r, o, g, r2, i, k, v

LEMMA CompareStep ==
  ASSUME NEW j, EvenStack(j), CompareCode(j)
  PROVE  Sound(j, CompareWay(j))
<1> DEFINE f0 == Load(j).f
           f1 == CompareLow(j)
           f2 == CompareHigh(j).f
           f3 == SignedFlags(j)
           f4 == UnsignedFlags(j)
           r0 == j.r
           r2 == ComparedRegisters(j)
           r3 == SignedRegisters(j)
           r4 == UnsignedRegisters(j)
           p0 == Begin(j)
           p1 == Point(2, r0, f1, 0, <<>>)
           p2 == Point(4, r2, f2, 0, <<>>)
           p3 == Point(6, r2, f2, 0, <<>>)
           p4 == Point(7, r3, f3, 0, <<>>)
           p5 == Point(9, r3, f3, 0, <<>>)
           p6 == Point(10, r4, f4, 0, <<>>)
<1>1. Plainly(j, 0, r0, f0, 2, r0, f1) /\ Plainly(j, 2, r0, f1, 4, r2, f2)
  BY CompareFirst, CompareSecond
<1>2. /\ SignedLess(j) => Plainly(j, 4, r2, f2, 7, r3, f3)
      /\ ~SignedLess(j) => Plainly(j, 4, r2, f2, 6, r2, f2) /\ Plainly(j, 6, r2, f2, 7, r3, f3)
  <2> DEFINE i == 4
             op == 124
  <2>1. i \in Nat /\ JumpsOver(j, i, op, SI) /\ op % 16 = 12 /\ i + 2 = 6 /\ i + 3 = 7
    BY DEF CompareCode
  <2>2. (SignedLess(j) <=> Condition(12, f2)) /\ (SignedLess(j) => r3 = r2 /\ f3 = f2)
        /\ (~SignedLess(j) => r3 = Incremented(r2, SI) /\ f3 = UpFlags(r2, SI, f2))
    BY DEF SignedLess, SignedRegisters, SignedFlags
  <2> HIDE DEF i, op, r2, f2, r3, f3
  <2>3. /\ Condition(op % 16, f2) => Plainly(j, i, r2, f2, i + 3, r2, f2)
        /\ ~Condition(op % 16, f2) => Plainly(j, i, r2, f2, i + 2, r2, f2)
        /\ Plainly(j, i + 2, r2, f2, i + 3, Incremented(r2, SI), UpFlags(r2, SI, f2))
    BY <2>1, JumpedIncrement
  <2> QED
    BY <2>1, <2>2, <2>3 DEF i
<1>3. /\ UnsignedLess(j) => Plainly(j, 7, r3, f3, 10, r4, f4)
      /\ ~UnsignedLess(j) => Plainly(j, 7, r3, f3, 9, r3, f3) /\ Plainly(j, 9, r3, f3, 10, r4, f4)
  <2> DEFINE i == 7
             op == 114
  <2>1. i \in Nat /\ JumpsOver(j, i, op, DI) /\ op % 16 = 2 /\ i + 2 = 9 /\ i + 3 = 10
    BY DEF CompareCode
  <2>2. (UnsignedLess(j) <=> Condition(2, f3)) /\ (UnsignedLess(j) => r4 = r3 /\ f4 = f3)
        /\ (~UnsignedLess(j) => r4 = Incremented(r3, DI) /\ f4 = UpFlags(r3, DI, f3))
    BY DEF UnsignedLess, UnsignedRegisters, UnsignedFlags
  <2> HIDE DEF i, op, r3, f3, r4, f4
  <2>3. /\ Condition(op % 16, f3) => Plainly(j, i, r3, f3, i + 3, r3, f3)
        /\ ~Condition(op % 16, f3) => Plainly(j, i, r3, f3, i + 2, r3, f3)
        /\ Plainly(j, i + 2, r3, f3, i + 3, Incremented(r3, DI), UpFlags(r3, DI, f3))
    BY <2>1, JumpedIncrement
  <2> QED
    BY <2>1, <2>2, <2>3 DEF i
<1>4. p0 = Point(0, r0, f0, 0, <<>>)
  BY DEF Begin
<1> HIDE DEF f0, f1, f2, f3, f4, r0, r2, r3, r4
<1>5. LeadsTo(j, p0, p1) /\ LeadsTo(j, p1, p2)
  BY <1>1, <1>4, PlainStep
<1>6. /\ SignedLess(j) => LeadsTo(j, p2, p4)
      /\ ~SignedLess(j) => LeadsTo(j, p2, p3) /\ LeadsTo(j, p3, p4)
  BY <1>2, PlainStep
<1>7. /\ UnsignedLess(j) => LeadsTo(j, p4, p6)
      /\ ~UnsignedLess(j) => LeadsTo(j, p4, p5) /\ LeadsTo(j, p5, p6)
  BY <1>3, PlainStep
<1>8. Final(j, p6)
  <2> DEFINE i == 10
  <2>1. Has(j, i, 205) /\ Has(j, i + 1, 32) /\ i \in Nat
    BY DEF CompareCode
  <2> HIDE DEF i
  <2>2. Final(j, Point(i, r4, f4, 0, <<>>))
    BY <2>1, PlainEnd
  <2> QED
    BY <2>2 DEF i
<1>9. Small(p0) /\ Small(p1) /\ Small(p2) /\ Small(p3) /\ Small(p4) /\ Small(p5) /\ Small(p6)
  BY DEF Small, Point, Begin
<1>10. /\ CompareWay(j) \subseteq {p0, p1, p2, p3, p4, p5, p6}
       /\ {p0, p1, p2, p4, p6} \subseteq CompareWay(j)
       /\ ~SignedLess(j) <=> p3 \in CompareWay(j)
       /\ ~UnsignedLess(j) <=> p5 \in CompareWay(j)
  <2>1. /\ CompareWay(j) = {p0, p1, p2, p4, p6} \cup {p \in {p3} : ~SignedLess(j)} \cup {p \in {p5} : ~UnsignedLess(j)}
    BY DEF CompareWay, f1, f2, f3, f4, r0, r2, r3, r4
  <2>2. p3.i = 6 /\ p5.i = 9 /\ p0.i = 0 /\ p1.i = 2 /\ p2.i = 4 /\ p4.i = 7 /\ p6.i = 10
    BY DEF Point, Begin
  <2>3. p3 \notin {p0, p1, p2, p4, p5, p6} /\ p5 \notin {p0, p1, p2, p3, p4, p6}
    BY <2>2
  <2> HIDE DEF p0, p1, p2, p3, p4, p5, p6
  <2> QED
    BY <2>1, <2>3
<1> DEFINE way == CompareWay(j)
<1> HIDE DEF p0, p1, p2, p3, p4, p5, p6, way
<1>11. \A p \in way : Small(p) /\ (Final(j, p) \/ \E q \in way : LeadsTo(j, p, q))
  BY <1>5, <1>6, <1>7, <1>8, <1>9, <1>10 DEF way
<1> QED
  BY <1>10, <1>11 DEF Sound, way, p0

-----------------------------------------------------------------------------
\* What the comparison ends with: SI and DI say whether a jump was taken.
LEMMA CompareEnd ==
  ASSUME NEW j, CompareCode(j), NEW p \in CompareWay(j), Final(j, p)
  PROVE  p.r = UnsignedRegisters(j)
<1> DEFINE c == CompareLow(j)
           s == CompareHigh(j).f
           r2 == ComparedRegisters(j)
           r3 == SignedRegisters(j)
           f3 == SignedFlags(j)
           r4 == UnsignedRegisters(j)
           f4 == UnsignedFlags(j)
<1>1. p \in {Begin(j), Point(2, j.r, c, 0, <<>>), Point(4, r2, s, 0, <<>>), Point(6, r2, s, 0, <<>>),
             Point(7, r3, f3, 0, <<>>), Point(9, r3, f3, 0, <<>>), Point(10, r4, f4, 0, <<>>)}
  BY DEF CompareWay
<1> HIDE DEF c, s, r2, r3, f3, r4, f4
<1>2. Code[j.task][p.i + 1] = 205
  BY DEF Final, Has
<1>3. /\ Code[j.task][0 + 1] # 205 /\ Code[j.task][2 + 1] # 205 /\ Code[j.task][4 + 1] # 205
      /\ Code[j.task][6 + 1] # 205 /\ Code[j.task][7 + 1] # 205 /\ Code[j.task][9 + 1] # 205
  <2>1. /\ Has(j, 0, 57) /\ Has(j, 2, 25) /\ Has(j, 4, 124) /\ Has(j, 6, 70) /\ Has(j, 7, 114) /\ Has(j, 9, 71)
    BY DEF CompareCode, JumpsOver, SI, DI
  <2> QED
    BY <2>1 DEF Has
<1>4. p.i # 0 /\ p.i # 2 /\ p.i # 4 /\ p.i # 6 /\ p.i # 7 /\ p.i # 9
  BY <1>2, <1>3
<1>5. p = Point(10, r4, f4, 0, <<>>)
  BY <1>1, <1>4 DEF Point, Begin
<1> QED
  BY <1>5 DEF Point, r4

LEMMA Counted ==
  ASSUME NEW r \in [0..7 -> Words], NEW q, q \in {SI, DI}, NEW f, Sane(f)
  PROVE  /\ Incremented(r, q) \in [0..7 -> Words] /\ \A i \in 0..7 : i # q => Incremented(r, q)[i] = r[i]
         /\ r[q] = 0 => Incremented(r, q)[q] = 1
         /\ Sane(UpFlags(r, q, f)) /\ UpFlags(r, q, f).cf = f.cf
<1> DEFINE a == (r[q] + 1) % Word
           g == UpFlags(r, q, f)
           s == Incremented(r, q)
<1>1. q \in 0..7
  BY DEF SI, DI
<1>2. Increments(f, r, q, a, g)
  BY DEF Increments, UpFlags
<1>3. s = [r EXCEPT ![q] = a]
  BY DEF Incremented
<1>4. r[q] = 0 => a = 1
  <2>1. 1 % Word = 1
    BY SMT DEF Word, Byte
  <2> QED
    BY <2>1
<1> HIDE DEF a, g, s
<1>5. Sane(g) /\ a \in Words /\ g.cf = f.cf
  BY <1>1, <1>2, SaneIncrement
<1>6. s \in [0..7 -> Words] /\ (\A i \in 0..7 : i # q => s[i] = r[i]) /\ s[q] = a
  BY <1>1, <1>3, <1>5
<1> QED
  BY <1>4, <1>5, <1>6 DEF g, s

LEMMA Compared ==
  ASSUME NEW j, EvenStack(j), CompareCode(j), j.r[SI] = 0, j.r[DI] = 0
  PROVE  LET r == UnsignedRegisters(j)
         IN  /\ r \in [0..7 -> Words] /\ r[SP] = j.r[SP]
             /\ r[SI] = 0 <=> SignedLess(j)
             /\ r[DI] = 0 <=> Condition(2, CompareHigh(j).f)
<1> DEFINE f2 == CompareHigh(j).f
           f3 == SignedFlags(j)
           r0 == j.r
           r2 == ComparedRegisters(j)
           r3 == SignedRegisters(j)
           r4 == UnsignedRegisters(j)
<1>1. SI \in 0..7 /\ DI \in 0..7 /\ SP \in 0..7 /\ DX \in 0..7 /\ SI # DI /\ SI # SP /\ DI # SP /\ DX # SI /\ DX # DI /\ DX # SP
  BY DEF SI, DI, SP, DX
<1>2. r2 \in [0..7 -> Words] /\ r2[SI] = 0 /\ r2[DI] = 0 /\ r2[SP] = r0[SP] /\ Sane(f2)
  <2> DEFINE a == CompareHigh(j).v
  <2>1. r0 \in [0..7 -> Words] /\ a \in Words /\ Sane(f2) /\ r2 = [r0 EXCEPT ![DX] = a]
    BY CompareSecond, JobsAssumption DEF EvenStack, Worked, Words, ComparedRegisters
  <2> HIDE DEF a, f2, r0, r2
  <2>2. r2 \in [0..7 -> Words] /\ \A i \in 0..7 : i # DX => r2[i] = r0[i]
    BY <1>1, <2>1
  <2>3. r0[SI] = 0 /\ r0[DI] = 0
    BY DEF r0
  <2> QED
    BY <1>1, <2>1, <2>2, <2>3
<1>3. /\ SignedLess(j) => r3 = r2 /\ f3 = f2
      /\ ~SignedLess(j) => r3 = Incremented(r2, SI) /\ f3 = UpFlags(r2, SI, f2)
  BY DEF SignedRegisters, SignedFlags
<1>4. /\ Condition(2, f3) => r4 = r3
      /\ ~Condition(2, f3) => r4 = Incremented(r3, DI)
  BY DEF UnsignedRegisters, UnsignedLess
<1>5. Condition(2, f3) <=> f3.cf = 1
  BY DEF Condition
<1>6. Condition(2, f2) <=> f2.cf = 1
  BY DEF Condition
<1> HIDE DEF f2, f3, r2, r3, r4
<1>7. /\ r3 \in [0..7 -> Words] /\ (r3[SI] = 0 <=> SignedLess(j)) /\ r3[DI] = 0 /\ r3[SP] = r0[SP] /\ Sane(f3)
      /\ f3.cf = f2.cf
  <2>1. /\ Incremented(r2, SI) \in [0..7 -> Words] /\ \A i \in 0..7 : i # SI => Incremented(r2, SI)[i] = r2[i]
        /\ Incremented(r2, SI)[SI] = 1 /\ Sane(UpFlags(r2, SI, f2)) /\ UpFlags(r2, SI, f2).cf = f2.cf
    <3> DEFINE q == SI
    <3>1. q \in {SI, DI} /\ r2[q] = 0
      BY <1>2
    <3> HIDE DEF q
    <3>2. /\ Incremented(r2, q) \in [0..7 -> Words] /\ \A i \in 0..7 : i # q => Incremented(r2, q)[i] = r2[i]
          /\ Incremented(r2, q)[q] = 1 /\ Sane(UpFlags(r2, q, f2)) /\ UpFlags(r2, q, f2).cf = f2.cf
      BY <1>2, <3>1, Counted
    <3> QED
      BY <3>2 DEF q
  <2>2. CASE SignedLess(j)
    BY <1>2, <1>3, <2>2
  <2>3. CASE ~SignedLess(j)
    <3>1. r3 = Incremented(r2, SI) /\ f3 = UpFlags(r2, SI, f2)
      BY <1>3, <2>3
    <3>2. /\ r3 \in [0..7 -> Words] /\ r3[SI] = 1 /\ r3[DI] = r2[DI] /\ r3[SP] = r2[SP]
          /\ Sane(f3) /\ f3.cf = f2.cf
      BY <1>1, <2>1, <3>1
    <3> QED
      BY <1>2, <2>3, <3>2
  <2> QED
    BY <2>2, <2>3
<1>8. /\ r4 \in [0..7 -> Words] /\ (r4[DI] = 0 <=> Condition(2, f3)) /\ r4[SI] = r3[SI] /\ r4[SP] = r3[SP]
  <2>1. /\ Incremented(r3, DI) \in [0..7 -> Words] /\ \A i \in 0..7 : i # DI => Incremented(r3, DI)[i] = r3[i]
        /\ Incremented(r3, DI)[DI] = 1
    <3> DEFINE q == DI
    <3>1. q \in {SI, DI} /\ r3[q] = 0
      BY <1>7
    <3> HIDE DEF q
    <3>2. /\ Incremented(r3, q) \in [0..7 -> Words] /\ \A i \in 0..7 : i # q => Incremented(r3, q)[i] = r3[i]
          /\ Incremented(r3, q)[q] = 1
      BY <1>7, <3>1, Counted
    <3> QED
      BY <3>2 DEF q
  <2>2. CASE Condition(2, f3)
    BY <1>4, <1>7, <2>2
  <2>3. CASE ~Condition(2, f3)
    <3>1. r4 = Incremented(r3, DI)
      BY <1>4, <2>3
    <3>2. /\ r4 \in [0..7 -> Words] /\ r4[DI] = 1 /\ r4[SI] = r3[SI] /\ r4[SP] = r3[SP]
      BY <1>1, <2>1, <3>1
    <3> QED
      BY <2>3, <3>2
  <2> QED
    BY <2>2, <2>3
<1> QED
  BY <1>5, <1>6, <1>7, <1>8 DEF r4, r0, f2

\* The two jumps are taken in the order of the double words.
LEMMA ComparedInOrder ==
  ASSUME NEW j, EvenStack(j)
  PROVE  /\ Condition(2, CompareHigh(j).f) <=> Less(j.r[DX], j.r[AX], j.r[CX], j.r[BX])
         /\ ~(j.r[CX] = 32767 /\ j.r[AX] < j.r[BX]) =>
              (SignedLess(j) <=> Less(Signed(j.r[DX], Word), j.r[AX], Signed(j.r[CX], Word), j.r[BX]))
<1> DEFINE f == Load(j).f
           half == 32768
           lo1 == j.r[AX]
           hi1 == j.r[DX]
           lo2 == j.r[BX]
           hi2 == j.r[CX]
           g == CompareLow(j)
           w == Word
<1>1. j.r \in [0..7 -> Words] /\ f \in Flags
  BY JobsAssumption, SaneAtFirst DEF EvenStack, Sane
<1>2. lo1 \in 0..(w - 1) /\ hi1 \in 0..(w - 1) /\ lo2 \in 0..(w - 1) /\ hi2 \in 0..(w - 1)
  BY <1>1 DEF Words, AX, BX, CX, DX
<1>3. half \in Nat \ {0} /\ w \in Nat \ {0} /\ w = 2 * half /\ half - 1 = 32767
  BY SMT DEF Word, Byte
<1>4. g = flag_sub(f, lo1, lo2, w)
  BY DEF CompareLow
<1>5. CompareHigh(j).f = flag_sbb(g, hi1, hi2, g.cf, w)
  BY DEF CompareHigh, Operation, op_sbb
<1>6. g \in Flags
  <2> HIDE DEF f, g, w, lo1, lo2, half
  <2>1. w \in Nat /\ 0 < w /\ lo1 \in Int /\ lo2 \in Int
    BY <1>2, <1>3
  <2>2. flag_sub(f, lo1, lo2, w) \in Flags
    BY <1>1, <2>1, SubOK
  <2> QED
    BY <1>4, <2>2
<1> DEFINE o == CompareHigh(j).f
<1> HIDE DEF f, half, lo1, hi1, lo2, hi2, g, w, o
<1>7. /\ Condition(2, o) <=> hi1 < hi2 \/ (hi1 = hi2 /\ lo1 < lo2)
      /\ ~(hi2 = half - 1 /\ lo1 < lo2) =>
              (Condition(12, o) <=>
                 \/ Signed(hi1, w) < Signed(hi2, w)
                 \/ Signed(hi1, w) = Signed(hi2, w) /\ lo1 < lo2)
  <2>1. /\ Condition(2, flag_sbb(g, hi1, hi2, g.cf, w)) <=> hi1 < hi2 \/ (hi1 = hi2 /\ lo1 < lo2)
        /\ ~(hi2 = half - 1 /\ lo1 < lo2) =>
              (Condition(12, flag_sbb(g, hi1, hi2, g.cf, w)) <=>
                 \/ Signed(hi1, w) < Signed(hi2, w)
                 \/ Signed(hi1, w) = Signed(hi2, w) /\ lo1 < lo2)
    <3>1. f \in Flags /\ g \in Flags /\ g = flag_sub(f, lo1, lo2, w) /\ Halved(w, half)
      BY <1>1, <1>3, <1>4, <1>6 DEF Halved
    <3>2. lo1 \in 0..(w - 1) /\ hi1 \in 0..(w - 1) /\ lo2 \in 0..(w - 1) /\ hi2 \in 0..(w - 1)
      BY <1>2
    <3> QED
      BY <3>1, <3>2, LongCompareFindsOrder
  <2> QED
    BY <1>5, <2>1 DEF o
<1> QED
  BY <1>3, <1>7 DEF Less, SignedLess, lo1, lo2, hi1, hi2, w, o

-----------------------------------------------------------------------------
\* PUSHF and POPF in a program.
LEMMA SaneComesBack ==
  ASSUME NEW g, Sane(g)
  PROVE  decodeflags(makeflags(g)) = g
<1>1. g \in Flags /\ g.ac = 0 /\ g.of \in 0..1
  BY DEF Sane
<1>2. ASSUME NEW b \in FlagNames
      PROVE  g[b] \in 0..3 /\ (b = "iopl" \/ g[b] < 2)
  <2>1. CASE b = "iopl"
    BY <1>1, <2>1 DEF Flags
  <2>2. CASE b = "of"
    BY <1>1, <2>2
  <2>3. CASE b \notin {"iopl", "of"}
    BY <1>1, <2>3 DEF Flags
  <2> QED
    BY <2>1, <2>2, <2>3
<1>3. g \in [FlagNames -> Octets]
  BY <1>1 DEF Flags
<1>4. /\ g \in [FlagNames -> 0..3]
      /\ \A b \in FlagNames : b = "iopl" \/ g[b] < 2
  BY <1>2, <1>3
<1> QED
  BY <1>1, <1>4, FlagsSurviveTheStack

MovesFlags(op) == op \in {156, 157}

OnTop(j, r) == [r EXCEPT ![SP] = Slot(Load(j), 1)]

\* The machine at the byte behind an instruction of one byte.
LEMMA OneByte ==
  ASSUME NEW j, EvenStack(j), NEW y, NEW i \in Nat, NEW r, NEW f, NEW k, NEW v, Stands(y, j, i, r, f, k, v),
         NEW op, MovesFlags(op), Has(j, i, op)
  PROVE  LET n == Fetch(y)
         IN  /\ Reads(n, y, j, i + 1) /\ Execute(y) = FlagMoves(n, op) /\ n.r = r /\ n.f = f /\ n.h = j.h
             /\ n.ip = i + 1 /\ InRAM(n) /\ Awake(n) /\ Running(n) /\ Sane(f) /\ n.s = Segments /\ n.mem = y.mem
<1> DEFINE n == Fetch(y)
           l == i + 1
           z == Execute(y)
<1>1. op \in 64..159 /\ op \notin DOMAIN PrefixOf /\ ExecuteMiddle(n, op) = FlagMoves(n, op)
  BY DEF PrefixOf, ExecuteMiddle, MovesFlags
<1>2. i \in Nat /\ i < Len(Code[j.task]) /\ Code[j.task][i + 1] = op
  BY DEF Has
<1> HIDE DEF n, l, z
<1>3. /\ Reads(y, y, j, i) /\ y.r = r /\ y.f = f /\ Sane(f) /\ y.hlt = FALSE
      /\ y.exited = FALSE /\ StackInRAM(y)
  <2>1. Stands(y, j, i, r, f, k, v)
    OBVIOUS
  <2>2. Reads(y, y, j, i) /\ y.r = r /\ y.f = f /\ Sane(f)
    BY <2>1, ReadsAt
  <2>3. y.hlt = FALSE /\ y.exited = FALSE /\ StackInRAM(y)
    BY <2>1, ReadsAt
  <2> QED
    BY <2>2, <2>3
<1>4. y.h = j.h
  BY DEF Stands
<1>5. Reads(n, y, j, l) /\ z = ExecuteMiddle(n, op)
  <2>1. /\ i < Len(Code[j.task]) /\ Reads(y, y, j, i)
        /\ Code[j.task][i + 1] \notin DOMAIN PrefixOf /\ Code[j.task][i + 1] \in 64..159
    BY <1>1, <1>2, <1>3
  <2>2. /\ Reads(Fetch(y), y, j, i + 1)
        /\ Execute(y) = ExecuteMiddle(Fetch(y), Code[j.task][i + 1])
    BY <1>2, <2>1, Opcode
  <2> QED
    BY <1>2, <2>2 DEF n, l, z
<1>6. /\ n.r = r /\ n.f = f /\ n.h = j.h /\ n.ip = l /\ MachineOK(n) /\ n.s = Segments /\ n.mem = y.mem
      /\ n.hlt = FALSE /\ n.exited = FALSE /\ y.s = Segments
  BY <1>3, <1>4, <1>5 DEF Reads
<1>7. StackInRAM(n)
  BY <1>3, <1>6 DEF StackInRAM
<1> QED
  BY <1>1, <1>3, <1>5, <1>6, <1>7 DEF n, l, z, InRAM, Awake, Running

LEMMA FlagsPushed ==
  ASSUME NEW j, EvenStack(j), NEW i \in Nat, Has(j, i, 156), NEW r, NEW f
  PROVE  Leads(j, i, r, f, 0, <<>>, i + 1, OnTop(j, r), f, 1, <<makeflags(f)>>)
<1> DEFINE k == 0
           v == <<>>
           l == i + 1
           v2 == <<makeflags(f)>>
<1> HIDE DEF k, v, l, v2
<1> SUFFICES ASSUME NEW y, Stands(y, j, i, r, f, k, v), MachineOK(Execute(y))
             PROVE  Stands(Execute(y), j, l, OnTop(j, r), f, 1, v2)
  BY DEF Leads, k, v, l, v2
<1> DEFINE n == Fetch(y)
           z == Execute(y)
           x == Load(j)
           u == makeflags(f)
           op == 156
<1>1. MovesFlags(op) /\ Has(j, i, op) /\ FlagMoves(n, op) = push16(n, makeflags(n.f))
  BY DEF FlagMoves, MovesFlags
<1> HIDE DEF n, z, x, u, op
<1>2. /\ Reads(n, y, j, l) /\ z = FlagMoves(n, op) /\ n.r = r /\ n.f = f /\ n.h = j.h
      /\ n.ip = l /\ InRAM(n) /\ Awake(n) /\ Running(n) /\ Sane(f) /\ n.s = Segments /\ n.mem = y.mem
  BY <1>1, OneByte DEF n, l, z
<1>3. u \in Words
  BY <1>2, MadeOK DEF Sane, u
<1>4. z = push16(n, u)
  BY <1>1, <1>2 DEF u
<1>5. Pushed(z, n, 2) /\ StackWord(z, Below(n, 2)) = u
  <2> DEFINE q == 0
  <2>1. q \in 0..20 /\ 2 * q = 0 /\ 2 * (q + 1) = 2
    OBVIOUS
  <2> HIDE DEF q
  <2>2. MachineOK(n) /\ StackInRAM(n)
    BY <1>2 DEF InRAM
  <2>3. Pushed(n, n, 2 * q)
    BY <2>1, <2>2, PushedNothing
  <2>4. Pushed(push16(n, u), n, 2 * (q + 1)) /\ StackWord(push16(n, u), Below(n, 2 * (q + 1))) = u
    BY <1>3, <2>1, <2>2, <2>3, PushMore
  <2> QED
    BY <1>4, <2>1, <2>4
<1>6. z.ip = l
  BY <1>2, <1>3, <1>4, PushParts, ZenonT(60) DEF InRAM
<1>7. /\ SameBut(y, x, Area(j)) /\ y.r[SP] = Slot(x, 0) /\ y.r = r /\ MachineOK(x) /\ StackInRAM(x)
      /\ x.s = Segments
  BY LoadStack DEF Stands, OnStack, k, x
<1>8. r[SP] = x.r[SP]
  BY <1>7, SlotZero DEF InRAM
<1>9. \A d : Below(n, d) = Below(x, d) /\ Frame(n, d) = Frame(x, d)
  BY <1>2, <1>7, <1>8 DEF Below, Frame
<1>10. Slot(x, 1) = Below(x, 2)
  BY DEF Slot
<1>11. /\ z.r = OnTop(j, r) /\ z.s = Segments /\ z.f = f /\ z.h = j.h /\ Interruptible(z) /\ Awake(z) /\ Running(z)
  <2>1. z.r = OnTop(j, r) /\ z.s = Segments
    BY <1>2, <1>5, <1>9, <1>10 DEF Pushed, OnTop, x
  <2>2. MachineOK(z) /\ StackInRAM(z) /\ Rest(z, n)
    BY <1>5 DEF Pushed
  <2>3. z.f = f /\ z.h = j.h /\ z.hlt = n.hlt /\ z.exited = n.exited
    BY <1>2, <2>2 DEF Rest
  <2>4. f.ac = 0 /\ f.of \in 0..1
    BY <1>2 DEF Sane
  <2>5. Interruptible(z)
    BY <2>2, <2>3, <2>4 DEF Interruptible
  <2>6. Awake(z) /\ Running(z)
    BY <1>2, <2>3 DEF Awake, Running
  <2> QED
    BY <2>1, <2>3, <2>5, <2>6
<1>12. OnStack(z, j, 1, v2)
  <2>1. r \in [0..7 -> Words] /\ SP \in 0..7
    BY <1>2, Parts, Names DEF InRAM
  <2>2. z.r[SP] = Slot(x, 1)
    BY <1>11, <2>1 DEF OnTop, x
  <2>3. StackWord(z, Slot(x, 1)) = v2[1]
    BY <1>5, <1>9, <1>10 DEF v2, u
  <2>4. \A q \in Nat : 1 <= q /\ q <= 1 => q = 1
    OBVIOUS
  <2> QED
    BY <2>2, <2>3, <2>4 DEF OnStack, x
<1>13. SameBut(z, x, Area(j))
  <2>1. SUFFICES ASSUME NEW b, b \notin Area(j)
                 PROVE  cell(z, b) = cell(x, b)
    BY DEF SameBut
  <2>2. Frame(x, 2) \subseteq Frame(x, 60)
    BY DEF Frame
  <2>3. b \notin Frame(n, 2)
    BY <1>9, <2>1, <2>2 DEF Area, x
  <2>4. cell(z, b) = cell(n, b)
    BY <1>5, <2>3 DEF Pushed
  <2>5. cell(n, b) = cell(y, b)
    BY <1>2 DEF cell
  <2> QED
    BY <1>7, <2>1, <2>4, <2>5 DEF SameBut
<1> QED
  BY <1>6, <1>11, <1>12, <1>13 DEF Stands, z, x

LEMMA FlagsPopped ==
  ASSUME NEW j, EvenStack(j), NEW i \in Nat, Has(j, i, 157), NEW r, NEW f, NEW g, Sane(g)
  PROVE  Leads(j, i, r, f, 1, <<makeflags(g)>>, i + 1, [r EXCEPT ![SP] = j.r[SP]], g, 0, <<>>)
<1> DEFINE k == 1
           v == <<makeflags(g)>>
           l == i + 1
           r2 == [r EXCEPT ![SP] = j.r[SP]]
           v2 == <<>>
<1> HIDE DEF k, v, l, r2, v2
<1> SUFFICES ASSUME NEW y, Stands(y, j, i, r, f, k, v), MachineOK(Execute(y))
             PROVE  Stands(Execute(y), j, l, r2, g, 0, v2)
  BY DEF Leads, k, v, l, r2, v2
<1> DEFINE n == Fetch(y)
           z == Execute(y)
           x == Load(j)
           d == Drop(n)
           op == 157
<1>1. MovesFlags(op) /\ Has(j, i, op) /\ FlagMoves(n, op) = SetF(d, decodeflags(Top(n)))
  BY DEF FlagMoves, MovesFlags
<1> HIDE DEF n, z, x, d, op
<1>2. /\ Reads(n, y, j, l) /\ z = FlagMoves(n, op) /\ n.r = r /\ n.f = f /\ n.h = j.h
      /\ n.ip = l /\ InRAM(n) /\ Awake(n) /\ Running(n) /\ Sane(f) /\ n.s = Segments /\ n.mem = y.mem
  BY <1>1, OneByte DEF n, l, z
<1>3. /\ SameBut(y, x, Area(j)) /\ OnStack(y, j, k, v) /\ y.r = r /\ MachineOK(x) /\ StackInRAM(x)
      /\ x.s = Segments /\ x.r = j.r /\ y.s = Segments
  BY LoadStack DEF Stands, x
<1>4. r[SP] = Slot(x, 1) /\ StackWord(y, Slot(x, 1)) = makeflags(g)
  BY <1>3 DEF OnStack, x, k, v
<1>5. StackWord(n, r[SP]) = makeflags(g)
  BY <1>2, <1>3, <1>4 DEF StackWord, Read16Unsafe, cell
<1>6. /\ Top(n) = StackWord(n, n.r[SP]) /\ MachineOK(d) /\ d.s = n.s /\ d.mem = n.mem
      /\ d.ip = n.ip /\ d.f = n.f /\ Rest(d, n) /\ d.r = [n.r EXCEPT ![SP] = (n.r[SP] + 2) % Word]
  BY <1>2, PopParts DEF InRAM, d
<1>7. (Slot(x, 1) + 2) % Word = x.r[SP]
  <2> DEFINE q == 0
  <2>1. q \in Nat /\ q <= 20 /\ q + 1 = 1
    OBVIOUS
  <2> HIDE DEF q
  <2>2. (Slot(x, q + 1) + 2) % Word = Slot(x, q)
    BY <1>3, <2>1, SlotAbove
  <2>3. Slot(x, q) = x.r[SP]
    BY <1>3, SlotZero DEF InRAM, q
  <2> QED
    BY <2>1, <2>2, <2>3
<1>8. d.r = r2
  BY <1>2, <1>3, <1>4, <1>6, <1>7 DEF r2
<1>9. z = [d EXCEPT !.f = g]
  BY <1>1, <1>2, <1>5, <1>6, SaneComesBack DEF SetF
<1>10. /\ z.r = r2 /\ z.f = g /\ z.s = Segments /\ z.h = j.h /\ z.ip = l /\ z.mem = y.mem
       /\ z.hlt = FALSE /\ z.exited = FALSE
  BY <1>2, <1>6, <1>8, <1>9, Fields DEF MachineOK, Rest, Awake, Running
<1>11. MachineOK(z)
  BY DEF z
<1>12. r2[SP] = x.r[SP]
  BY <1>2, <1>3, Parts, Names DEF r2, InRAM
<1>13. Interruptible(z)
  BY <1>3, <1>10, <1>11, <1>12 DEF Interruptible, StackInRAM, Sane
<1>14. OnStack(z, j, 0, v2)
  <2>1. \A q \in Nat : ~(1 <= q /\ q <= 0)
    OBVIOUS
  <2>2. Slot(x, 0) = x.r[SP]
    BY <1>3, SlotZero DEF InRAM
  <2> QED
    BY <1>10, <1>12, <2>1, <2>2 DEF OnStack, x
<1>15. SameBut(z, x, Area(j))
  BY <1>3, <1>10 DEF SameBut, cell
<1> QED
  BY <1>10, <1>13, <1>14, <1>15 DEF Stands, z, x, Awake, Running

-----------------------------------------------------------------------------
\* ADD, ADC, SBB and SUB of two registers of a word.
WordSum(op) == op \in {1, 17, 25, 41}
Sum(op, f, r, rm, reg, o) == o = Operation(op \div 8, f, r[rm], r[reg], Word)
Places(r, rm) == r \in [0..7 -> Words] /\ rm # SP

LEMMA WordsSummed ==
  ASSUME NEW j, EvenStack(j), NEW i \in Nat, NEW op, Has(j, i, op), WordSum(op),
         NEW reg, NEW rm, NEW b, Has(j, i + 1, b), Registers(b, reg, rm),
         NEW r, Places(r, rm), NEW f, Sane(f), NEW k, NEW v, NEW o, Sum(op, f, r, rm, reg, o)
  PROVE  /\ Leads(j, i, r, f, k, v, i + 2, [r EXCEPT ![rm] = o.v], o.f, k, v)
         /\ Worked(o, Word) /\ Places([r EXCEPT ![rm] = o.v], rm)
<1> DEFINE g == o.f
           a == o.v
           r2 == [r EXCEPT ![rm] = a]
           n == op \div 8
           x == r[rm]
           y == r[reg]
<1>1. Alu(op) /\ Size(op) = Word /\ Sums(n)
  <2>1. /\ 1 \div 8 = 0 /\ 17 \div 8 = 2 /\ 25 \div 8 = 3 /\ 41 \div 8 = 5
        /\ 1 % 2 = 1 /\ 17 % 2 = 1 /\ 25 % 2 = 1 /\ 41 % 2 = 1
    OBVIOUS
  <2> QED
    BY <2>1 DEF WordSum, Alu, Size, Sums
<1>2. r \in [0..7 -> Words] /\ rm \in 0..7 /\ reg \in 0..7 /\ rm # SP /\ SP \in 0..7
  BY DEF Places, Registers, SP
<1>3. x \in 0 .. Word - 1 /\ y \in 0 .. Word - 1 /\ Word \in {Byte, Word}
  BY <1>2 DEF Words
<1>4. o = Operation(n, f, x, y, Word)
  BY DEF Sum
<1> HIDE DEF g, a, r2, n, x, y
<1>5. Worked(o, Word)
  BY <1>1, <1>3, <1>4, SaneOperation
<1>6. Sane(g) /\ a \in Words /\ o = [v |-> a, f |-> g]
  BY <1>5 DEF Worked, Words, g, a
<1>7. GetR(r, rm, Word) = x /\ GetR(r, reg, Word) = y
  BY Sizes DEF GetR, x, y
<1>8. Yields(op, f, r, rm, reg, Size(op), a, g)
  BY <1>1, <1>4, <1>6, <1>7 DEF Yields, n
<1>9. r2 \in [0..7 -> Words] /\ r2[SP] = r[SP]
  BY <1>2, <1>6 DEF r2
<1>10. Stored(r2, r, rm, Size(op), a)
  BY <1>1, <1>9, Sizes DEF Stored, PutR, r2
<1>11. Leads(j, i, r, f, k, v, i + 2, r2, g, k, v)
  BY <1>1, <1>6, <1>8, <1>10, AluStored
<1> QED
  BY <1>2, <1>5, <1>9, <1>11 DEF r2, g, a, Places

-----------------------------------------------------------------------------
\* ADD AX,BX; ADC DX,CX; PUSHF; SUB AX,BX; SBB DX,CX; POPF.
SumLow(j) == Operation(0, Load(j).f, j.r[AX], j.r[BX], Word)
SumHigh(j) == Operation(2, SumLow(j).f, j.r[DX], j.r[CX], Word)
BackLow(j) == Operation(5, SumHigh(j).f, SumLow(j).v, j.r[BX], Word)
BackHigh(j) == Operation(3, BackLow(j).f, SumHigh(j).v, j.r[CX], Word)

LowSummed(j) == [j.r EXCEPT ![AX] = SumLow(j).v]
Summed(j) == [LowSummed(j) EXCEPT ![DX] = SumHigh(j).v]
LowBack(j) == [OnTop(j, Summed(j)) EXCEPT ![AX] = BackLow(j).v]
BothBack(j) == [LowBack(j) EXCEPT ![DX] = BackHigh(j).v]

SumWay(j) ==
  LET v == <<makeflags(SumHigh(j).f)>>
  IN  {Begin(j), Point(2, LowSummed(j), SumLow(j).f, 0, <<>>), Point(4, Summed(j), SumHigh(j).f, 0, <<>>),
       Point(5, OnTop(j, Summed(j)), SumHigh(j).f, 1, v), Point(7, LowBack(j), BackLow(j).f, 1, v),
       Point(9, BothBack(j), BackHigh(j).f, 1, v), Point(10, j.r, SumHigh(j).f, 0, <<>>)}

SumCode(j) ==
  /\ Has(j, 0, 1) /\ Has(j, 1, 216) /\ Has(j, 2, 17) /\ Has(j, 3, 202) /\ Has(j, 4, 156)
  /\ Has(j, 5, 41) /\ Has(j, 6, 216) /\ Has(j, 7, 25) /\ Has(j, 8, 202) /\ Has(j, 9, 157)
  /\ Has(j, 10, 205) /\ Has(j, 11, 32)

LEMMA SummedUp ==
  ASSUME NEW j, EvenStack(j), SumCode(j)
  PROVE  /\ Plainly(j, 0, j.r, Load(j).f, 2, LowSummed(j), SumLow(j).f)
         /\ Plainly(j, 2, LowSummed(j), SumLow(j).f, 4, Summed(j), SumHigh(j).f)
         /\ Worked(SumLow(j), Word) /\ Worked(SumHigh(j), Word) /\ Summed(j) \in [0..7 -> Words]
<1> DEFINE f == Load(j).f
           r == j.r
           o1 == SumLow(j)
           o2 == SumHigh(j)
           r1 == LowSummed(j)
           r2 == Summed(j)
           k == 0
           v == <<>>
<1>1. Sane(f) /\ r \in [0..7 -> Words]
  BY SaneAtFirst, JobsAssumption DEF EvenStack
<1> HIDE DEF f, r, o1, o2, r1, r2, k, v
<1>2. Leads(j, 0, r, f, k, v, 2, r1, o1.f, k, v) /\ Worked(o1, Word) /\ Places(r1, AX)
  <2> DEFINE i == 0
             op == 1
             reg == BX
             rm == AX
             b == 216
  <2>1. /\ i \in Nat /\ i + 2 = 2 /\ Has(j, i, op) /\ Has(j, i + 1, b) /\ WordSum(op) /\ Registers(b, reg, rm)
    BY DEF SumCode, WordSum, Registers, AX, BX
  <2>2. Places(r, rm) /\ Sum(op, f, r, rm, reg, o1) /\ r1 = [r EXCEPT ![rm] = o1.v]
    <3>1. op \div 8 = 0
      OBVIOUS
    <3>2. AX # SP
      BY DEF AX, SP
    <3> QED
      BY <1>1, <3>1, <3>2 DEF Places, Sum, SumLow, LowSummed, f, r, o1, r1
  <2> HIDE DEF i, op, reg, rm, b
  <2>3. /\ Leads(j, i, r, f, k, v, i + 2, [r EXCEPT ![rm] = o1.v], o1.f, k, v)
        /\ Worked(o1, Word) /\ Places([r EXCEPT ![rm] = o1.v], rm)
    BY <1>1, <2>1, <2>2, WordsSummed
  <2> QED
    BY <2>1, <2>2, <2>3 DEF i, rm
<1>3. r1[DX] = r[DX] /\ r1[CX] = r[CX]
  BY <1>1 DEF LowSummed, r1, r, AX, DX, CX
<1>4. Leads(j, 2, r1, o1.f, k, v, 4, r2, o2.f, k, v) /\ Worked(o2, Word) /\ Places(r2, DX)
  <2> DEFINE i == 2
             op == 17
             reg == CX
             rm == DX
             b == 202
             g == o1.f
  <2>1. /\ i \in Nat /\ i + 2 = 4 /\ Has(j, i, op) /\ Has(j, i + 1, b) /\ WordSum(op) /\ Registers(b, reg, rm)
    BY DEF SumCode, WordSum, Registers, CX, DX
  <2>2. Places(r1, rm) /\ Sum(op, g, r1, rm, reg, o2) /\ r2 = [r1 EXCEPT ![rm] = o2.v] /\ Sane(g)
    <3>1. op \div 8 = 2
      OBVIOUS
    <3>2. DX # SP
      BY DEF DX, SP
    <3> QED
      BY <1>2, <1>3, <3>1, <3>2 DEF Places, Sum, SumHigh, Summed, Worked, r, o1, o2, r1, r2
  <2> HIDE DEF i, op, reg, rm, b, g
  <2>3. /\ Leads(j, i, r1, g, k, v, i + 2, [r1 EXCEPT ![rm] = o2.v], o2.f, k, v)
        /\ Worked(o2, Word) /\ Places([r1 EXCEPT ![rm] = o2.v], rm)
    BY <2>1, <2>2, WordsSummed
  <2> QED
    BY <2>1, <2>2, <2>3 DEF i, rm, g
<1> QED
  BY <1>2, <1>4 DEF Plainly, Places, f, r, o1, o2, r1, r2, k, v

LEMMA TakenBack ==
  ASSUME NEW j, EvenStack(j), SumCode(j), NEW v
  PROVE  /\ Leads(j, 5, OnTop(j, Summed(j)), SumHigh(j).f, 1, v, 7, LowBack(j), BackLow(j).f, 1, v)
         /\ Leads(j, 7, LowBack(j), BackLow(j).f, 1, v, 9, BothBack(j), BackHigh(j).f, 1, v)
         /\ Worked(BackLow(j), Word) /\ Worked(BackHigh(j), Word)
<1> DEFINE f == SumHigh(j).f
           s == Summed(j)
           r == OnTop(j, s)
           o1 == BackLow(j)
           o2 == BackHigh(j)
           r1 == LowBack(j)
           r2 == BothBack(j)
           k == 1
<1>0. Sane(f) /\ s \in [0..7 -> Words]
  BY SummedUp DEF Worked
<1>1. r \in [0..7 -> Words]
  <2>1. Slot(Load(j), 1) \in Words
    BY LoadStack, BelowEven DEF Slot, Evens
  <2> QED
    BY <1>0, <2>1 DEF OnTop
<1>2. r[AX] = SumLow(j).v /\ r[DX] = SumHigh(j).v /\ r[BX] = j.r[BX] /\ r[CX] = j.r[CX]
  <2>1. j.r \in [0..7 -> Words] /\ SumLow(j).v \in Words /\ SumHigh(j).v \in Words
    BY SummedUp, JobsAssumption DEF EvenStack, Worked, Words
  <2> QED
    BY <2>1 DEF OnTop, Summed, LowSummed, AX, BX, CX, DX, SP
<1> HIDE DEF f, s, r, o1, o2, r1, r2, k
<1>3. Leads(j, 5, r, f, k, v, 7, r1, o1.f, k, v) /\ Worked(o1, Word) /\ Places(r1, AX)
  <2> DEFINE i == 5
             op == 41
             reg == BX
             rm == AX
             b == 216
  <2>1. /\ i \in Nat /\ i + 2 = 7 /\ Has(j, i, op) /\ Has(j, i + 1, b) /\ WordSum(op) /\ Registers(b, reg, rm)
    BY DEF SumCode, WordSum, Registers, AX, BX
  <2>2. Places(r, rm) /\ Sum(op, f, r, rm, reg, o1) /\ r1 = [r EXCEPT ![rm] = o1.v]
    <3>1. op \div 8 = 5
      OBVIOUS
    <3>2. AX # SP
      BY DEF AX, SP
    <3> QED
      BY <1>1, <1>2, <3>1, <3>2 DEF Places, Sum, BackLow, LowBack, f, s, r, o1, r1
  <2> HIDE DEF i, op, reg, rm, b
  <2>3. /\ Leads(j, i, r, f, k, v, i + 2, [r EXCEPT ![rm] = o1.v], o1.f, k, v)
        /\ Worked(o1, Word) /\ Places([r EXCEPT ![rm] = o1.v], rm)
    BY <1>0, <2>1, <2>2, WordsSummed
  <2> QED
    BY <2>1, <2>2, <2>3 DEF i, rm
<1>4. r1[DX] = r[DX] /\ r1[CX] = r[CX]
  BY <1>1 DEF LowBack, r1, r, s, AX, DX, CX
<1>5. Leads(j, 7, r1, o1.f, k, v, 9, r2, o2.f, k, v) /\ Worked(o2, Word)
  <2> DEFINE i == 7
             op == 25
             reg == CX
             rm == DX
             b == 202
             g == o1.f
  <2>1. /\ i \in Nat /\ i + 2 = 9 /\ Has(j, i, op) /\ Has(j, i + 1, b) /\ WordSum(op) /\ Registers(b, reg, rm)
    BY DEF SumCode, WordSum, Registers, CX, DX
  <2>2. Places(r1, rm) /\ Sum(op, g, r1, rm, reg, o2) /\ r2 = [r1 EXCEPT ![rm] = o2.v] /\ Sane(g)
    <3>1. op \div 8 = 3
      OBVIOUS
    <3>2. DX # SP
      BY DEF DX, SP
    <3> QED
      BY <1>2, <1>3, <1>4, <3>1, <3>2 DEF Places, Sum, BackHigh, BothBack, Worked, o1, o2, r1, r2
  <2> HIDE DEF i, op, reg, rm, b, g
  <2>3. /\ Leads(j, i, r1, g, k, v, i + 2, [r1 EXCEPT ![rm] = o2.v], o2.f, k, v)
        /\ Worked(o2, Word)
    BY <2>1, <2>2, WordsSummed
  <2> QED
    BY <2>1, <2>2, <2>3 DEF i, rm, g
<1> QED
  BY <1>3, <1>5 DEF f, s, r, o1, o2, r1, r2, k

\* The first number is back, and the carry is that of the sum.
LEMMA SumIsBack ==
  ASSUME NEW j, EvenStack(j), SumCode(j)
  PROVE  /\ [BothBack(j) EXCEPT ![SP] = j.r[SP]] = j.r
         /\ SumHigh(j).f.cf = Bool(j.r[DX] + j.r[CX] + ((j.r[AX] + j.r[BX]) \div Word) >= Word)
<1> DEFINE f == Load(j).f
           w == Word
           lo1 == j.r[AX]
           hi1 == j.r[DX]
           lo2 == j.r[BX]
           hi2 == j.r[CX]
           lo == SumLow(j)
           hi == SumHigh(j)
           low == BackLow(j)
           high == BackHigh(j)
<1>1. f \in Flags /\ j.r \in [0..7 -> Words] /\ w \in Nat \ {0}
  BY SaneAtFirst, JobsAssumption, Sizes DEF EvenStack, Sane
<1>2. lo1 \in 0..(w - 1) /\ hi1 \in 0..(w - 1) /\ lo2 \in 0..(w - 1) /\ hi2 \in 0..(w - 1)
  BY <1>1, SMTT(30) DEF Words, AX, BX, CX, DX
<1>3. /\ lo = op_add(f, lo1, lo2, w) /\ hi = op_adc(lo.f, hi1, hi2, w)
      /\ low = op_sub(hi.f, lo.v, lo2, w) /\ high = op_sbb(low.f, hi.v, hi2, w)
  <2>1. \A g, a, b : /\ Operation(0, g, a, b, w) = op_add(g, a, b, w) /\ Operation(2, g, a, b, w) = op_adc(g, a, b, w)
                     /\ Operation(5, g, a, b, w) = op_sub(g, a, b, w) /\ Operation(3, g, a, b, w) = op_sbb(g, a, b, w)
    BY DEF Operation
  <2> HIDE DEF w
  <2>2. lo = op_add(f, lo1, lo2, w)
    BY <2>1 DEF SumLow, w
  <2>3. hi = op_adc(lo.f, hi1, hi2, w)
    BY <2>1 DEF SumHigh, w
  <2>4. low = op_sub(hi.f, lo.v, lo2, w)
    BY <2>1 DEF BackLow, w
  <2>5. high = op_sbb(low.f, hi.v, hi2, w)
    BY <2>1 DEF BackHigh, w
  <2> QED
    BY <2>2, <2>3, <2>4, <2>5
<1> HIDE DEF f, w, lo1, hi1, lo2, hi2, lo, hi, low, high
<1>4. /\ hi.f.cf = Bool(hi1 + hi2 + ((lo1 + lo2) \div w) >= w)
      /\ low.v = lo1 /\ high.v = hi1
  <2>1. f \in Flags /\ w \in Nat \ {0}
    BY <1>1
  <2>2. LET l1 == op_add(f, lo1, lo2, w)
            h1 == op_adc(l1.f, hi1, hi2, w)
            l2 == op_sub(h1.f, l1.v, lo2, w)
            h2 == op_sbb(l2.f, h1.v, hi2, w)
        IN  /\ h1.f.cf = Bool(hi1 + hi2 + ((lo1 + lo2) \div w) >= w)
            /\ l2.v = lo1 /\ h2.v = hi1
    BY <1>2, <2>1, LongSumTakenBack
  <2> QED
    BY <1>3, <2>2
<1>5. [BothBack(j) EXCEPT ![SP] = j.r[SP]] = j.r
  <2> DEFINE r == j.r
             a == lo.v
             b == hi.v
             c == low.v
             d == high.v
             s == Slot(Load(j), 1)
             e == r[SP]
  <2>1. /\ BothBack(j) = [[[[[r EXCEPT ![AX] = a] EXCEPT ![DX] = b] EXCEPT ![SP] = s] EXCEPT ![AX] = c] EXCEPT ![DX] = d]
        /\ r \in [0..7 -> Words] /\ c = r[AX] /\ d = r[DX]
    BY <1>1, <1>4 DEF BothBack, LowBack, OnTop, Summed, LowSummed, lo, hi, low, high, lo1, hi1
  <2>2. AX \in 0..7 /\ DX \in 0..7 /\ SP \in 0..7 /\ AX # DX /\ AX # SP /\ DX # SP
    BY DEF AX, DX, SP
  <2> HIDE DEF r, a, b, c, d, s, e
  <2>3. [BothBack(j) EXCEPT ![SP] = e] = r
    BY <2>1, <2>2 DEF e
  <2> QED
    BY <2>3 DEF r, e
<1> QED
  BY <1>4, <1>5 DEF hi, hi1, hi2, lo1, lo2, w

LEMMA SumStep ==
  ASSUME NEW j, EvenStack(j), SumCode(j)
  PROVE  Sound(j, SumWay(j))
<1> DEFINE f0 == Load(j).f
           f1 == SumLow(j).f
           f2 == SumHigh(j).f
           f3 == BackLow(j).f
           f4 == BackHigh(j).f
           r0 == j.r
           r1 == LowSummed(j)
           r2 == Summed(j)
           r3 == OnTop(j, r2)
           r4 == LowBack(j)
           r5 == BothBack(j)
           v == <<makeflags(f2)>>
           e == <<>>
           p0 == Begin(j)
           p1 == Point(2, r1, f1, 0, e)
           p2 == Point(4, r2, f2, 0, e)
           p3 == Point(5, r3, f2, 1, v)
           p4 == Point(7, r4, f3, 1, v)
           p5 == Point(9, r5, f4, 1, v)
           p6 == Point(10, r0, f2, 0, e)
<1>1. /\ Leads(j, 0, r0, f0, 0, e, 2, r1, f1, 0, e) /\ Leads(j, 2, r1, f1, 0, e, 4, r2, f2, 0, e) /\ Sane(f2)
  BY SummedUp DEF Plainly, Worked
<1>2. Leads(j, 4, r2, f2, 0, e, 5, r3, f2, 1, v)
  <2> DEFINE i == 4
  <2>1. i \in Nat /\ i + 1 = 5 /\ Has(j, i, 156)
    BY DEF SumCode
  <2> HIDE DEF i, f2, r2
  <2>2. Leads(j, i, r2, f2, 0, <<>>, i + 1, OnTop(j, r2), f2, 1, <<makeflags(f2)>>)
    BY <2>1, FlagsPushed
  <2> QED
    BY <2>1, <2>2 DEF i
<1>3. Leads(j, 5, r3, f2, 1, v, 7, r4, f3, 1, v) /\ Leads(j, 7, r4, f3, 1, v, 9, r5, f4, 1, v)
  <2> HIDE DEF v
  <2> QED
    BY TakenBack
<1>4. Leads(j, 9, r5, f4, 1, v, 10, r0, f2, 0, e)
  <2> DEFINE i == 9
  <2>1. i \in Nat /\ i + 1 = 10 /\ Has(j, i, 157)
    BY DEF SumCode
  <2>2. [r5 EXCEPT ![SP] = j.r[SP]] = r0
    BY SumIsBack
  <2> HIDE DEF i, f2, f4, r5
  <2>3. Leads(j, i, r5, f4, 1, <<makeflags(f2)>>, i + 1, [r5 EXCEPT ![SP] = j.r[SP]], f2, 0, <<>>)
    BY <1>1, <2>1, FlagsPopped
  <2> QED
    BY <2>1, <2>2, <2>3 DEF i
<1>5. p0 = Point(0, r0, f0, 0, e)
  BY DEF Begin
<1> HIDE DEF f0, f1, f2, f3, f4, r0, r1, r2, r3, r4, r5, v, e
<1>6. /\ LeadsTo(j, p0, p1) /\ LeadsTo(j, p1, p2) /\ LeadsTo(j, p2, p3) /\ LeadsTo(j, p3, p4)
      /\ LeadsTo(j, p4, p5) /\ LeadsTo(j, p5, p6)
  BY <1>1, <1>2, <1>3, <1>4, <1>5 DEF LeadsTo, Point
<1>7. Final(j, p6)
  BY DEF Final, Point, SumCode
<1>8. Small(p0) /\ Small(p1) /\ Small(p2) /\ Small(p3) /\ Small(p4) /\ Small(p5) /\ Small(p6)
  BY DEF Small, Point, Begin
<1>9. SumWay(j) = {p0, p1, p2, p3, p4, p5, p6}
  BY DEF SumWay, f1, f2, f3, f4, r0, r1, r2, r3, r4, r5, v, e
<1> HIDE DEF p0, p1, p2, p3, p4, p5, p6
<1> DEFINE way == SumWay(j)
<1>10. p0 \in way /\ \A p \in way : Small(p) /\ (Final(j, p) \/ \E q \in way : LeadsTo(j, p, q))
  BY <1>6, <1>7, <1>8, <1>9
<1> QED
  BY <1>10 DEF Sound, p0

LEMMA SumEnd ==
  ASSUME NEW j, SumCode(j), NEW p \in SumWay(j), Final(j, p)
  PROVE  p.r = j.r /\ p.f = SumHigh(j).f
<1> DEFINE f1 == SumLow(j).f
           f2 == SumHigh(j).f
           f3 == BackLow(j).f
           f4 == BackHigh(j).f
           r1 == LowSummed(j)
           r2 == Summed(j)
           r3 == OnTop(j, r2)
           r4 == LowBack(j)
           r5 == BothBack(j)
           v == <<makeflags(f2)>>
<1>1. p \in {Begin(j), Point(2, r1, f1, 0, <<>>), Point(4, r2, f2, 0, <<>>), Point(5, r3, f2, 1, v),
             Point(7, r4, f3, 1, v), Point(9, r5, f4, 1, v), Point(10, j.r, f2, 0, <<>>)}
  BY DEF SumWay
<1> HIDE DEF f1, f2, f3, f4, r1, r2, r3, r4, r5, v
<1>2. Code[j.task][p.i + 1] = 205
  BY DEF Final, Has
<1>3. /\ Code[j.task][0 + 1] # 205 /\ Code[j.task][2 + 1] # 205 /\ Code[j.task][4 + 1] # 205
      /\ Code[j.task][5 + 1] # 205 /\ Code[j.task][7 + 1] # 205 /\ Code[j.task][9 + 1] # 205
  BY DEF SumCode, Has
<1>4. p.i # 0 /\ p.i # 2 /\ p.i # 4 /\ p.i # 5 /\ p.i # 7 /\ p.i # 9
  BY <1>2, <1>3
<1>5. p = Point(10, j.r, f2, 0, <<>>)
  BY <1>1, <1>4 DEF Point, Begin
<1> QED
  BY <1>5 DEF Point, f2

-----------------------------------------------------------------------------
\* Comparing strings.  A search (0) looks for the byte of AL with SCASB while the
\* bytes differ, a match (1) compares two strings with CMPSB while they agree: this
\* number is also the zero flag that continues.
Kinds == {0, 1}
ScanOp(q) == IF q = 0 THEN 174 ELSE 166

Forward(j) == IF Load(j).f.df = 1 THEN -1 ELSE 1
Nth(j, i, n) == (j.r[i] + Forward(j) * n) % Word
FromPlace(j, n) == Segments[DS] * 16 + Nth(j, SI, n)
ToPlace(j, n) == Segments[ES] * 16 + Nth(j, DI, n)
Sought(j, q, n) == IF q = 0 THEN j.r[AX] % Byte ELSE cell(Load(j), FromPlace(j, n))
Met(j, n) == cell(Load(j), ToPlace(j, n))

\* The flags and registers behind n elements, c of them counted.
ElementFlags(j, q, n) == flag_sub(Load(j).f, Sought(j, q, n), Met(j, n), Byte)
ScanFlags(j, q, n) == IF n = 0 THEN Load(j).f ELSE ElementFlags(j, q, n - 1)
ScanRegisters(j, q, n, c) ==
  [j.r EXCEPT ![CX] = j.r[CX] - c, ![SI] = IF q = 0 THEN j.r[SI] ELSE Nth(j, SI, n), ![DI] = Nth(j, DI, n)]

\* No element is where a handler keeps its words.
StringsClear(j, q) ==
  \A n \in Nat : n < j.r[CX] => ToPlace(j, n) \notin Area(j) /\ (q = 1 => FromPlace(j, n) \notin Area(j))

\* A comparison leaves nothing of the one before.
LEMMA FlagsForget ==
  ASSUME NEW f \in Flags, NEW a, NEW b, NEW c, NEW d, NEW w
  PROVE  flag_sub(flag_sub(f, a, b, w), c, d, w) = flag_sub(f, c, d, w)
<1> DEFINE z1 == Bool((a - b) % w = 0)
           s1 == Sign((a - b) % w, w)
           p1 == parity((a - b) % w)
           c1 == Bool(a < b)
           o1 == Bool(Sign(a - b, w) # Sign(a, w) /\ Sign(a, w) # Sign(b, w))
           a1 == (Bit4(a) + Bit4(b) + Bit4(a - b)) % 2
           z2 == Bool((c - d) % w = 0)
           s2 == Sign((c - d) % w, w)
           p2 == parity((c - d) % w)
           c2 == Bool(c < d)
           o2 == Bool(Sign(c - d, w) # Sign(c, w) /\ Sign(c, w) # Sign(d, w))
           a2 == (Bit4(c) + Bit4(d) + Bit4(c - d)) % 2
           set(g, z, s, p, cf, of, af) == [[g EXCEPT !.zf = z, !.sf = s, !.pf = p] EXCEPT !.cf = cf, !.of = of, !.af = af]
<1>1. \A g : /\ flag_sub(g, a, b, w) = set(g, z1, s1, p1, c1, o1, a1)
             /\ flag_sub(g, c, d, w) = set(g, z2, s2, p2, c2, o2, a2)
  BY DEF flag_sub, flag_szp
<1> HIDE DEF z1, s1, p1, c1, o1, a1, z2, s2, p2, c2, o2, a2
<1>2. set(set(f, z1, s1, p1, c1, o1, a1), z2, s2, p2, c2, o2, a2) = set(f, z2, s2, p2, c2, o2, a2)
  BY DEF Flags, FlagNames
<1> HIDE DEF set
<1> QED
  BY <1>1, <1>2

\* What it says: whether the bytes are equal.
LEMMA SameByte ==
  ASSUME NEW f, Sane(f), NEW a \in Octets, NEW b \in Octets
  PROVE  LET g == flag_sub(f, a, b, Byte)
         IN  Sane(g) /\ g.df = f.df /\ g.zf = Bool(a = b)
<1>1. a \in Int /\ b \in Int /\ Byte \in Nat /\ 0 < Byte
  BY Numbers8, Sizes
<1>2. Sane(flag_sub(f, a, b, Byte))
  BY <1>1, SaneDifference
<1>3. (a - b) % Byte = 0 <=> a = b
  <2> DEFINE d == a - b
  <2>1. d \in -255..255 /\ (d = 0 <=> a = b)
    BY SMT DEF Octets, Byte
  <2> HIDE DEF d
  <2>2. d % 256 = 0 <=> d = 0
    BY <2>1, SMT
  <2> QED
    BY <2>1, <2>2 DEF d, Byte
<1>4. f \in Flags
  BY DEF Sane
<1>5. DOMAIN f = FlagNames
  BY <1>4 DEF Flags
<1> DEFINE v == (a - b) % Byte
           g0 == flag_szp(f, v, Byte)
           c == Bool(a < b)
           o == Bool(Sign(a - b, Byte) # Sign(a, Byte) /\ Sign(a, Byte) # Sign(b, Byte))
           e == (Bit4(a) + Bit4(b) + Bit4(a - b)) % 2
           g == flag_sub(f, a, b, Byte)
<1>6. g = [g0 EXCEPT !.cf = c, !.of = o, !.af = e]
  BY DEF flag_sub
<1>7. g0 = [f EXCEPT !.zf = Bool(v = 0), !.sf = Sign(v, Byte), !.pf = parity(v)]
  BY DEF flag_szp
<1>8. Bool(v = 0) = Bool(a = b)
  BY <1>3 DEF Bool
<1> HIDE DEF v, g0, c, o, e, g
<1>9. DOMAIN g0 = FlagNames /\ g0.zf = Bool(a = b) /\ g0.df = f.df
  BY <1>5, <1>7, <1>8 DEF FlagNames
<1>10. g.zf = g0.zf /\ g.df = g0.df
  BY <1>6, <1>9 DEF FlagNames
<1> QED
  BY <1>2, <1>9, <1>10 DEF g


LEMMA NthMoves ==
  ASSUME NEW j, EvenStack(j), NEW i \in 0..7, NEW n \in Nat
  PROVE  /\ Nth(j, i, n) \in Words /\ Nth(j, i, 0) = j.r[i]
         /\ (Nth(j, i, n) + Forward(j)) % Word = Nth(j, i, n + 1)
<1> DEFINE a == j.r[i]
           d == Forward(j)
<1>1. a \in Words /\ d \in {-1, 1}
  BY JobsAssumption DEF EvenStack, Forward
<1> HIDE DEF a, d
<1>2. d * n \in Int /\ a \in Int /\ d * (n + 1) = d * n + d /\ d * 0 = 0 /\ d \in Int /\ a \in Nat /\ a < Word
  <2>1. a \in Nat /\ a < Word
    BY <1>1, Numbers8
  <2> QED
    BY <1>1, <2>1
<1>3. Nth(j, i, n) \in Words
  <2>1. a + d * n \in Int
    BY <1>2
  <2> QED
    BY <2>1, ByteFacts DEF Nth, a, d
<1>4. Nth(j, i, 0) = a
  <2>1. a % Word = a
    BY <1>2, ModSmall, Sizes
  <2> QED
    BY <1>2, <2>1 DEF Nth, a, d
<1>5. (Nth(j, i, n) + d) % Word = Nth(j, i, n + 1)
  <2> DEFINE t == a + d * n
  <2>1. t \in Int /\ a + d * (n + 1) = t + d
    BY <1>2
  <2> HIDE DEF t
  <2>2. ((t % 65536) + d) % 65536 = (t + d) % 65536
    BY <1>1, <2>1, SMT
  <2>3. Word = 65536
    BY SMT DEF Word, Byte
  <2> QED
    BY <2>1, <2>2, <2>3 DEF Nth, a, d, t
<1> QED
  BY <1>3, <1>4, <1>5 DEF a, d

\* The address of an element, of which twenty bits are all.
LEMMA PlacesInMemory ==
  ASSUME NEW j, EvenStack(j), NEW n \in Nat
  PROVE  FromPlace(j, n) % Meg = FromPlace(j, n) /\ ToPlace(j, n) % Meg = ToPlace(j, n)
<1> DEFINE o == Nth(j, SI, n)
           p == Nth(j, DI, n)
<1>1. o \in Words /\ p \in Words
  BY NthMoves, Names
<1>2. FromPlace(j, n) = 512 * 16 + o /\ ToPlace(j, n) = 768 * 16 + p
  BY SegmentsAre DEF FromPlace, ToPlace
<1> HIDE DEF o, p
<1>3. ASSUME NEW v \in Words
      PROVE  (512 * 16 + v) % Meg = 512 * 16 + v /\ (768 * 16 + v) % Meg = 768 * 16 + v
  <2>1. v \in Nat /\ v < Word /\ Word \in Nat
    BY <1>3, Numbers8, Sizes
  <2>2. 512 * 16 + Word < Meg /\ 768 * 16 + Word < Meg
    BY SMT DEF Meg, Word, Byte
  <2>3. 512 * 16 + v \in Nat /\ 512 * 16 + v < 512 * 16 + Word /\ 768 * 16 + v \in Nat /\ 768 * 16 + v < 768 * 16 + Word
    BY <2>1
  <2>4. 512 * 16 + v < Meg /\ 768 * 16 + v < Meg
    BY <2>1, <2>2, <2>3, Sizes
  <2> QED
    BY <2>3, <2>4, ModSmall, Sizes
<1>4. FromPlace(j, n) % Meg = 512 * 16 + o
  BY <1>1, <1>2, <1>3
<1>5. ToPlace(j, n) % Meg = 768 * 16 + p
  BY <1>1, <1>2, <1>3
<1> QED
  BY <1>2, <1>4, <1>5

\* A machine in front of an element.
AtElement(x, j, q, n, c) ==
  /\ MachineOK(x) /\ x.s = Segments /\ x.seg = Segments[DS] /\ SameBut(x, Load(j), Area(j))
  /\ x.r = ScanRegisters(j, q, n, c) /\ x.f = ScanFlags(j, q, n)

LEMMA ScanFacts ==
  ASSUME NEW j, EvenStack(j), NEW q \in Kinds, NEW n \in Nat, NEW c \in Nat, c <= j.r[CX]
  PROVE  LET r == ScanRegisters(j, q, n, c)
         IN  /\ r \in [0..7 -> Words] /\ r[AX] = j.r[AX] /\ r[SP] = j.r[SP] /\ r[CX] = j.r[CX] - c
             /\ r[DI] = Nth(j, DI, n) /\ r[SI] = IF q = 0 THEN j.r[SI] ELSE Nth(j, SI, n)
<1> DEFINE a == j.r[CX] - c
           b == IF q = 0 THEN j.r[SI] ELSE Nth(j, SI, n)
           d == Nth(j, DI, n)
           r == j.r
<1>1. r \in [0..7 -> Words]
  BY JobsAssumption DEF EvenStack
<1>2. a \in Words
  <2>1. j.r[CX] \in 0 .. Word - 1 /\ Word \in Int
    BY <1>1, Names, Sizes DEF Words
  <2> QED
    BY <2>1 DEF Words
<1>3. b \in Words /\ d \in Words
  BY <1>1, NthMoves, Names
<1>4. ScanRegisters(j, q, n, c) = [r EXCEPT ![CX] = a, ![SI] = b, ![DI] = d]
  BY DEF ScanRegisters
<1> HIDE DEF a, b, d, r
<1>5. LET s == [r EXCEPT ![CX] = a, ![SI] = b, ![DI] = d]
      IN  s \in [0..7 -> Words] /\ s[AX] = r[AX] /\ s[SP] = r[SP] /\ s[CX] = a /\ s[DI] = d /\ s[SI] = b
  BY <1>1, <1>2, <1>3 DEF AX, CX, SP, SI, DI
<1> QED
  BY <1>4, <1>5 DEF a, b, d, r

LEMMA ScanFlagsSane ==
  ASSUME NEW j, EvenStack(j), NEW q \in Kinds, NEW n \in Nat
  PROVE  /\ Sane(ScanFlags(j, q, n)) /\ ScanFlags(j, q, n).df = Load(j).f.df
         /\ Sane(ElementFlags(j, q, n)) /\ ElementFlags(j, q, n).df = Load(j).f.df
         /\ ElementFlags(j, q, n).zf = Bool(Sought(j, q, n) = Met(j, n))
         /\ flag_sub(ScanFlags(j, q, n), Sought(j, q, n), Met(j, n), Byte) = ElementFlags(j, q, n)
<1> DEFINE f == Load(j).f
           a(k) == Sought(j, q, k)
           b(k) == Met(j, k)
           g(k) == ElementFlags(j, q, k)
<1>1. Sane(f) /\ f \in Flags
  BY SaneAtFirst DEF EvenStack, Sane
<1>2. ASSUME NEW k
      PROVE  a(k) \in Octets /\ b(k) \in Octets
  <2>1. MachineOK(Load(j)) /\ j.r[AX] \in Int
    BY LoadStack, JobsAssumption, Names, Numbers8 DEF EvenStack
  <2> QED
    BY <2>1, CellOK, ByteFacts DEF Sought, Met
<1>3. \A k : g(k) = flag_sub(f, a(k), b(k), Byte)
  BY DEF ElementFlags
<1> HIDE DEF f, a, b, g
<1>4. \A k : Sane(g(k)) /\ g(k).df = f.df /\ g(k).zf = Bool(a(k) = b(k))
  BY <1>1, <1>2, <1>3, SameByte
<1>5. CASE n = 0
  <2>1. ScanFlags(j, q, n) = f
    BY <1>5 DEF ScanFlags, f
  <2> QED
    BY <1>1, <1>3, <1>4, <2>1 DEF f, g, a, b
<1>6. CASE n # 0
  <2> DEFINE k == n - 1
  <2>1. ScanFlags(j, q, n) = g(k)
    BY <1>6 DEF ScanFlags, g
  <2> HIDE DEF k
  <2>2. flag_sub(g(k), a(n), b(n), Byte) = g(n)
    BY <1>1, <1>3, FlagsForget
  <2> QED
    BY <1>4, <2>1, <2>2 DEF f, g, a, b
<1> QED
  BY <1>5, <1>6

\* What SCASB and CMPSB do with an element.
Advanced(x, r, f) == [x EXCEPT !.r = r, !.f = f]

LEMMA ElementRead ==
  ASSUME NEW j, EvenStack(j), NEW q \in Kinds, StringsClear(j, q), NEW n \in Nat, n < j.r[CX],
         NEW c \in Nat, c <= j.r[CX], NEW x, AtElement(x, j, q, n, c)
  PROVE  /\ Dest(x, Byte) = Met(j, n) /\ R(x, AX, Byte) = j.r[AX] % Byte
         /\ q = 1 => Source(x, Byte) = Sought(j, q, n)
         /\ Stride(x, Byte) = Forward(j)
<1>1. /\ MachineOK(x) /\ x.s[ES] = Segments[ES] /\ x.seg = Segments[DS] /\ SameBut(x, Load(j), Area(j))
      /\ x.r = ScanRegisters(j, q, n, c) /\ x.f = ScanFlags(j, q, n)
  BY DEF AtElement
<1>2. /\ x.r[AX] = j.r[AX] /\ x.r[DI] = Nth(j, DI, n)
      /\ q = 1 => x.r[SI] = Nth(j, SI, n)
  BY <1>1, ScanFacts
<1>3. /\ cell(x, ToPlace(j, n)) = Met(j, n)
      /\ q = 1 => cell(x, FromPlace(j, n)) = Sought(j, q, n)
  <2>1. ToPlace(j, n) \notin Area(j) /\ (q = 1 => FromPlace(j, n) \notin Area(j))
    BY DEF StringsClear
  <2> QED
    BY <1>1, <2>1 DEF SameBut, Met, Sought
<1>4. Dest(x, Byte) = Met(j, n)
  <2>1. Dest(x, Byte) = cell(x, ToPlace(j, n) % Meg)
    BY <1>1, <1>2 DEF Dest, ReadLong, Read8, ToPlace
  <2> QED
    BY <1>3, <2>1, PlacesInMemory
<1>5. ASSUME q = 1
      PROVE  Source(x, Byte) = Sought(j, q, n)
  <2>1. Source(x, Byte) = cell(x, FromPlace(j, n) % Meg)
    BY <1>1, <1>2, <1>5 DEF Source, ReadLong, Read8, FromPlace
  <2> QED
    BY <1>3, <1>5, <2>1, PlacesInMemory
<1>6. R(x, AX, Byte) = j.r[AX] % Byte
  <2>1. Byte # Word /\ AX < 4 /\ ~(AX > 3)
    BY Sizes DEF AX
  <2> QED
    BY <1>2, <2>1 DEF R
<1>7. Stride(x, Byte) = Forward(j)
  <2>1. x.f.df = Load(j).f.df
    BY <1>1, ScanFlagsSane
  <2> QED
    BY <2>1 DEF Stride, Forward
<1> QED
  BY <1>4, <1>5, <1>6, <1>7

LEMMA ElementStep ==
  ASSUME NEW j, EvenStack(j), NEW q \in Kinds, StringsClear(j, q), NEW n \in Nat, n < j.r[CX],
         NEW c \in Nat, c <= j.r[CX], NEW x, AtElement(x, j, q, n, c)
  PROVE  StringOp(x, ScanOp(q)) = Advanced(x, ScanRegisters(j, q, n + 1, c), ElementFlags(j, q, n))
<1> DEFINE d == Forward(j)
           g == ElementFlags(j, q, n)
           r == ScanRegisters(j, q, n, c)
           r2 == ScanRegisters(j, q, n + 1, c)
           si == (r[SI] + d) % Word
           di == (r[DI] + d) % Word
           b == Byte
<1>1. MachineOK(x) /\ x.r = r /\ x.f = ScanFlags(j, q, n) /\ DOMAIN x = DOMAIN Reset
  BY DEF AtElement, MachineOK
<1>2. /\ Dest(x, b) = Met(j, n) /\ R(x, AX, b) = j.r[AX] % Byte
      /\ q = 1 => Source(x, b) = Sought(j, q, n)
      /\ Stride(x, b) = d
  BY ElementRead
<1>3. /\ r \in [0..7 -> Words] /\ r2 \in [0..7 -> Words] /\ r[DI] = Nth(j, DI, n) /\ r2[DI] = Nth(j, DI, n + 1)
      /\ r[SI] = IF q = 0 THEN j.r[SI] ELSE Nth(j, SI, n)
      /\ r2[SI] = IF q = 0 THEN j.r[SI] ELSE Nth(j, SI, n + 1)
  BY ScanFacts
<1>4. di = r2[DI] /\ (q = 1 => si = r2[SI]) /\ (q = 0 => r[SI] = r2[SI])
  BY <1>3, NthMoves, Names
<1>5. \A i \in 0..7 : i # SI /\ i # DI => r[i] = r2[i]
  <2>1. j.r \in [0..7 -> Words] /\ SI # DI /\ CX \in 0..7 /\ CX # SI /\ CX # DI
    BY JobsAssumption DEF EvenStack, SI, DI, CX
  <2> QED
    BY <2>1 DEF ScanRegisters
<1>6. flag_sub(x.f, Sought(j, q, n), Met(j, n), b) = g
  BY <1>1, ScanFlagsSane
<1>7. SI \in 0..7 /\ DI \in 0..7 /\ SI # DI
  BY DEF SI, DI
<1> HIDE DEF d, g, r, r2, b
<1>8. CASE q = 0
  <2>1. StringOp(x, ScanOp(q)) = scas(x, b)
    <3>1. ScanOp(q) = 174 /\ 174 % 2 = 0
      BY <1>8 DEF ScanOp
    <3> QED
      BY <3>1 DEF StringOp, b
  <2>2. Sought(j, q, n) = R(x, AX, b)
    BY <1>2, <1>8 DEF Sought
  <2>3. scas(x, b) = [[x EXCEPT !.r[DI] = di] EXCEPT !.f = g]
    BY <1>1, <1>2, <1>6, <2>2, Fields DEF scas, MoveDI, Add
  <2>4. [r EXCEPT ![DI] = di] = r2
    BY <1>3, <1>4, <1>5, <1>7, <1>8
  <2> HIDE DEF di
  <2>5. [x EXCEPT !.r[DI] = di] = [x EXCEPT !.r = r2]
    BY <1>1, <2>4
  <2>6. Advanced(x, r2, g) = [[x EXCEPT !.r = r2] EXCEPT !.f = g]
    BY DEF Advanced
  <2> QED
    BY <2>1, <2>3, <2>5, <2>6 DEF r2, g
<1>9. CASE q = 1
  <2>1. StringOp(x, ScanOp(q)) = cmps(x, b)
    <3>1. ScanOp(q) = 166 /\ 166 % 2 = 0
      BY <1>9 DEF ScanOp
    <3> QED
      BY <3>1 DEF StringOp, b
  <2> DEFINE y == [x EXCEPT !.r[SI] = si]
             t == [r EXCEPT ![SI] = si]
  <2>2. MoveSI(x, b) = y
    BY <1>1, <1>2 DEF MoveSI, Add
  <2>3. y = [x EXCEPT !.r = t]
    BY <1>1
  <2> HIDE DEF y
  <2>4. y.r = t /\ y.f = x.f /\ t[DI] = r[DI]
    BY <1>1, <1>3, <1>7, <2>3, Fields
  <2>5. [t EXCEPT ![DI] = di] = r2
    BY <1>3, <1>4, <1>5, <1>7, <1>9
  <2> HIDE DEF t
  <2>6. MoveDI(y, b) = [x EXCEPT !.r = r2]
    <3>1. Stride(y, b) = d
      BY <1>2, <2>4 DEF Stride
    <3>2. MoveDI(y, b) = [y EXCEPT !.r[DI] = di]
      BY <2>4, <3>1 DEF MoveDI, Add
    <3> HIDE DEF di
    <3>3. [y EXCEPT !.r[DI] = di] = [y EXCEPT !.r = r2]
      BY <2>4, <2>5
    <3>4. [y EXCEPT !.r = r2] = [x EXCEPT !.r = r2]
      BY <1>1, <2>3, Fields
    <3> QED
      BY <3>2, <3>3, <3>4
  <2>7. cmps(x, b) = [[x EXCEPT !.r = r2] EXCEPT !.f = g]
    BY <1>2, <1>6, <1>9, <2>2, <2>6 DEF cmps
  <2> QED
    BY <2>1, <2>7 DEF Advanced, r2, g
<1> QED
  BY <1>8, <1>9 DEF Kinds

LEMMA CountedDown ==
  ASSUME NEW j, EvenStack(j), NEW q \in Kinds, NEW n \in Nat, n < j.r[CX]
  PROVE  LET r == ScanRegisters(j, q, n + 1, n)
         IN  [r EXCEPT ![CX] = (r[CX] + -1) % Word] = ScanRegisters(j, q, n + 1, n + 1)
<1> DEFINE l == n + 1
           r == ScanRegisters(j, q, l, n)
           s == ScanRegisters(j, q, l, l)
           a == j.r[CX] - l
<1>1. j.r[CX] \in Nat /\ j.r[CX] < Word /\ l \in Nat /\ l <= j.r[CX] /\ n <= j.r[CX]
  BY JobsAssumption, Numbers8, Names DEF EvenStack
<1>2. (j.r[CX] - n) + -1 = a /\ a \in Nat /\ a < Word
  BY <1>1, Sizes
<1>3. r \in [0..7 -> Words] /\ s \in [0..7 -> Words] /\ r[CX] = j.r[CX] - n /\ s[CX] = a
  <2> HIDE DEF l
  <2> QED
    BY <1>1, ScanFacts
<1>4. a % Word = a
  <2> HIDE DEF a
  <2> QED
    BY <1>2, ModSmall, Sizes
<1>5. \A i \in 0..7 : i # CX => r[i] = s[i]
  <2>1. j.r \in [0..7 -> Words]
    BY JobsAssumption DEF EvenStack
  <2> HIDE DEF l
  <2> QED
    BY <2>1 DEF ScanRegisters
<1> HIDE DEF r, s, a
<1>6. (r[CX] + -1) % Word = a
  BY <1>2, <1>3, <1>4
<1>7. [r EXCEPT ![CX] = a] = s
  BY <1>3, <1>5, Names
<1> QED
  BY <1>6, <1>7 DEF r, s

\* Behind the first byte of an instruction.
LEMMA HighOpcode ==
  ASSUME NEW j, EvenStack(j), NEW i \in Nat, NEW op \in 160..255, Has(j, i, op),
         NEW y, Reads(y, y, j, i)
  PROVE  /\ Reads(Fetch(y), y, j, i + 1) /\ Fetch(y).seg = Segments[DS]
         /\ Execute(y) = ExecuteHigh(Fetch(y), op)
<1>1. op \notin DOMAIN PrefixOf
  BY DEF PrefixOf
<1>2. i < Len(Code[j.task]) /\ Code[j.task][i + 1] = op
  BY DEF Has
<1>3. Reads(Fetch(y), y, j, i + 1) /\ Execute(y) = ExecuteHigh(Fetch(y), op)
  BY <1>1, <1>2, Opcode
<1>4. Fetch(y).seg = y.s[DS]
  <2>1. DOMAIN y = DOMAIN Reset
    BY DEF Reads, MachineOK
  <2> QED
    BY <2>1, Fields DEF Fetch
<1> QED
  BY <1>3, <1>4 DEF Reads

LEMMA InFront ==
  ASSUME NEW j, NEW y, NEW i, NEW x, Reads(x, y, j, i), x.seg = Segments[DS],
         NEW q, NEW n, NEW c, y.r = ScanRegisters(j, q, n, c), y.f = ScanFlags(j, q, n)
  PROVE  AtElement(x, j, q, n, c)
BY DEF Reads, AtElement

LEMMA AdvancedIs ==
  ASSUME NEW x, MachineOK(x), NEW r, NEW f
  PROVE  LET z == Advanced(x, r, f)
         IN  /\ z.r = r /\ z.f = f /\ z.ip = x.ip /\ z.s = x.s /\ z.h = x.h /\ z.mem = x.mem
             /\ z.hlt = x.hlt /\ z.exited = x.exited /\ DOMAIN z = DOMAIN Reset
BY Fields DEF Advanced, MachineOK

\* The next element, as SCASB and CMPSB without a prefix reach it.
LEMMA ElementLeads ==
  ASSUME NEW j, EvenStack(j), NEW q \in Kinds, StringsClear(j, q), NEW i \in Nat, Has(j, i, ScanOp(q)),
         NEW n \in Nat, n < j.r[CX]
  PROVE  Plainly(j, i, ScanRegisters(j, q, n, n), ScanFlags(j, q, n),
                 i + 1, ScanRegisters(j, q, n + 1, n), ElementFlags(j, q, n))
<1> DEFINE r == ScanRegisters(j, q, n, n)
           f == ScanFlags(j, q, n)
           r2 == ScanRegisters(j, q, n + 1, n)
           f2 == ElementFlags(j, q, n)
           k == 0
           v == <<>>
           l == i + 1
           op == ScanOp(q)
<1> SUFFICES ASSUME NEW y, Stands(y, j, i, r, f, k, v), MachineOK(Execute(y))
             PROVE  Stands(Execute(y), j, l, r2, f2, k, v)
  BY DEF Leads, Plainly
<1> DEFINE x == Fetch(y)
           z == Execute(y)
<1>1. op \in {166, 174} /\ op \in 160..255
  BY DEF ScanOp
<1>2. ExecuteHigh(x, op) = StringOp(x, op)
  <2> HIDE DEF op, x
  <2>1. CASE op = 166
    BY <2>1 DEF ExecuteHigh
  <2>2. CASE op = 174
    BY <2>2 DEF ExecuteHigh
  <2> QED
    BY <1>1, <2>1, <2>2
<1> HIDE DEF r, f, r2, f2, k, v, l, op, x, z
<1>3. Reads(y, y, j, i) /\ y.r = r /\ y.f = f
  BY ReadsAt
<1>4. Reads(x, y, j, l) /\ x.seg = Segments[DS] /\ z = StringOp(x, op)
  BY <1>1, <1>2, <1>3, HighOpcode DEF x, z, l, op
<1>5. AtElement(x, j, q, n, n)
  BY <1>3, <1>4, InFront DEF r, f
<1>6. n <= j.r[CX]
  <2>1. j.r[CX] \in Nat
    BY JobsAssumption, Numbers8, Names DEF EvenStack
  <2> QED
    BY <2>1
<1>7. z = Advanced(x, r2, f2)
  BY <1>4, <1>5, <1>6, ElementStep DEF op, r2, f2
<1>8. Does(z, y, l, r2, f2)
  BY <1>4, <1>7, AdvancedIs DEF Reads, Does
<1>9. Sane(f2) /\ r2[SP] = r[SP]
  BY <1>6, ScanFacts, ScanFlagsSane, SMTT(30) DEF r, r2, f2
<1>10. MachineOK(z) /\ Stands(y, j, i, r, f, k, v)
  BY DEF z
<1>11. Stands(z, j, l, r2, f2, k, v)
  BY <1>8, <1>9, <1>10, Onwards
<1> QED
  BY <1>11 DEF z

\* Where the instruction pointer is behind a few bytes of the program, or before them.
LEMMA SmallOffsets ==
  /\ 0 % Word = 0 /\ 1 % Word = 1 /\ 2 % Word = 2 /\ 3 % Word = 3
<1>1. 3 < Word /\ Word \in Nat \ {0}
  BY SMT DEF Word, Byte
<1> QED
  BY <1>1, ModSmall

\* One element of a repeated comparison: REPNE SCASB (F2 AE) and REPE CMPSB (F3 A6).
Repeats(j, q) == Has(j, 0, 242 + q) /\ Has(j, 1, ScanOp(q))

LEMMA RepeatIs ==
  ASSUME NEW j, EvenStack(j), NEW q \in Kinds, Repeats(j, q), NEW y, Reads(y, y, j, 0)
  PROVE  \E x : /\ Reads(x, y, j, 2) /\ x.seg = Segments[DS]
                /\ LET once == Add(StringOp(x, ScanOp(q)), CX, -1)
                   IN  Execute(y) = IF y.r[CX] = 0 THEN x
                                    ELSE IF once.f.zf = q THEN AdvanceIP(once, -2) ELSE once
<1> DEFINE op == 242 + q
           sop == ScanOp(q)
           n == Fetch(y)
           x == AdvanceIP(n, 1)
           i == 0
           once == Add(StringOp(x, sop), CX, -1)
<1>1. op \in 242..243 /\ op \in 160..255 /\ op - 242 = q
  BY DEF Kinds
<1>2. sop \in {166, 174}
  BY DEF ScanOp
<1>3. ExecuteHigh(n, op) = op_rep(n, q)
  <2> HIDE DEF n
  <2>1. CASE q = 0
    BY <2>1 DEF ExecuteHigh
  <2>2. CASE q = 1
    BY <2>2 DEF ExecuteHigh
  <2> QED
    BY <2>1, <2>2 DEF Kinds
<1> HIDE DEF op, sop, n
<1>4. Reads(n, y, j, 1) /\ n.seg = Segments[DS] /\ Execute(y) = op_rep(n, q)
  <2>1. Has(j, i, op)
    BY DEF Repeats, op
  <2>2. i \in Nat /\ i + 1 = 1 /\ Reads(y, y, j, i)
    OBVIOUS
  <2> HIDE DEF i
  <2>3. /\ Reads(n, y, j, i + 1) /\ n.seg = Segments[DS] /\ Execute(y) = ExecuteHigh(n, op)
    BY <1>1, <2>1, <2>2, HighOpcode DEF n
  <2> QED
    BY <1>3, <2>2, <2>3
<1>5. 1 < Len(Code[j.task]) /\ Code[j.task][1 + 1] = sop
  BY DEF Repeats, Has, sop
<1>6. Code8(n) = sop /\ Reads(x, y, j, 2)
  <2> DEFINE l == 1
  <2>1. l \in Nat /\ l + 1 = 2 /\ l < Len(Code[j.task]) /\ Reads(n, y, j, l) /\ Code[j.task][l + 1] = sop
    BY <1>4, <1>5
  <2> HIDE DEF l
  <2>2. Code8(n) = sop /\ Reads(AdvanceIP(n, 1), y, j, l + 1)
    BY <2>1, CodeRead, Skips
  <2> QED
    BY <2>1, <2>2
<1>7. n.s = Segments /\ n.r = y.r /\ x.seg = n.seg
  <2>1. DOMAIN n = DOMAIN Reset
    BY <1>4 DEF Reads, MachineOK
  <2> QED
    BY <1>4, <2>1, Fields DEF Reads, AdvanceIP
<1>8. op_rep(n, q) = IF y.r[CX] = 0 THEN x
                     ELSE IF once.f.zf = q THEN AdvanceIP(once, -2) ELSE once
  <2>1. sop \notin Moving /\ sop \in Comparing
    BY <1>2 DEF Moving, Comparing
  <2> HIDE DEF x
  <2>2. op_rep(n, q) = CASE n.seg # n.s[DS] -> exit_or_restart(n)
                         [] n.seg = n.s[DS] /\ n.r[CX] = 0 -> x
                         [] OTHER ->
                              CASE sop \in Moving -> AdvanceIP(once, -2)
                                [] sop \in Comparing -> IF once.f.zf # q THEN once ELSE AdvanceIP(once, -2)
                                [] OTHER -> exit_or_restart(n)
    BY <1>6 DEF op_rep, x
  <2> HIDE DEF once
  <2>3. n.seg = n.s[DS] /\ n.r[CX] = y.r[CX]
    BY <1>4, <1>7
  <2> QED
    BY <2>1, <2>2, <2>3
<1>9. Reads(x, y, j, 2) /\ x.seg = Segments[DS]
  BY <1>4, <1>6, <1>7
<1> QED
  BY <1>4, <1>8, <1>9 DEF sop

\* The element is compared and counted.
LEMMA CountedElement ==
  ASSUME NEW j, EvenStack(j), NEW q \in Kinds, StringsClear(j, q), NEW n \in Nat, n < j.r[CX],
         NEW x, AtElement(x, j, q, n, n)
  PROVE  LET z == Add(StringOp(x, ScanOp(q)), CX, -1)
         IN  /\ z.r = ScanRegisters(j, q, n + 1, n + 1) /\ z.f = ElementFlags(j, q, n) /\ z.ip = x.ip
             /\ z.s = x.s /\ z.h = x.h /\ z.mem = x.mem /\ z.hlt = x.hlt /\ z.exited = x.exited
             /\ DOMAIN z = DOMAIN Reset
<1> DEFINE r == ScanRegisters(j, q, n + 1, n)
           r2 == ScanRegisters(j, q, n + 1, n + 1)
           g == ElementFlags(j, q, n)
           y == StringOp(x, ScanOp(q))
           z == Add(y, CX, -1)
<1>1. j.r[CX] \in Nat /\ n <= j.r[CX]
  <2>1. j.r[CX] \in Nat
    BY JobsAssumption, Numbers8, Names DEF EvenStack
  <2> QED
    BY <2>1
<1>2. MachineOK(x)
  BY DEF AtElement
<1> HIDE DEF r, r2, g, y
<1>3. y = Advanced(x, r, g)
  BY <1>1, ElementStep DEF y, r, g
<1>4. /\ y.r = r /\ y.f = g /\ y.ip = x.ip /\ y.s = x.s /\ y.h = x.h /\ y.mem = x.mem
      /\ y.hlt = x.hlt /\ y.exited = x.exited /\ DOMAIN y = DOMAIN Reset
  BY <1>2, <1>3, AdvancedIs
<1>5. [r EXCEPT ![CX] = (r[CX] + -1) % Word] = r2
  BY CountedDown DEF r, r2
<1>6. z = [y EXCEPT !.r[CX] = (r[CX] + -1) % Word]
  BY <1>4 DEF Add
<1>7. z = [y EXCEPT !.r = r2]
  BY <1>4, <1>5, <1>6
<1> QED
  BY <1>4, <1>7, Fields DEF z, y, r2, g

LEMMA RepeatLeads ==
  ASSUME NEW j, EvenStack(j), NEW q \in Kinds, StringsClear(j, q), Repeats(j, q), NEW n \in Nat
  PROVE  /\ n < j.r[CX] =>
              Plainly(j, 0, ScanRegisters(j, q, n, n), ScanFlags(j, q, n),
                      IF ElementFlags(j, q, n).zf = q THEN 0 ELSE 2,
                      ScanRegisters(j, q, n + 1, n + 1), ElementFlags(j, q, n))
         /\ n = j.r[CX] =>
              Plainly(j, 0, ScanRegisters(j, q, n, n), ScanFlags(j, q, n),
                      2, ScanRegisters(j, q, n, n), ScanFlags(j, q, n))
<1> DEFINE r == ScanRegisters(j, q, n, n)
           f == ScanFlags(j, q, n)
           r2 == ScanRegisters(j, q, n + 1, n + 1)
           f2 == ElementFlags(j, q, n)
           k == 0
           v == <<>>
           i == 0
           i2 == IF f2.zf = q THEN 0 ELSE 2
<1>1. j.r[CX] \in Nat
  BY JobsAssumption, Numbers8, Names DEF EvenStack
<1>2. n <= j.r[CX] => r[CX] = j.r[CX] - n
  BY ScanFacts
<1>3. Sane(f2) /\ (n < j.r[CX] => r2[SP] = r[SP]) /\ Sane(f)
  <2>1. n < j.r[CX] => n <= j.r[CX] /\ n + 1 <= j.r[CX]
    BY <1>1
  <2> QED
    BY <2>1, ScanFacts, ScanFlagsSane
<1>4. ASSUME n < j.r[CX], NEW y, Stands(y, j, i, r, f, k, v), MachineOK(Execute(y))
      PROVE  Stands(Execute(y), j, i2, r2, f2, k, v)
  <2> DEFINE z == Execute(y)
  <2> HIDE DEF r, f, r2, f2, k, v, z
  <2>1. Reads(y, y, j, 0) /\ y.r = r /\ y.f = f
    BY <1>4, ReadsAt
  <2>2. y.r[CX] # 0
    BY <1>1, <1>2, <1>4, <2>1
  <2>3. PICK x : /\ Reads(x, y, j, 2) /\ x.seg = Segments[DS]
                 /\ LET once == Add(StringOp(x, ScanOp(q)), CX, -1)
                    IN  z = IF once.f.zf = q THEN AdvanceIP(once, -2) ELSE once
    BY <2>1, <2>2, RepeatIs DEF z
  <2> DEFINE once == Add(StringOp(x, ScanOp(q)), CX, -1)
  <2>4. AtElement(x, j, q, n, n)
    BY <2>1, <2>3, InFront DEF r, f
  <2>5. /\ once.r = r2 /\ once.f = f2 /\ once.ip = x.ip
        /\ once.s = x.s /\ once.h = x.h /\ once.mem = x.mem /\ once.hlt = x.hlt /\ once.exited = x.exited
        /\ DOMAIN once = DOMAIN Reset
    BY <1>4, <2>4, CountedElement DEF r2, f2
  <2>6. z = IF once.f.zf = q THEN AdvanceIP(once, -2) ELSE once
    BY <2>3
  <2> HIDE DEF once
  <2>7. /\ z.r = r2 /\ z.f = f2 /\ z.ip = i2
        /\ z.s = x.s /\ z.h = x.h /\ z.mem = x.mem /\ z.hlt = x.hlt /\ z.exited = x.exited
    <3>1. x.ip = 2 /\ 2 + -2 = 0
      BY <2>3 DEF Reads
    <3>2. CASE f2.zf = q
      <4>1. z = AdvanceIP(once, -2)
        BY <2>5, <2>6, <3>2
      <4> QED
        BY <2>5, <3>1, <3>2, <4>1, SmallOffsets, Fields DEF AdvanceIP
    <3>3. CASE f2.zf # q
      BY <2>5, <2>6, <3>1, <3>3
    <3> QED
      BY <3>2, <3>3
  <2> HIDE DEF i2
  <2>8. Does(z, y, i2, r2, f2)
    BY <2>3, <2>7 DEF Does, Reads
  <2>9. Stands(y, j, i, r, f, k, v) /\ MachineOK(z) /\ Sane(f2) /\ r2[SP] = r[SP]
    BY <1>3, <1>4 DEF z
  <2>10. Stands(z, j, i2, r2, f2, k, v)
    BY <2>8, <2>9, Onwards
  <2> QED
    BY <2>10 DEF z
<1>5. ASSUME n = j.r[CX], NEW y, Stands(y, j, i, r, f, k, v), MachineOK(Execute(y))
      PROVE  Stands(Execute(y), j, 2, r, f, k, v)
  <2> DEFINE z == Execute(y)
             l == 2
  <2> HIDE DEF r, f, k, v, z
  <2>1. Reads(y, y, j, 0) /\ y.r = r /\ y.f = f
    BY <1>5, ReadsAt
  <2>2. y.r[CX] = 0
    <3>1. r[CX] = j.r[CX] - n /\ j.r[CX] - n = 0
      BY <1>1, <1>2, <1>5
    <3> QED
      BY <2>1, <3>1
  <2>3. Reads(z, y, j, l)
    BY <2>1, <2>2, RepeatIs DEF z
  <2> HIDE DEF l
  <2>4. Does(z, y, l, r, f)
    BY <2>1, <2>3 DEF Does, Reads
  <2>5. Stands(y, j, i, r, f, k, v) /\ MachineOK(z) /\ Sane(f)
    BY <1>3, <1>5 DEF z
  <2>6. Stands(z, j, l, r, f, k, v)
    BY <2>4, <2>5, Onwards
  <2> QED
    BY <2>6 DEF z, l
<1> HIDE DEF r, f, r2, f2
<1> QED
  BY <1>4, <1>5 DEF Plainly, Leads, i, i2, k, v, r, f, r2, f2

\* LOOPNZ and LOOPZ back to the element before them.
Rounds(j, q) == Has(j, 0, ScanOp(q)) /\ Has(j, 1, 224 + q) /\ Has(j, 2, 253)

LEMMA RoundIs ==
  ASSUME NEW j, EvenStack(j), NEW q \in Kinds, Rounds(j, q), NEW y, Reads(y, y, j, 1)
  PROVE  \E x : /\ Reads(x, y, j, 2)
                /\ LET n == Add(x, CX, -1)
                   IN  Execute(y) = AdvanceIP(n, IF n.r[CX] # 0 /\ n.f.zf = q THEN -2 ELSE 1)
<1> DEFINE op == 224 + q
           x == Fetch(y)
           n == Add(x, CX, -1)
           i == 1
           l == 2
           taken == n.r[CX] # 0 /\ n.f.zf = q
<1>1. op \in 160..255
  BY DEF Kinds
<1>2. ExecuteHigh(x, op) = Short(n, taken)
  <2> HIDE DEF x
  <2>1. CASE q = 0
    <3>1. op = 224
      BY <2>1
    <3> HIDE DEF op
    <3>2. ExecuteHigh(x, op) = Loops(x, op)
      BY <3>1 DEF ExecuteHigh
    <3> QED
      BY <2>1, <3>1, <3>2 DEF Loops
  <2>2. CASE q = 1
    <3>1. op = 225
      BY <2>2
    <3> HIDE DEF op
    <3>2. ExecuteHigh(x, op) = Loops(x, op)
      BY <3>1 DEF ExecuteHigh
    <3> QED
      BY <2>2, <3>1, <3>2 DEF Loops
  <2> QED
    BY <2>1, <2>2 DEF Kinds
<1>3. Has(j, i, op) /\ i \in Nat /\ i + 1 = l /\ Reads(y, y, j, i) /\ l \in Nat
  BY DEF Rounds
<1>4. l < Len(Code[j.task]) /\ Code[j.task][l + 1] = 253
  BY DEF Rounds, Has
<1> HIDE DEF op, x, i, l, taken
<1>5. Reads(x, y, j, l) /\ Execute(y) = Short(n, taken)
  BY <1>1, <1>2, <1>3, HighOpcode DEF x
<1>6. Code8(x) = 253
  BY <1>3, <1>4, <1>5, CodeRead
<1>7. Code8(n) = 253
  <2>1. n.ip = x.ip /\ n.s = x.s /\ n.mem = x.mem
    <3>1. DOMAIN x = DOMAIN Reset
      BY <1>5 DEF Reads, MachineOK
    <3> QED
      BY <3>1, Fields DEF Add
  <2> HIDE DEF n
  <2> QED
    BY <1>6, <2>1 DEF Code8, Linear, cell
<1>8. Signed(253, Byte) = -3
  <2>1. Signed(253, 256) = -3
    BY SMT DEF Signed, Sign, Bool
  <2> QED
    BY <2>1 DEF Byte
<1> HIDE DEF n
<1>9. Execute(y) = AdvanceIP(n, IF taken THEN -2 ELSE 1)
  <2>1. 1 + -3 = -2 /\ 1 + 0 = 1
    OBVIOUS
  <2>2. Short(n, taken) = AdvanceIP(n, 1 + (IF taken THEN -3 ELSE 0))
    BY <1>7, <1>8 DEF Short
  <2> QED
    BY <1>5, <2>1, <2>2
<1> QED
  BY <1>5, <1>9 DEF taken, n, l

LEMMA RoundLeads ==
  ASSUME NEW j, EvenStack(j), NEW q \in Kinds, Rounds(j, q), NEW n \in Nat, n < j.r[CX]
  PROVE  Plainly(j, 1, ScanRegisters(j, q, n + 1, n), ElementFlags(j, q, n),
                 IF n + 1 # j.r[CX] /\ ElementFlags(j, q, n).zf = q THEN 0 ELSE 3,
                 ScanRegisters(j, q, n + 1, n + 1), ElementFlags(j, q, n))
<1> DEFINE r == ScanRegisters(j, q, n + 1, n)
           r2 == ScanRegisters(j, q, n + 1, n + 1)
           f == ElementFlags(j, q, n)
           k == 0
           v == <<>>
           i == 1
           i2 == IF n + 1 # j.r[CX] /\ f.zf = q THEN 0 ELSE 3
<1>1. j.r[CX] \in Nat /\ n + 1 \in Nat /\ n + 1 <= j.r[CX] /\ n <= j.r[CX]
  <2>1. j.r[CX] \in Nat
    BY JobsAssumption, Numbers8, Names DEF EvenStack
  <2> QED
    BY <2>1
<1>2. [r EXCEPT ![CX] = (r[CX] + -1) % Word] = r2
  BY CountedDown
<1>3. r2[CX] = j.r[CX] - (n + 1) /\ r2[SP] = r[SP]
  <2> DEFINE l == n + 1
  <2>1. l \in Nat /\ l <= j.r[CX]
    BY <1>1
  <2> HIDE DEF l
  <2>2. /\ ScanRegisters(j, q, l, l)[CX] = j.r[CX] - l /\ ScanRegisters(j, q, l, l)[SP] = j.r[SP]
        /\ ScanRegisters(j, q, l, n)[SP] = j.r[SP]
    BY <1>1, <2>1, ScanFacts
  <2> QED
    BY <2>2 DEF l
<1>4. Sane(f)
  BY ScanFlagsSane
<1> SUFFICES ASSUME NEW y, Stands(y, j, i, r, f, k, v), MachineOK(Execute(y))
             PROVE  Stands(Execute(y), j, i2, r2, f, k, v)
  BY DEF Plainly, Leads
<1> DEFINE z == Execute(y)
<1> HIDE DEF r, r2, f, k, v, z
<1>5. Reads(y, y, j, 1) /\ y.r = r /\ y.f = f
  BY ReadsAt
<1>6. PICK x : /\ Reads(x, y, j, 2)
               /\ LET b == Add(x, CX, -1)
                  IN  z = AdvanceIP(b, IF b.r[CX] # 0 /\ b.f.zf = q THEN -2 ELSE 1)
  BY <1>5, RoundIs DEF z
<1> DEFINE b == Add(x, CX, -1)
<1>7. DOMAIN x = DOMAIN Reset /\ x.r = r /\ x.f = f /\ x.ip = 2
  BY <1>5, <1>6 DEF Reads, MachineOK
<1>8. b = [x EXCEPT !.r = r2]
  <2>1. b = [x EXCEPT !.r[CX] = (r[CX] + -1) % Word]
    BY <1>7 DEF Add
  <2> QED
    BY <1>2, <1>7, <2>1
<1>9. /\ b.r = r2 /\ b.f = f /\ b.ip = 2
      /\ b.s = x.s /\ b.h = x.h /\ b.mem = x.mem /\ b.hlt = x.hlt /\ b.exited = x.exited
      /\ DOMAIN b = DOMAIN Reset
  BY <1>7, <1>8, Fields
<1>10. z = AdvanceIP(b, IF b.r[CX] # 0 /\ b.f.zf = q THEN -2 ELSE 1)
  BY <1>6
<1> HIDE DEF b
<1>11. r2[CX] # 0 <=> n + 1 # j.r[CX]
  BY <1>1, <1>3
<1>12. /\ z.r = r2 /\ z.f = f /\ z.ip = i2
       /\ z.s = x.s /\ z.h = x.h /\ z.mem = x.mem /\ z.hlt = x.hlt /\ z.exited = x.exited
  <2>1. 2 + -2 = 0 /\ 2 + 1 = 3
    OBVIOUS
  <2>2. CASE n + 1 # j.r[CX] /\ f.zf = q
    <3>1. z = AdvanceIP(b, -2)
      BY <1>9, <1>10, <1>11, <2>2
    <3> QED
      BY <1>9, <2>1, <2>2, <3>1, SmallOffsets, Fields DEF AdvanceIP
  <2>3. CASE ~(n + 1 # j.r[CX] /\ f.zf = q)
    <3>1. z = AdvanceIP(b, 1)
      BY <1>9, <1>10, <1>11, <2>3
    <3> QED
      BY <1>9, <2>1, <2>3, <3>1, SmallOffsets, Fields DEF AdvanceIP
  <2> QED
    BY <2>2, <2>3
<1> HIDE DEF i2
<1>13. Does(z, y, i2, r2, f)
  BY <1>6, <1>12 DEF Does, Reads
<1>14. Stands(y, j, i, r, f, k, v) /\ MachineOK(z)
  BY DEF z
<1>15. Stands(z, j, i2, r2, f, k, v)
  BY <1>3, <1>4, <1>13, <1>14, Onwards
<1> QED
  BY <1>15 DEF z

-----------------------------------------------------------------------------
\* The ways of the comparisons.  A comparison goes on behind n elements when none of
\* them ended it, and is over behind the last one or behind the one that ended it.
Unended(j, q, n) == \A e \in Nat : e < n => ElementFlags(j, q, e).zf = q
Over(j, q, n) ==
  \/ n = j.r[CX] /\ Unended(j, q, n)
  \/ 0 < n /\ Unended(j, q, n - 1) /\ ElementFlags(j, q, n - 1).zf # q

Past(j, q, i, n) == Point(i, ScanRegisters(j, q, n, n), ScanFlags(j, q, n), 0, <<>>)
Uncounted(j, q, n) == Point(1, ScanRegisters(j, q, n + 1, n), ElementFlags(j, q, n), 0, <<>>)
Elements(j) == {n \in Nat : n < j.r[CX]}

RepeatWay(j, q) ==
  {Past(j, q, 0, n) : n \in {n \in 0 .. j.r[CX] : Unended(j, q, n)}}
  \cup {Past(j, q, 2, n) : n \in {n \in 0 .. j.r[CX] : Over(j, q, n)}}

RoundsWay(j, q) ==
  {Past(j, q, 0, n) : n \in {n \in Elements(j) : Unended(j, q, n)}}
  \cup {Uncounted(j, q, n) : n \in {n \in Elements(j) : Unended(j, q, n)}}
  \cup {Past(j, q, 3, n) : n \in {n \in 0 .. j.r[CX] : Over(j, q, n)}}

RepeatCode(j, q) == Repeats(j, q) /\ Has(j, 2, 205) /\ Has(j, 3, 32)
RoundsCode(j, q) == Rounds(j, q) /\ Has(j, 3, 205) /\ Has(j, 4, 32)

\* One more element.
LEMMA OneMore ==
  ASSUME NEW j, NEW q, NEW n \in Nat, Unended(j, q, n)
  PROVE  /\ n + 1 \in Nat /\ ScanFlags(j, q, n + 1) = ElementFlags(j, q, n)
         /\ ElementFlags(j, q, n).zf = q => Unended(j, q, n + 1)
         /\ ElementFlags(j, q, n).zf # q => Over(j, q, n + 1)
<1>1. n + 1 \in Nat /\ n + 1 # 0 /\ (n + 1) - 1 = n /\ 0 < n + 1
  OBVIOUS
<1>2. \A e \in Nat : e < n + 1 => e < n \/ e = n
  OBVIOUS
<1>3. ScanFlags(j, q, n + 1) = ElementFlags(j, q, n)
  BY <1>1 DEF ScanFlags
<1>4. ElementFlags(j, q, n).zf = q => Unended(j, q, n + 1)
  BY <1>2 DEF Unended
<1>5. ElementFlags(j, q, n).zf # q => Over(j, q, n + 1)
  BY <1>1 DEF Over
<1> QED
  BY <1>1, <1>3, <1>4, <1>5

LEMMA ScanBegins ==
  ASSUME NEW j, EvenStack(j), NEW q \in Kinds
  PROVE  Begin(j) = Past(j, q, 0, 0) /\ Unended(j, q, 0)
<1>1. ScanRegisters(j, q, 0, 0) = j.r
  <2>1. j.r \in [0..7 -> Words] /\ j.r[CX] - 0 = j.r[CX]
    <3>1. j.r \in [0..7 -> Words]
      BY JobsAssumption DEF EvenStack
    <3>2. j.r[CX] \in Int
      BY <3>1, Names, Numbers8
    <3> QED
      BY <3>1, <3>2
  <2>2. Nth(j, SI, 0) = j.r[SI] /\ Nth(j, DI, 0) = j.r[DI]
    BY NthMoves, Names
  <2> QED
    BY <2>1, <2>2, Names DEF ScanRegisters
<1>2. ScanFlags(j, q, 0) = Load(j).f
  BY DEF ScanFlags
<1>3. Unended(j, q, 0)
  <2>1. \A e \in Nat : ~(e < 0)
    OBVIOUS
  <2> QED
    BY <2>1 DEF Unended
<1> QED
  BY <1>1, <1>2, <1>3 DEF Begin, Past

LEMMA RepeatStep ==
  ASSUME NEW j, EvenStack(j), NEW q \in Kinds, StringsClear(j, q), RepeatCode(j, q)
  PROVE  Sound(j, RepeatWay(j, q))
<1> DEFINE way == RepeatWay(j, q)
           top == j.r[CX]
<1>1. top \in Nat
  BY JobsAssumption, Numbers8, Names DEF EvenStack
<1>2. /\ \A n \in 0 .. top : Unended(j, q, n) => Past(j, q, 0, n) \in way
      /\ \A n \in 0 .. top : Over(j, q, n) => Past(j, q, 2, n) \in way
      /\ \A p \in way : \E n \in 0 .. top : \/ p = Past(j, q, 0, n) /\ Unended(j, q, n)
                                            \/ p = Past(j, q, 2, n) /\ Over(j, q, n)
  BY DEF RepeatWay
<1>3. Begin(j) \in way
  BY <1>1, <1>2, ScanBegins
<1> HIDE DEF way
<1>4. ASSUME NEW n \in 0 .. top, Unended(j, q, n)
      PROVE  Small(Past(j, q, 0, n)) /\ \E p \in way : LeadsTo(j, Past(j, q, 0, n), p)
  <2>1. Small(Past(j, q, 0, n))
    BY DEF Past, Small, Point
  <2>2. CASE n = top
    <3>1. Over(j, q, n)
      BY <1>4, <2>2 DEF Over
    <3>2. LeadsTo(j, Past(j, q, 0, n), Past(j, q, 2, n))
      BY <1>4, <2>2, RepeatLeads, PlainStep DEF RepeatCode, Past
    <3> QED
      BY <1>2, <2>1, <3>1, <3>2
  <2>3. CASE n # top
    <3> DEFINE l == n + 1
               i == IF ElementFlags(j, q, n).zf = q THEN 0 ELSE 2
    <3>1. n \in Nat /\ n < top /\ l \in 0 .. top
      BY <1>1, <2>3
    <3>2. /\ ScanFlags(j, q, l) = ElementFlags(j, q, n)
          /\ ElementFlags(j, q, n).zf = q => Unended(j, q, l)
          /\ ElementFlags(j, q, n).zf # q => Over(j, q, l)
      BY <1>4, <3>1, OneMore
    <3>3. Plainly(j, 0, ScanRegisters(j, q, n, n), ScanFlags(j, q, n), i, ScanRegisters(j, q, l, l), ElementFlags(j, q, n))
      BY <3>1, RepeatLeads DEF RepeatCode
    <3> HIDE DEF l, i
    <3>4. LeadsTo(j, Past(j, q, 0, n), Past(j, q, i, l))
      BY <3>2, <3>3, PlainStep DEF Past
    <3>5. Past(j, q, i, l) \in way
      BY <1>2, <3>1, <3>2 DEF i
    <3> QED
      BY <2>1, <3>4, <3>5
  <2> QED
    BY <2>2, <2>3
<1>5. ASSUME NEW n
      PROVE  Small(Past(j, q, 2, n)) /\ Final(j, Past(j, q, 2, n))
  BY DEF Past, Small, Point, Final, RepeatCode
<1>6. \A p \in way : Small(p) /\ (Final(j, p) \/ \E t \in way : LeadsTo(j, p, t))
  BY <1>2, <1>4, <1>5
<1> QED
  BY <1>3, <1>6 DEF Sound, way

LEMMA RoundsStep ==
  ASSUME NEW j, EvenStack(j), NEW q \in Kinds, StringsClear(j, q), RoundsCode(j, q), j.r[CX] # 0
  PROVE  Sound(j, RoundsWay(j, q))
<1> DEFINE way == RoundsWay(j, q)
           top == j.r[CX]
<1>1. top \in Nat /\ 0 < top
  BY JobsAssumption, Numbers8, Names DEF EvenStack
<1>2. /\ \A n \in Elements(j) : Unended(j, q, n) => Past(j, q, 0, n) \in way
      /\ \A n \in Elements(j) : Unended(j, q, n) => Uncounted(j, q, n) \in way
      /\ \A n \in 0 .. top : Over(j, q, n) => Past(j, q, 3, n) \in way
      /\ \A p \in way : \/ \E n \in Elements(j) : p = Past(j, q, 0, n) /\ Unended(j, q, n)
                        \/ \E n \in Elements(j) : p = Uncounted(j, q, n) /\ Unended(j, q, n)
                        \/ \E n \in 0 .. top : p = Past(j, q, 3, n) /\ Over(j, q, n)
  BY DEF RoundsWay
<1>3. Begin(j) \in way
  <2>1. 0 \in Elements(j)
    BY <1>1 DEF Elements
  <2> QED
    BY <1>2, <2>1, ScanBegins
<1> HIDE DEF way
<1>4. ASSUME NEW n \in Elements(j), Unended(j, q, n)
      PROVE  /\ Small(Past(j, q, 0, n)) /\ Small(Uncounted(j, q, n))
             /\ \E p \in way : LeadsTo(j, Past(j, q, 0, n), p)
             /\ \E p \in way : LeadsTo(j, Uncounted(j, q, n), p)
  <2> DEFINE l == n + 1
             i == IF n + 1 # top /\ ElementFlags(j, q, n).zf = q THEN 0 ELSE 3
             f == ElementFlags(j, q, n)
  <2>1. n \in Nat /\ n < top /\ l \in 0 .. top /\ (l # top => l \in Elements(j))
    BY <1>1 DEF Elements
  <2>2. Small(Past(j, q, 0, n)) /\ Small(Uncounted(j, q, n))
    BY DEF Past, Uncounted, Small, Point
  <2>3. LeadsTo(j, Past(j, q, 0, n), Uncounted(j, q, n))
    <3> DEFINE e == 0
    <3>1. e \in Nat /\ Has(j, e, ScanOp(q)) /\ e + 1 = 1
      BY DEF RoundsCode, Rounds
    <3> HIDE DEF e
    <3>2. Plainly(j, e, ScanRegisters(j, q, n, n), ScanFlags(j, q, n), e + 1, ScanRegisters(j, q, n + 1, n), ElementFlags(j, q, n))
      BY <2>1, <3>1, ElementLeads
    <3> QED
      BY <3>1, <3>2, PlainStep DEF Past, Uncounted, e
  <2>4. /\ ScanFlags(j, q, l) = f
        /\ f.zf = q => Unended(j, q, l)
        /\ f.zf # q => Over(j, q, l)
    BY <1>4, <2>1, OneMore
  <2>5. Plainly(j, 1, ScanRegisters(j, q, l, n), f, i, ScanRegisters(j, q, l, l), f)
    BY <2>1, RoundLeads DEF RoundsCode
  <2>6. i = IF l # top /\ f.zf = q THEN 0 ELSE 3
    OBVIOUS
  <2>7. Uncounted(j, q, n) = Point(1, ScanRegisters(j, q, l, n), f, 0, <<>>)
    BY DEF Uncounted
  <2> HIDE DEF l, i, f
  <2>8. LeadsTo(j, Uncounted(j, q, n), Past(j, q, i, l))
    BY <2>4, <2>5, <2>7, PlainStep DEF Past
  <2>9. Past(j, q, i, l) \in way
    <3>1. CASE l # top /\ f.zf = q
      BY <1>2, <2>1, <2>4, <2>6, <3>1
    <3>2. CASE f.zf # q
      BY <1>2, <2>1, <2>4, <2>6, <3>2
    <3>3. CASE l = top /\ f.zf = q
      <4>1. Over(j, q, l)
        BY <2>4, <3>3 DEF Over
      <4> QED
        BY <1>2, <2>1, <2>6, <3>3, <4>1
    <3> QED
      BY <3>1, <3>2, <3>3
  <2> QED
    BY <1>2, <1>4, <2>2, <2>3, <2>8, <2>9
<1>5. ASSUME NEW n
      PROVE  Small(Past(j, q, 3, n)) /\ Final(j, Past(j, q, 3, n))
  BY DEF Past, Small, Point, Final, RoundsCode
<1>6. \A p \in way : Small(p) /\ (Final(j, p) \/ \E t \in way : LeadsTo(j, p, t))
  BY <1>2, <1>4, <1>5
<1> QED
  BY <1>3, <1>6 DEF Sound, way

\* What the comparisons end with.
LEMMA ScanEnd ==
  ASSUME NEW j, NEW q \in Kinds, NEW p, Final(j, p),
         \/ RepeatCode(j, q) /\ p \in RepeatWay(j, q)
         \/ RoundsCode(j, q) /\ p \in RoundsWay(j, q)
  PROVE  \E n \in 0 .. j.r[CX] : Over(j, q, n) /\ p.r = ScanRegisters(j, q, n, n) /\ p.f = ScanFlags(j, q, n)
<1>1. Has(j, p.i, 205)
  BY DEF Final
<1>2. ASSUME NEW n \in 0 .. j.r[CX], NEW i, p = Past(j, q, i, n)
      PROVE  p.i = i /\ p.r = ScanRegisters(j, q, n, n) /\ p.f = ScanFlags(j, q, n)
  BY <1>2 DEF Past, Point
<1>3. CASE RepeatCode(j, q) /\ p \in RepeatWay(j, q)
  <2>1. Has(j, 0, 242 + q) /\ 242 + q # 205
    BY <1>3 DEF RepeatCode, Repeats, Kinds
  <2>2. p.i # 0
    BY <1>1, <2>1 DEF Has
  <2>3. PICK n \in 0 .. j.r[CX] : p = Past(j, q, 0, n) \/ (p = Past(j, q, 2, n) /\ Over(j, q, n))
    BY <1>3 DEF RepeatWay
  <2>4. p # Past(j, q, 0, n)
    BY <1>2, <2>2
  <2> QED
    BY <1>2, <2>3, <2>4
<1>4. CASE RoundsCode(j, q) /\ p \in RoundsWay(j, q)
  <2>1. Has(j, 0, ScanOp(q)) /\ Has(j, 1, 224 + q) /\ ScanOp(q) # 205 /\ 224 + q # 205
    BY <1>4 DEF RoundsCode, Rounds, Kinds, ScanOp
  <2>2. p.i # 0 /\ p.i # 1
    BY <1>1, <2>1 DEF Has
  <2>3. \A n : Past(j, q, 0, n).i = 0 /\ Uncounted(j, q, n).i = 1
    BY DEF Past, Uncounted, Point
  <2>4. PICK n \in 0 .. j.r[CX] : p = Past(j, q, 3, n) /\ Over(j, q, n)
    BY <1>4, <2>2, <2>3 DEF RoundsWay
  <2> QED
    BY <1>2, <2>4
<1> QED
  BY <1>3, <1>4

-----------------------------------------------------------------------------
\* The programs that have a way.
LEMMA Programs ==
  ASSUME NEW j
  PROVE  /\ j.task = "decimal" => PackedCode(j, 0, 39, 2)
         /\ j.task = "borrow" => PackedCode(j, 40, 47, 3)
         /\ j.task = "ascii" => AsciiCode(j)
         /\ j.task = "unpack" => UnpackCode(j)
         /\ j.task = "product" => ProductCode(j, 4)
         /\ j.task = "signed" => ProductCode(j, 5)
         /\ j.task = "compare" => CompareCode(j)
         /\ j.task = "sum" => SumCode(j)
<1> DEFINE c == Code[j.task]
<1>1. ASSUME j.task = "decimal"
      PROVE  PackedCode(j, 0, 39, 2)
  <2>1. c = <<0, 216, 39, 128, 212, 0>> \o <<205, 32>>
    BY <1>1 DEF Code, Exit
  <2> HIDE DEF c
  <2>2. Len(c) = 8 /\ c[1] = 0 /\ c[2] = 216 /\ c[3] = 39 /\ c[4] = 128 /\ c[5] = 212 /\ c[6] = 0 /\ c[7] = 205 /\ c[8] = 32
    BY <2>1
  <2> QED
    BY <2>2 DEF PackedCode, Has, c
<1>2. ASSUME j.task = "borrow"
      PROVE  PackedCode(j, 40, 47, 3)
  <2>1. c = <<40, 216, 47, 128, 220, 0>> \o <<205, 32>>
    BY <1>2 DEF Code, Exit
  <2> HIDE DEF c
  <2>2. Len(c) = 8 /\ c[1] = 40 /\ c[2] = 216 /\ c[3] = 47 /\ c[4] = 128 /\ c[5] = 220 /\ c[6] = 0 /\ c[7] = 205 /\ c[8] = 32
    BY <2>1
  <2> QED
    BY <2>2 DEF PackedCode, Has, c
<1>3. ASSUME j.task = "ascii"
      PROVE  AsciiCode(j)
  <2>1. c = <<0, 216, 55>> \o <<205, 32>>
    BY <1>3 DEF Code, Exit
  <2> HIDE DEF c
  <2>2. Len(c) = 5 /\ c[1] = 0 /\ c[2] = 216 /\ c[3] = 55 /\ c[4] = 205 /\ c[5] = 32
    BY <2>1
  <2> QED
    BY <2>2 DEF AsciiCode, Has, c
<1>4. ASSUME j.task = "unpack"
      PROVE  UnpackCode(j)
  <2>1. c = <<212, 10, 213, 10>> \o <<205, 32>>
    BY <1>4 DEF Code, Exit
  <2> HIDE DEF c
  <2>2. Len(c) = 6 /\ c[1] = 212 /\ c[2] = 10 /\ c[3] = 213 /\ c[4] = 10 /\ c[5] = 205 /\ c[6] = 32
    BY <2>1
  <2> QED
    BY <2>2 DEF UnpackCode, Has, c
<1>5. ASSUME j.task = "product"
      PROVE  ProductCode(j, 4)
  <2>1. c = <<246, 227, 246, 243>> \o <<205, 32>>
    BY <1>5 DEF Code, Exit
  <2> HIDE DEF c
  <2>2. Len(c) = 6 /\ c[1] = 246 /\ c[2] = 227 /\ c[3] = 246 /\ c[4] = 243 /\ c[5] = 205 /\ c[6] = 32
    BY <2>1
  <2> QED
    BY <2>2 DEF ProductCode, Has, c
<1>6. ASSUME j.task = "signed"
      PROVE  ProductCode(j, 5)
  <2>1. c = <<246, 235, 246, 251>> \o <<205, 32>>
    BY <1>6 DEF Code, Exit
  <2> HIDE DEF c
  <2>2. Len(c) = 6 /\ c[1] = 246 /\ c[2] = 235 /\ c[3] = 246 /\ c[4] = 251 /\ c[5] = 205 /\ c[6] = 32
    BY <2>1
  <2> QED
    BY <2>2 DEF ProductCode, Has, c
<1>7. ASSUME j.task = "compare"
      PROVE  CompareCode(j)
  <2>1. c = <<57, 216, 25, 202, 124, 1, 70, 114, 1, 71>> \o <<205, 32>>
    BY <1>7 DEF Code, Exit
  <2> HIDE DEF c
  <2>2. /\ Len(c) = 12 /\ c[1] = 57 /\ c[2] = 216 /\ c[3] = 25 /\ c[4] = 202 /\ c[5] = 124 /\ c[6] = 1
        /\ c[7] = 70 /\ c[8] = 114 /\ c[9] = 1 /\ c[10] = 71 /\ c[11] = 205 /\ c[12] = 32
    BY <2>1
  <2> QED
    BY <2>2 DEF CompareCode, JumpsOver, SI, DI, Has, c
<1>8. ASSUME j.task = "sum"
      PROVE  SumCode(j)
  <2>1. c = <<1, 216, 17, 202, 156, 41, 216, 25, 202, 157>> \o <<205, 32>>
    BY <1>8 DEF Code, Exit
  <2> HIDE DEF c
  <2>2. /\ Len(c) = 12 /\ c[1] = 1 /\ c[2] = 216 /\ c[3] = 17 /\ c[4] = 202 /\ c[5] = 156 /\ c[6] = 41
        /\ c[7] = 216 /\ c[8] = 25 /\ c[9] = 202 /\ c[10] = 157 /\ c[11] = 205 /\ c[12] = 32
    BY <2>1
  <2> QED
    BY <2>2 DEF SumCode, Has, c
<1> QED
  BY <1>1, <1>2, <1>3, <1>4, <1>5, <1>6, <1>7, <1>8

LEMMA ScanPrograms ==
  ASSUME NEW j
  PROVE  /\ j.task = "search" => RepeatCode(j, 0)
         /\ j.task = "match" => RepeatCode(j, 1)
         /\ j.task = "searchloop" => RoundsCode(j, 0)
         /\ j.task = "matchloop" => RoundsCode(j, 1)
<1> DEFINE c == Code[j.task]
<1>1. ASSUME j.task = "search"
      PROVE  RepeatCode(j, 0)
  <2>1. c = <<242, 174>> \o <<205, 32>>
    BY <1>1 DEF Code, Exit
  <2> HIDE DEF c
  <2>2. Len(c) = 4 /\ c[1] = 242 /\ c[2] = 174 /\ c[3] = 205 /\ c[4] = 32
    BY <2>1
  <2> QED
    BY <2>2 DEF RepeatCode, Repeats, ScanOp, Has, c
<1>2. ASSUME j.task = "match"
      PROVE  RepeatCode(j, 1)
  <2>1. c = <<243, 166>> \o <<205, 32>>
    BY <1>2 DEF Code, Exit
  <2> HIDE DEF c
  <2>2. Len(c) = 4 /\ c[1] = 243 /\ c[2] = 166 /\ c[3] = 205 /\ c[4] = 32
    BY <2>1
  <2> QED
    BY <2>2 DEF RepeatCode, Repeats, ScanOp, Has, c
<1>3. ASSUME j.task = "searchloop"
      PROVE  RoundsCode(j, 0)
  <2>1. c = <<174, 224, 253>> \o <<205, 32>>
    BY <1>3 DEF Code, Exit
  <2> HIDE DEF c
  <2>2. Len(c) = 5 /\ c[1] = 174 /\ c[2] = 224 /\ c[3] = 253 /\ c[4] = 205 /\ c[5] = 32
    BY <2>1
  <2> QED
    BY <2>2 DEF RoundsCode, Rounds, ScanOp, Has, c
<1>4. ASSUME j.task = "matchloop"
      PROVE  RoundsCode(j, 1)
  <2>1. c = <<166, 225, 253>> \o <<205, 32>>
    BY <1>4 DEF Code, Exit
  <2> HIDE DEF c
  <2>2. Len(c) = 5 /\ c[1] = 166 /\ c[2] = 225 /\ c[3] = 253 /\ c[4] = 205 /\ c[5] = 32
    BY <2>1
  <2> QED
    BY <2>2 DEF RoundsCode, Rounds, ScanOp, Has, c
<1> QED
  BY <1>1, <1>2, <1>3, <1>4

\* What the machine has when it has left a way.
Left(p) ==
  /\ Final(job, p) /\ m.r = EndRegisters(job, p.r) /\ m.f = EndFlags(p.f)
  /\ m.s = EndSegments /\ SameBut(m, Load(job), Area(job))

LEMMA AtExit ==
  ASSUME NEW way, OnTheWay(way), m.exited
  PROVE  \E p \in way : Left(p)
<1>1. PICK p \in way : Abreast(p) \/ Away(p) \/ Gone(p)
  BY DEF OnTheWay
<1>2. ~Abreast(p)
  BY DEF Abreast, InStep, Stands, Running
<1>3. ~Away(p)
  <2>1. SUFFICES ASSUME Away(p)
                 PROVE  FALSE
    OBVIOUS
  <2>2. PICK t, q, n : /\ Handled(t, q) /\ q \in {8, 9} /\ n \in Nat /\ 1 <= n /\ n < Turns(q)
                       /\ m = t[n] /\ Stands(t[0], job, p.i, p.r, p.f, p.k, p.v)
    BY <2>1 DEF Away, Served
  <2>3. Serving(t[n], t[0]) /\ t[0].exited = FALSE
    BY <2>2 DEF Handled, Stands, Running
  <2> QED
    BY <2>2, <2>3 DEF Serving
<1>4. CASE Gone(p)
  BY <1>1, <1>4 DEF Gone, Leaving, Ended, Left
<1> QED
  BY <1>1, <1>2, <1>3, <1>4

\* The registers before INT 20h pushed its frame are those of the point it stands at.
LEMMA ResultIs ==
  ASSUME Typed, EvenStack(job), NEW r \in [0..7 -> Words], r[SP] = job.r[SP], NEW p, p.r = r, Left(p)
  PROVE  Result = r /\ \A i \in 0..7 : i # SP => m.r[i] = r[i]
<1> DEFINE sp == job.r[SP]
           o == Below(Load(job), 6)
<1>1. job.r \in [0..7 -> Words] /\ SP \in 0..7 /\ SP = 4
  BY JobsAssumption DEF EvenStack, SP
<1>2. sp \in Words
  BY <1>1
<1>3. o = Lower(sp, 6)
  BY LoadIs DEF Below, EvenStack
<1>4. m.r = [r EXCEPT ![SP] = o]
  BY DEF Left, EndRegisters
<1> HIDE DEF sp, o
<1>5. (o + 6) % Word = sp
  <2> DEFINE n == 6
  <2>1. n \in Nat /\ n < 1000
    OBVIOUS
  <2> HIDE DEF n
  <2>2. /\ Lower(sp, n) = IF n <= sp THEN sp - n ELSE sp - n + Word
        /\ sp \in Nat /\ sp < Word /\ Word \in Nat /\ 1000 < Word
    BY <1>2, <2>1, LowerIs
  <2>3. o + n = sp \/ o + n = sp + Word
    BY <1>3, <2>1, <2>2 DEF n
  <2>4. sp % Word = sp /\ (sp + Word) % Word = sp
    BY <2>2
  <2> QED
    BY <2>3, <2>4 DEF n
<1>6. Result = [r EXCEPT ![SP] = (o + 6) % Word]
  BY <1>1, <1>4 DEF Result
<1>7. Result = r
  BY <1>1, <1>5, <1>6 DEF sp
<1> QED
  BY <1>1, <1>4, <1>7

\* The memory of a job that has ended is that it began with.
LEMMA MemoryKept ==
  ASSUME EvenStack(job), job.r[SP] \notin {2, 4}, NEW r \in [0..7 -> Words], NEW p, p.r = r, Left(p)
  PROVE  Kept({})
<1> DEFINE x == Load(job)
           n == 6
           o == Below(x, n)
           sp == x.r[SP]
<1>1. MachineOK(x) /\ StackInRAM(x) /\ x.s[SS] = 1024 /\ x.r = job.r
  BY LoadStack
<1>2. sp \in Words /\ sp % 2 = 0 /\ sp # 2 /\ sp # 4
  <2>1. sp \in Words
    BY <1>1, Parts, Names
  <2> QED
    BY <1>1, <2>1 DEF EvenStack
<1>3. m.r[SP] = o /\ m.s[SS] = 1024 /\ SameBut(m, x, Area(job))
  <2>1. m.r = [r EXCEPT ![SP] = o] /\ m.s = EndSegments /\ SameBut(m, x, Area(job))
    BY DEF Left, EndRegisters
  <2>2. EndSegments[SS] = 1024
    BY SegmentsAre DEF EndSegments, Segments, CS, SS
  <2> QED
    BY <2>1, <2>2, Names
<1> HIDE DEF x, o, sp
<1> SUFFICES ASSUME NEW a
             PROVE  \/ Scratch(a)
                    \/ (m.s[SS] * 16 + m.r[SP] + 5 - a) \in 0..5
                    \/ cell(m, a) = cell(x, a)
  BY Zenon DEF Kept, before, x
<1>4. CASE a \notin Area(job)
  BY <1>3, <1>4 DEF SameBut
<1>5. CASE a \in Counter
  BY <1>5 DEF Counter, Scratch
<1>6. CASE a \in Frame(x, 60) /\ a \notin Frame(x, n)
  <2>1. n \in Nat /\ n <= 40 /\ o = Below(x, n)
    BY DEF o
  <2> HIDE DEF n
  <2>2. (1024 * 16 + o - 1 - a) % Word < Depth
    BY <1>6, <2>1, BelowIsScratch DEF x
  <2> QED
    BY <1>3, <2>2 DEF Scratch
<1>7. CASE a \in Frame(x, n)
  <2>1. PICK i \in 1..n : a = 1024 * 16 + Below(x, i)
    BY <1>1, <1>7 DEF Frame
  <2> DEFINE e == Below(x, i)
  <2>2. /\ o = IF n <= sp THEN sp - n ELSE sp - n + Word
        /\ e = IF i <= sp THEN sp - i ELSE sp - i + Word
        /\ sp \in Nat /\ Word \in Nat
    <3>1. n < 1000 /\ i < 1000 /\ i \in Nat /\ n \in Nat
      OBVIOUS
    <3>2. o = Lower(sp, n) /\ e = Lower(sp, i)
      BY DEF Below, sp, o
    <3> HIDE DEF e, n
    <3>3. /\ Lower(sp, n) = IF n <= sp THEN sp - n ELSE sp - n + Word
          /\ sp \in Nat /\ sp < Word /\ Word \in Nat
      BY <1>2, <3>1, LowerIs
    <3>4. Lower(sp, i) = IF i <= sp THEN sp - i ELSE sp - i + Word
      BY <1>2, <3>1, LowerIs
    <3> QED
      BY <3>2, <3>3, <3>4
  <2>3. sp = 0 \/ 6 <= sp
    BY <1>2, <2>2
  <2>4. o + 5 - e = i - 1
    <3> HIDE DEF e
    <3>1. CASE sp = 0
      BY <2>2, <3>1
    <3>2. CASE 6 <= sp
      BY <2>2, <3>2
    <3> QED
      BY <2>3, <3>1, <3>2
  <2>5. o \in Int /\ e \in Int
    BY <2>2
  <2> HIDE DEF e
  <2>6. 1024 * 16 + o + 5 - (1024 * 16 + e) = i - 1
    BY <2>4, <2>5
  <2>7. 1024 * 16 + o + 5 - a = i - 1 /\ i - 1 \in 0..5
    BY <2>1, <2>6 DEF e
  <2> QED
    BY <1>3, <2>7
<1> QED
  BY <1>4, <1>5, <1>6, <1>7 DEF Area, x, n

-----------------------------------------------------------------------------
\* Within an instruction a machine stands where it reads; a word is pushed and popped.
LEMMA StandsOn ==
  ASSUME NEW j, NEW y, NEW i, NEW r, NEW f, NEW k, NEW v, Stands(y, j, i, r, f, k, v),
         NEW n, NEW l, Reads(n, y, j, l)
  PROVE  Stands(n, j, l, r, f, k, v)
<1>1. y.r = r /\ y.f = f /\ Sane(f)
  BY ReadsAt
<1>2. MachineOK(n) /\ Does(n, y, l, r, f)
  BY <1>1 DEF Reads, Does
<1> QED
  BY <1>1, <1>2, Onwards

SameWords(u, v, k) == \A n \in Nat : 1 <= n /\ n <= k => u[n] = v[n]
OnSlot(j, r, k) == [r EXCEPT ![SP] = Slot(Load(j), k)]

LEMMA WordsAgree ==
  ASSUME NEW j, NEW y, NEW i, NEW r, NEW f, NEW k, NEW v, Stands(y, j, i, r, f, k, v),
         NEW u, SameWords(u, v, k)
  PROVE  Stands(y, j, i, r, f, k, u)
BY DEF Stands, OnStack, SameWords

LEMMA PushedOnto ==
  ASSUME NEW j, EvenStack(j), NEW y, NEW i, NEW r, NEW f, NEW k \in Nat, k < 20, NEW v,
         Stands(y, j, i, r, f, k, v), NEW u \in Words, NEW v2, SameWords(v2, v, k), v2[k + 1] = u
  PROVE  Stands(push16(y, u), j, i, OnSlot(j, r, k + 1), f, k + 1, v2)
<1> DEFINE x == Load(j)
           z == push16(y, u)
           d == 2 * k
           e == 2
           l == k + 1
           top == 60
           r2 == OnSlot(j, r, l)
<1>1. /\ Interruptible(y) /\ Awake(y) /\ Running(y)
      /\ y.s = Segments /\ y.h = j.h /\ y.ip = i /\ y.r = r /\ y.f = f
      /\ y.r[SP] = Slot(x, k) /\ SameBut(y, x, Area(j))
      /\ \A n \in Nat : 1 <= n /\ n <= k => StackWord(y, Slot(x, n)) = v[n]
  BY DEF Stands, OnStack
<1>2. MachineOK(y) /\ StackInRAM(y) /\ f.ac = 0 /\ f.of \in 0..1
  BY <1>1 DEF Interruptible
<1>3. MachineOK(x) /\ StackInRAM(x) /\ x.s = Segments
  BY LoadStack
<1>4. /\ d \in Nat /\ d <= 50 /\ e \in Nat /\ e <= 50 /\ d + e = 2 * l /\ d + e <= top /\ top \in Nat
      /\ l \in Nat /\ l <= 20
  OBVIOUS
<1>5. Slot(x, k) = Below(x, d) /\ Slot(x, l) = Below(x, 2 * l)
  BY DEF Slot
<1>6. Area(j) = Frame(x, top) \cup Counter
  BY DEF Area
<1>7. \A n \in Nat : 1 <= n /\ n <= k => n <= 20 /\ 2 * n <= d
  OBVIOUS
<1>8. Pushed(z, y, e) /\ StackWord(z, Below(y, e)) = u
  <2> DEFINE q == 0
  <2>1. q \in 0..20 /\ 2 * q = 0 /\ 2 * (q + 1) = e
    OBVIOUS
  <2> HIDE DEF q, e
  <2>2. Pushed(y, y, 2 * q)
    BY <1>2, <2>1, PushedNothing
  <2>3. Pushed(z, y, 2 * (q + 1)) /\ StackWord(z, Below(y, 2 * (q + 1))) = u
    BY <1>2, <2>1, <2>2, PushMore
  <2> QED
    BY <2>1, <2>3
<1>9. z.ip = i
  BY <1>1, <1>2, PushParts, ZenonT(60)
<1> HIDE DEF x, z, d, e, l, top, r2
<1>10. Below(y, e) = Slot(x, l)
  <2>1. Below(y, e) = Below(x, d + e)
    BY <1>1, <1>3, <1>4, <1>5, BelowAgain
  <2> QED
    BY <1>4, <1>5, <2>1
<1>11. Frame(y, e) \subseteq Frame(x, d + e) /\ Frame(y, e) \cap Frame(x, d) = {}
  BY <1>1, <1>3, <1>4, <1>5, FrameDeeper
<1>12. Frame(x, d + e) \subseteq Frame(x, top)
  <2>1. 1..(d + e) \subseteq 1..top
    BY <1>4
  <2> QED
    BY <2>1 DEF Frame
<1>13. /\ z.r = r2 /\ z.s = Segments /\ MachineOK(z) /\ StackInRAM(z) /\ z.h = j.h /\ z.f = f
       /\ z.hlt = y.hlt /\ z.exited = y.exited
       /\ \A b : b \notin Frame(y, e) => cell(z, b) = cell(y, b)
  BY <1>1, <1>8, <1>10 DEF Pushed, Rest, r2, OnSlot, x
<1>14. Interruptible(z) /\ Awake(z) /\ Running(z)
  BY <1>1, <1>2, <1>13 DEF Interruptible, Awake, Running
<1>15. Keeps(z, y, Frame(x, d))
  BY <1>11, <1>13 DEF Keeps
<1>16. ASSUME NEW n \in Nat, 1 <= n, n <= l
       PROVE  StackWord(z, Slot(x, n)) = v2[n]
  <2>1. CASE n = l
    BY <1>8, <1>10, <2>1 DEF l
  <2>2. CASE n # l
    <3>1. n <= k
      BY <1>16, <2>2 DEF l
    <3>2. n <= 20 /\ 2 * n <= d
      BY <1>7, <1>16, <3>1
    <3>3. y.s[SS] = x.s[SS] /\ z.s[SS] = x.s[SS]
      BY <1>1, <1>3, <1>13
    <3>4. StackWord(z, Slot(x, n)) = StackWord(y, Slot(x, n))
      BY <1>3, <1>4, <1>15, <1>16, <3>2, <3>3, WordsKept
    <3> QED
      BY <1>1, <1>16, <3>1, <3>4 DEF SameWords
  <2> QED
    BY <2>1, <2>2
<1>17. OnStack(z, j, l, v2)
  <2>1. y.r \in [0..7 -> Words] /\ SP \in 0..7
    BY <1>2, Parts, Names
  <2>2. z.r[SP] = Slot(x, l)
    BY <1>1, <1>13, <2>1 DEF r2, OnSlot, x
  <2> QED
    BY <1>16, <2>2 DEF OnStack, x
<1>18. SameBut(z, x, Area(j))
  BY <1>1, <1>6, <1>11, <1>12, <1>13 DEF SameBut
<1> QED
  BY <1>9, <1>13, <1>14, <1>17, <1>18 DEF Stands, x, z, l, r2

LEMMA TakenOff ==
  ASSUME NEW j, EvenStack(j), NEW y, NEW i, NEW r, NEW f, NEW k \in Nat, k < 20, NEW v,
         Stands(y, j, i, r, f, k + 1, v)
  PROVE  Top(y) = v[k + 1] /\ Stands(Drop(y), j, i, OnSlot(j, r, k), f, k, v)
<1> DEFINE x == Load(j)
           z == Drop(y)
           l == k + 1
           r2 == OnSlot(j, r, k)
<1>1. /\ Interruptible(y) /\ Awake(y) /\ Running(y)
      /\ y.s = Segments /\ y.h = j.h /\ y.ip = i /\ y.r = r /\ y.f = f
      /\ y.r[SP] = Slot(x, l) /\ SameBut(y, x, Area(j))
      /\ \A n \in Nat : 1 <= n /\ n <= l => StackWord(y, Slot(x, n)) = v[n]
  BY DEF Stands, OnStack
<1>2. MachineOK(y) /\ StackInRAM(y) /\ f.ac = 0 /\ f.of \in 0..1
  BY <1>1 DEF Interruptible
<1>3. MachineOK(x) /\ StackInRAM(x) /\ x.s = Segments
  BY LoadStack
<1>4. /\ Top(y) = StackWord(y, y.r[SP]) /\ MachineOK(z) /\ z.s = y.s /\ z.mem = y.mem
      /\ z.ip = y.ip /\ z.f = y.f /\ Rest(z, y) /\ z.r = [y.r EXCEPT ![SP] = (y.r[SP] + 2) % Word]
  BY <1>2, PopParts
<1>5. k <= 20 /\ 1 <= l /\ l \in Nat /\ k \in 0..32
  OBVIOUS
<1>6. (Slot(x, l) + 2) % Word = Slot(x, k)
  BY <1>3, <1>5, SlotAbove
<1>7. Slot(x, k) \in Evens
  BY <1>3, <1>5, BelowEven DEF Slot
<1> HIDE DEF x, z, l, r2
<1>8. Top(y) = v[l]
  BY <1>1, <1>4, <1>5
<1>9. z.r = r2 /\ z.r[SP] = Slot(x, k)
  <2>1. y.r \in [0..7 -> Words] /\ SP \in 0..7
    BY <1>2, Parts, Names
  <2> QED
    BY <1>1, <1>4, <1>6, <2>1 DEF r2, OnSlot, x
<1>10. /\ z.s = Segments /\ z.h = j.h /\ z.ip = i /\ z.f = f /\ z.hlt = y.hlt /\ z.exited = y.exited
  BY <1>1, <1>4 DEF Rest
<1>11. StackInRAM(z)
  BY <1>1, <1>2, <1>7, <1>9, <1>10 DEF StackInRAM
<1>12. Interruptible(z) /\ Awake(z) /\ Running(z)
  BY <1>1, <1>2, <1>4, <1>10, <1>11 DEF Interruptible, Awake, Running
<1>13. \A o : StackWord(z, o) = StackWord(y, o)
  BY <1>1, <1>4, <1>10 DEF StackWord, Read16Unsafe, cell
<1>14. \A n \in Nat : 1 <= n /\ n <= k => n <= l
  BY DEF l
<1>15. OnStack(z, j, k, v)
  BY <1>1, <1>9, <1>13, <1>14 DEF OnStack, x
<1>16. SameBut(z, x, Area(j))
  BY <1>1, <1>4 DEF SameBut, cell
<1> QED
  BY <1>8, <1>9, <1>10, <1>12, <1>15, <1>16 DEF Stands, x, z, l, r2

-----------------------------------------------------------------------------
\* Behind the opcode at a point, and behind d bytes more.
LEMMA OpcodeOf ==
  ASSUME NEW j, EvenStack(j), NEW op, op \notin DOMAIN PrefixOf, NEW i, Has(j, i, op),
         NEW y, NEW r, NEW f, NEW k, NEW v, Stands(y, j, i, r, f, k, v)
  PROVE  /\ Reads(Fetch(y), y, j, i + 1) /\ Stands(Fetch(y), j, i + 1, r, f, k, v)
         /\ op < 64 => Execute(y) = ExecuteLow(Fetch(y), op)
         /\ op \in 64..159 => Execute(y) = ExecuteMiddle(Fetch(y), op)
         /\ op \in 160..255 => Execute(y) = ExecuteHigh(Fetch(y), op)
<1> DEFINE l == i + 1
<1>1. i \in Nat /\ i < Len(Code[j.task]) /\ Code[j.task][i + 1] = op
  BY DEF Has
<1>2. Reads(y, y, j, i)
  BY ReadsAt
<1>3. /\ Reads(Fetch(y), y, j, l)
      /\ op < 64 => Execute(y) = ExecuteLow(Fetch(y), op)
      /\ op \in 64..159 => Execute(y) = ExecuteMiddle(Fetch(y), op)
      /\ op \in 160..255 => Execute(y) = ExecuteHigh(Fetch(y), op)
  BY <1>1, <1>2, Opcode
<1> HIDE DEF l
<1>4. Stands(Fetch(y), j, l, r, f, k, v)
  BY <1>3, StandsOn
<1> QED
  BY <1>3, <1>4 DEF l

LEMMA StandsAhead ==
  ASSUME NEW j, NEW y, NEW i, NEW r, NEW f, NEW k, NEW v, Stands(y, j, i, r, f, k, v),
         NEW d \in Int, NEW l, (i + d) % Word = l
  PROVE  Stands(AdvanceIP(y, d), j, l, r, f, k, v)
<1> DEFINE z == AdvanceIP(y, d)
<1>1. MachineOK(y) /\ y.r = r /\ y.f = f /\ y.ip = i /\ Sane(f)
  BY ReadsAt DEF Stands
<1>2. MachineOK(z)
  BY <1>1, AdvanceOK
<1>3. Does(z, y, l, r, f)
  BY <1>1, Fields DEF Does, AdvanceIP, MachineOK
<1> HIDE DEF z
<1>4. Stands(z, j, l, r, f, k, v)
  BY <1>1, <1>2, <1>3, Onwards
<1> QED
  BY <1>4 DEF z

\* A register and a word on the stack, and the other way round.
LEMMA RegisterPushed ==
  ASSUME NEW j, EvenStack(j), NEW q \in 0..7, NEW op, op = 80 + q, NEW i, Has(j, i, op),
         NEW r, NEW f, NEW k \in Nat, k < 20, NEW v, NEW v2, SameWords(v2, v, k), v2[k + 1] = r[q]
  PROVE  Leads(j, i, r, f, k, v, i + 1, OnSlot(j, r, k + 1), f, k + 1, v2)
<1> DEFINE l == i + 1
           n == k + 1
           s == OnSlot(j, r, n)
<1> SUFFICES ASSUME NEW y, Stands(y, j, i, r, f, k, v), MachineOK(Execute(y))
             PROVE  Stands(Execute(y), j, l, s, f, n, v2)
  BY DEF Leads
<1> DEFINE x == Fetch(y)
<1>1. op \in 64..159 /\ op \notin DOMAIN PrefixOf /\ op \in 80..87 /\ op - 80 = q
  BY DEF PrefixOf
<1>2. ExecuteMiddle(x, op) = push16(x, x.r[q])
  BY <1>1 DEF ExecuteMiddle
<1>3. Stands(x, j, l, r, f, k, v) /\ Execute(y) = ExecuteMiddle(x, op)
  BY <1>1, OpcodeOf
<1> HIDE DEF x, l, n, s
<1>4. x.r = r /\ r[q] \in Words
  <2>1. Stands(x, j, l, r, f, k, v)
    BY <1>3
  <2>2. MachineOK(x) /\ x.r = r
    BY <2>1 DEF Stands, Interruptible
  <2> QED
    BY <2>2, Parts
<1>5. Stands(push16(x, r[q]), j, l, OnSlot(j, r, k + 1), f, k + 1, v2)
  BY <1>3, <1>4, PushedOnto
<1> QED
  BY <1>2, <1>3, <1>4, <1>5 DEF n, s

LEMMA RegisterPopped ==
  ASSUME NEW j, EvenStack(j), NEW q \in 0..7, q # SP, NEW op, op = 88 + q, NEW i, Has(j, i, op),
         NEW r, NEW f, NEW k \in Nat, k < 20, NEW v
  PROVE  Leads(j, i, r, f, k + 1, v, i + 1, [OnSlot(j, r, k) EXCEPT ![q] = v[k + 1]], f, k, v)
<1> DEFINE l == i + 1
           s == OnSlot(j, r, k)
           a == v[k + 1]
           s2 == [s EXCEPT ![q] = a]
<1> SUFFICES ASSUME NEW y, Stands(y, j, i, r, f, k + 1, v), MachineOK(Execute(y))
             PROVE  Stands(Execute(y), j, l, s2, f, k, v)
  BY DEF Leads
<1> DEFINE x == Fetch(y)
           d == Drop(x)
           z == Execute(y)
<1>1. op \in 64..159 /\ op \notin DOMAIN PrefixOf /\ op \in 88..95 /\ op - 88 = q
  BY DEF PrefixOf
<1>2. ExecuteMiddle(x, op) = PopR(x, q)
  BY <1>1 DEF ExecuteMiddle
<1>3. Stands(x, j, l, r, f, k + 1, v) /\ z = ExecuteMiddle(x, op)
  BY <1>1, OpcodeOf
<1> HIDE DEF x, l, z, a, s, s2
<1>4. Top(x) = a /\ Stands(d, j, l, s, f, k, v)
  BY <1>3, TakenOff DEF a, d, s
<1> HIDE DEF d
<1>5. z = [d EXCEPT !.r[q] = a]
  BY <1>2, <1>3, <1>4 DEF PopR, d
<1>6. MachineOK(z) /\ MachineOK(d) /\ d.r = s /\ d.f = f /\ d.ip = l /\ Sane(f) /\ s \in [0..7 -> Words]
  <2>1. Stands(d, j, l, s, f, k, v)
    BY <1>4
  <2>2. MachineOK(d) /\ d.r = s /\ d.f = f /\ d.f.ac = 0 /\ d.f.of \in 0..1
    BY <2>1 DEF Stands, Interruptible
  <2>3. d.f \in Flags /\ d.r \in [0..7 -> Words]
    BY <2>2, Parts
  <2> QED
    BY <2>1, <2>2, <2>3 DEF z, Stands, Sane
<1>7. Does(z, d, l, s2, f)
  BY <1>5, <1>6, Fields DEF Does, MachineOK, s2
<1>8. s2[SP] = s[SP]
  BY <1>6 DEF s2
<1>9. Stands(z, j, l, s2, f, k, v)
  BY <1>4, <1>6, <1>7, <1>8, Onwards
<1> QED
  BY <1>9 DEF z

\* A number of two bytes behind an opcode.
LEMMA NumberRead ==
  ASSUME NEW j, EvenStack(j), NEW y, NEW x, NEW i, Reads(x, y, j, i), NEW lo, Has(j, i, lo),
         NEW hi, Has(j, i + 1, hi)
  PROVE  /\ Code16(x) = lo + Byte * hi /\ Read16Long(x, x.s[CS], x.ip) = lo + Byte * hi
         /\ i \in Nat /\ i + 2 < 100
<1> DEFINE o == i + 1
           n == 4096
           a == n + i
           b == n + o
<1>1. /\ i \in Nat /\ i < Len(Code[j.task]) /\ Code[j.task][i + 1] = lo
      /\ o \in Nat /\ o < Len(Code[j.task]) /\ Code[j.task][o + 1] = hi
  BY DEF Has
<1>2. Len(Code[j.task]) \in Nat /\ Len(Code[j.task]) < 64
  BY JobsAssumption, CodeIsBytes DEF EvenStack
<1>3. SameBut(x, Load(j), Area(j)) /\ x.s = Segments /\ x.ip = i
  BY DEF Reads
<1>4. o % Word = o /\ a % Meg = a /\ b % Meg = b /\ a + 1 = b /\ i \in Nat /\ i + 2 < 100
  <2>1. 100 < Word /\ 5000 < Meg
    BY SMT DEF Word, Byte, Meg
  <2>2. a \in Nat /\ a < 5000 /\ b \in Nat /\ b < 5000 /\ o < 100 /\ i + 2 < 100
    BY <1>1, <1>2
  <2>3. o < Word /\ a < Meg /\ b < Meg
    <3> HIDE DEF a, b, o
    <3> QED
      BY <1>1, <2>1, <2>2, Sizes
  <2>4. a + 1 = b
    BY <1>1
  <2>5. Word \in Nat \ {0} /\ Meg \in Nat \ {0} /\ o \in Nat
    BY <1>1, Sizes
  <2> HIDE DEF a, b, o
  <2>6. o % Word = o
    BY <2>3, <2>5, ModSmall
  <2>7. a % Meg = a
    BY <2>2, <2>3, <2>5, ModSmall
  <2>8. b % Meg = b
    BY <2>2, <2>3, <2>5, ModSmall
  <2> QED
    BY <1>1, <2>2, <2>4, <2>6, <2>7, <2>8
<1>5. x.s[CS] * 16 = n
  <2>1. x.s[CS] = 256
    BY <1>3, SegmentsAre
  <2>2. 256 * 16 = 4096
    OBVIOUS
  <2> QED
    BY <2>1, <2>2
<1>6. cell(x, a) = lo
  BY <1>1, <1>3, CodeInMemory
<1>7. cell(x, b) = hi
  <2>1. o \in Nat /\ o < Len(Code[j.task]) /\ Code[j.task][o + 1] = hi
    BY <1>1
  <2> HIDE DEF o
  <2>2. cell(x, n + o) = Code[j.task][o + 1]
    BY <1>3, <2>1, CodeInMemory
  <2> QED
    BY <2>1, <2>2
<1>8. Linear(x, CS, x.ip) = a
  BY <1>3, <1>5 DEF Linear
<1>9. /\ x.s[CS] * 16 + x.ip = a /\ x.s[CS] * 16 + ((x.ip + 1) % Word) = b
  BY <1>3, <1>4, <1>5
<1> HIDE DEF a, b, n, o
<1>10. Code16(x) = lo + Byte * hi
  BY <1>4, <1>6, <1>7, <1>8 DEF Code16, Read16Unsafe
<1>11. Read16Long(x, x.s[CS], x.ip) = lo + Byte * hi
  BY <1>4, <1>6, <1>7, <1>9 DEF Read16Long, Read8
<1> QED
  BY <1>4, <1>10, <1>11

\* A near call pushes the offset behind it; RET goes there, and RET with a number
\* takes parameters from the stack, here two words.
LEMMA CallLeads ==
  ASSUME NEW j, EvenStack(j), NEW i, Has(j, i, 232), NEW lo, Has(j, i + 1, lo), NEW hi, Has(j, i + 2, hi),
         NEW c \in Int, c = lo + Byte * hi, NEW l, (i + 3 + c) % Word = l,
         NEW r, NEW f, NEW k \in Nat, k < 20, NEW v, NEW v2, SameWords(v2, v, k), v2[k + 1] = i + 3
  PROVE  Leads(j, i, r, f, k, v, l, OnSlot(j, r, k + 1), f, k + 1, v2)
<1> DEFINE n == k + 1
           s == OnSlot(j, r, n)
           a == i + 1
           b == i + 3
           e == 2
<1> SUFFICES ASSUME NEW y, Stands(y, j, i, r, f, k, v), MachineOK(Execute(y))
             PROVE  Stands(Execute(y), j, l, s, f, n, v2)
  BY DEF Leads
<1> DEFINE x == Fetch(y)
           t == AdvanceIP(x, e)
           op == 232
<1>1. op \in 160..255 /\ op \notin DOMAIN PrefixOf /\ Has(j, i, op)
  BY DEF PrefixOf
<1>2. ExecuteHigh(x, op) = AdvanceIP(push16(t, t.ip), Code16(x))
  BY DEF ExecuteHigh, JumpCall
<1>3. e \in Int /\ a + e = b /\ Has(j, a, lo) /\ Has(j, a + 1, hi)
  BY DEF Has
<1> HIDE DEF x, t, op, a, b, e, n, s
<1>4. Reads(x, y, j, a) /\ Stands(x, j, a, r, f, k, v) /\ Execute(y) = ExecuteHigh(x, op)
  BY <1>1, OpcodeOf DEF x, a
<1>5. Code16(x) = c /\ a \in Nat /\ a + 2 < 100
  BY <1>3, <1>4, NumberRead
<1>6. b \in Nat /\ b < Word
  <2>1. 100 < Word
    BY SMT DEF Word, Byte
  <2> QED
    BY <1>3, <1>5, <2>1, Sizes DEF e
<1>7. (a + e) % Word = b /\ b \in Words
  BY <1>3, <1>6, ModSmall, Sizes DEF Words
<1>8. Stands(t, j, b, r, f, k, v)
  BY <1>3, <1>4, <1>7, StandsAhead DEF t
<1>9. t.ip = b
  BY <1>8 DEF Stands
<1>10. Stands(push16(t, b), j, b, OnSlot(j, r, k + 1), f, k + 1, v2)
  BY <1>7, <1>8, PushedOnto DEF b
<1>11. Stands(AdvanceIP(push16(t, b), c), j, l, OnSlot(j, r, k + 1), f, k + 1, v2)
  BY <1>10, StandsAhead DEF b
<1> QED
  BY <1>2, <1>4, <1>5, <1>9, <1>11 DEF n, s

LEMMA ReturnLeads ==
  ASSUME NEW j, EvenStack(j), NEW i, Has(j, i, 195), NEW r, NEW f, NEW k \in Nat, k < 20, NEW v
  PROVE  Leads(j, i, r, f, k + 1, v, v[k + 1], OnSlot(j, r, k), f, k, v)
<1> DEFINE n == k + 1
           s == OnSlot(j, r, k)
           l == i + 1
           a == v[n]
<1> SUFFICES ASSUME NEW y, Stands(y, j, i, r, f, n, v), MachineOK(Execute(y))
             PROVE  Stands(Execute(y), j, a, s, f, k, v)
  BY DEF Leads
<1> DEFINE x == Fetch(y)
           d == Drop(x)
           z == Execute(y)
           op == 195
<1>1. op \in 160..255 /\ op \notin DOMAIN PrefixOf /\ Has(j, i, op)
  BY DEF PrefixOf
<1>2. ExecuteHigh(x, op) = PopIP(x)
  BY DEF ExecuteHigh, Ret
<1> HIDE DEF x, l, z, a, s, n, op
<1>3. Stands(x, j, l, r, f, n, v) /\ z = ExecuteHigh(x, op)
  BY <1>1, OpcodeOf DEF x, l, z
<1>4. Top(x) = a /\ Stands(d, j, l, s, f, k, v)
  BY <1>3, TakenOff DEF a, d, s, n
<1> HIDE DEF d
<1>5. z = [d EXCEPT !.ip = a]
  BY <1>2, <1>3, <1>4 DEF PopIP, d
<1>6. MachineOK(z) /\ MachineOK(d) /\ d.r = s /\ d.f = f /\ Sane(f)
  <2>1. MachineOK(d) /\ d.r = s /\ d.f = f /\ d.f.ac = 0 /\ d.f.of \in 0..1
    BY <1>4 DEF Stands, Interruptible
  <2>2. d.f \in Flags
    BY <2>1, Parts
  <2> QED
    BY <2>1, <2>2 DEF z, Sane
<1>7. Does(z, d, a, s, f)
  BY <1>5, <1>6, Fields DEF Does, MachineOK
<1>8. Stands(z, j, a, s, f, k, v)
  BY <1>4, <1>6, <1>7, Onwards
<1> QED
  BY <1>8 DEF z

LEMMA ReleaseLeads ==
  ASSUME NEW j, EvenStack(j), NEW i, Has(j, i, 194), Has(j, i + 1, 4), Has(j, i + 2, 0),
         NEW r, NEW f, NEW k \in Nat, k < 18, NEW v
  PROVE  Leads(j, i, r, f, k + 3, v, v[k + 3], OnSlot(j, r, k), f, k, v)
<1> DEFINE n == k + 3
           s == OnSlot(j, r, k)
           l == i + 1
           a == v[n]
           s2 == OnSlot(j, r, k + 2)
           s1 == OnSlot(j, s2, k + 1)
           s0 == OnSlot(j, s1, k)
           q == 4
<1> SUFFICES ASSUME NEW y, Stands(y, j, i, r, f, n, v), MachineOK(Execute(y))
             PROVE  Stands(Execute(y), j, a, s, f, k, v)
  BY DEF Leads
<1> DEFINE x == Fetch(y)
           b == Drop(x)
           c == Drop(b)
           d == Drop(c)
           t == [b EXCEPT !.ip = a]
           z == Execute(y)
           op == 194
<1>1. op \in 160..255 /\ op \notin DOMAIN PrefixOf /\ Has(j, i, op)
  BY DEF PrefixOf
<1>2. ExecuteHigh(x, op) = Add(PopIP(x), SP, Read16Long(x, x.s[CS], x.ip))
  BY DEF ExecuteHigh, Ret
<1>3. Has(j, l, q) /\ Has(j, l + 1, 0) /\ q \in Int /\ q + Byte * 0 = q /\ q = 4
  BY Sizes DEF Has
<1> HIDE DEF x, l, z, a, s, s2, s1, s0, n, op, q, t
<1>4. Reads(x, y, j, l) /\ Stands(x, j, l, r, f, n, v) /\ z = ExecuteHigh(x, op)
  BY <1>1, OpcodeOf DEF x, l, z
<1>5. Read16Long(x, x.s[CS], x.ip) = q
  BY <1>3, <1>4, NumberRead
<1>6. Top(x) = a /\ Stands(b, j, l, s2, f, k + 2, v)
  <2> DEFINE e == k + 2
  <2>1. e \in Nat /\ e < 20 /\ e + 1 = n
    BY DEF n
  <2> HIDE DEF e
  <2>2. Stands(x, j, l, r, f, e + 1, v)
    BY <1>4, <2>1
  <2>3. Top(x) = v[e + 1] /\ Stands(Drop(x), j, l, OnSlot(j, r, e), f, e, v)
    BY <2>1, <2>2, TakenOff
  <2> QED
    BY <2>1, <2>3 DEF a, s2, e
<1>7. Stands(c, j, l, s1, f, k + 1, v)
  <2> DEFINE e == k + 1
  <2>1. e \in Nat /\ e < 20 /\ e + 1 = k + 2
    OBVIOUS
  <2> HIDE DEF e, b
  <2>2. Stands(b, j, l, s2, f, e + 1, v)
    BY <1>6, <2>1
  <2>3. Stands(Drop(b), j, l, OnSlot(j, s2, e), f, e, v)
    BY <2>1, <2>2, TakenOff
  <2> QED
    BY <2>3 DEF s1, e
<1>8. Stands(d, j, l, s0, f, k, v)
  <2> HIDE DEF c
  <2>1. Stands(Drop(c), j, l, OnSlot(j, s1, k), f, k, v)
    BY <1>7, TakenOff
  <2> QED
    BY <2>1 DEF s0
<1>9. MachineOK(x) /\ MachineOK(b) /\ MachineOK(c) /\ MachineOK(d) /\ b.r = s2 /\ d.r = s0
      /\ b.f = f /\ Sane(f) /\ x.r = r
  <2>1. MachineOK(b) /\ b.r = s2 /\ b.f = f /\ b.f.ac = 0 /\ b.f.of \in 0..1
    BY <1>6 DEF Stands, Interruptible
  <2>2. MachineOK(c)
    BY <1>7 DEF Stands, Interruptible
  <2>3. MachineOK(d) /\ d.r = s0
    BY <1>8 DEF Stands, Interruptible
  <2>4. MachineOK(x) /\ x.r = r
    BY <1>4 DEF Stands, Interruptible
  <2>5. b.f \in Flags
    BY <2>1, Parts
  <2> QED
    BY <2>1, <2>2, <2>3, <2>4, <2>5 DEF Sane
<1>10. r \in [0..7 -> Words] /\ SP \in 0..7
  BY <1>9, Parts, Names
<1>11. s0 = s
  BY <1>10 DEF s0, s1, s2, s, OnSlot
<1>12. d = [b EXCEPT !.r = s0]
  <2>1. Drop(b) = [b EXCEPT !.r[SP] = (b.r[SP] + 2) % Word]
    BY <1>9, PopParts
  <2>2. Drop(c) = [c EXCEPT !.r[SP] = (c.r[SP] + 2) % Word]
    BY <1>9, PopParts
  <2> HIDE DEF b
  <2>3. c = [b EXCEPT !.r = c.r]
    BY <1>9, <2>1, Fields DEF MachineOK
  <2> HIDE DEF c
  <2>4. d = [c EXCEPT !.r = d.r]
    BY <1>9, <2>2, Fields DEF MachineOK
  <2> HIDE DEF d
  <2>5. d = [b EXCEPT !.r = d.r]
    BY <1>9, <2>3, <2>4, Fields DEF MachineOK
  <2> QED
    BY <1>9, <2>5
<1> HIDE DEF b, c, d
<1>13. PopIP(x) = t
  BY <1>6 DEF PopIP, b, t
<1>14. z = [t EXCEPT !.r[SP] = (t.r[SP] + q) % Word]
  BY <1>2, <1>4, <1>5, <1>13 DEF Add
<1>15. [s2 EXCEPT ![SP] = (s2[SP] + q) % Word] = s
  <2> DEFINE u == Load(j)
             s5 == Slot(u, k + 2)
  <2>1. (Slot(u, k + 2) + 2) % Word = Slot(u, k + 1) /\ (Slot(u, k + 1) + 2) % Word = Slot(u, k)
    <3> DEFINE e == k + 1
    <3>1. e \in Nat /\ e <= 20 /\ k <= 20 /\ e + 1 = k + 2 /\ MachineOK(u)
      BY LoadStack
    <3> HIDE DEF e, u
    <3>2. (Slot(u, e + 1) + 2) % Word = Slot(u, e)
      BY <3>1, SlotAbove
    <3>3. (Slot(u, k + 1) + 2) % Word = Slot(u, k)
      BY <3>1, SlotAbove
    <3> QED
      BY <3>1, <3>2, <3>3 DEF e
  <2>2. s2[SP] = s5
    BY <1>10 DEF s2, OnSlot
  <2>3. s5 \in Nat
    <3>1. s2[SP] \in Words
      BY <1>9, <1>10, Parts
    <3> QED
      BY <2>2, <3>1, Numbers8
  <2> HIDE DEF u, s5
  <2>4. (s5 + 4) % Word = (((s5 + 2) % Word) + 2) % Word
    BY <2>3, SMT DEF Word, Byte
  <2>5. (s5 + 4) % Word = Slot(u, k)
    BY <2>1, <2>4 DEF s5
  <2>6. (s2[SP] + q) % Word = Slot(Load(j), k)
    BY <1>3, <2>2, <2>5 DEF u
  <2> QED
    BY <1>10, <2>6 DEF s2, s, OnSlot
<1>16. Does(z, d, a, s, f)
  <2>1. t.r = s2 /\ DOMAIN t = DOMAIN Reset
    BY <1>9, Fields DEF t, MachineOK
  <2>2. z = [t EXCEPT !.r = s]
    BY <1>14, <1>15, <2>1
  <2> QED
    BY <1>9, <1>12, <2>2, Fields DEF Does, MachineOK, t
<1>17. MachineOK(z) /\ Stands(d, j, l, s, f, k, v)
  BY <1>8, <1>11 DEF z
<1>18. Stands(z, j, a, s, f, k, v)
  BY <1>9, <1>16, <1>17, Onwards
<1> QED
  BY <1>18 DEF z

\* The registers and the flags change.
LEMMA StandsChanged ==
  ASSUME NEW j, NEW x, NEW i, NEW r, NEW f, NEW k, NEW v, Stands(x, j, i, r, f, k, v),
         NEW r2, NEW f2, Sane(f2), r2[SP] = r[SP], NEW z, MachineOK(z), z = [x EXCEPT !.r = r2, !.f = f2]
  PROVE  Stands(z, j, i, r2, f2, k, v)
<1>1. MachineOK(x) /\ x.r = r /\ x.f = f /\ x.ip = i
  BY DEF Stands, Interruptible
<1>2. Does(z, x, i, r2, f2)
  BY <1>1, Fields DEF Does, MachineOK
<1> QED
  BY <1>2, Onwards

\* JCXZ over eight bytes, and DEC.
LEMMA BranchLeads ==
  ASSUME NEW j, EvenStack(j), NEW i, Has(j, i, 227), Has(j, i + 1, 8),
         NEW r, NEW f, NEW k, NEW v, NEW l, l = IF r[CX] = 0 THEN i + 10 ELSE i + 2, l < 64
  PROVE  Leads(j, i, r, f, k, v, l, r, f, k, v)
<1> DEFINE a == i + 1
           d == IF r[CX] = 0 THEN 9 ELSE 1
<1> SUFFICES ASSUME NEW y, Stands(y, j, i, r, f, k, v), MachineOK(Execute(y))
             PROVE  Stands(Execute(y), j, l, r, f, k, v)
  BY DEF Leads
<1> DEFINE x == Fetch(y)
           z == Execute(y)
           op == 227
<1>1. op \in 160..255 /\ op \notin DOMAIN PrefixOf /\ Has(j, i, op)
  BY DEF PrefixOf
<1>2. ExecuteHigh(x, op) = Short(x, x.r[CX] = 0)
  BY DEF ExecuteHigh, Loops
<1>3. /\ a \in Nat /\ a < Len(Code[j.task]) /\ Code[j.task][a + 1] = 8 /\ d \in Int /\ a + d = l
      /\ l \in Nat
  BY DEF Has
<1>4. Signed(8, Byte) = 8 /\ 1 + 8 = 9 /\ 1 + 0 = 1
  <2>1. Signed(8, 256) = 8
    BY SMT DEF Signed, Sign, Bool
  <2> QED
    BY <2>1 DEF Byte
<1> HIDE DEF x, z, op, a, d
<1>5. Reads(x, y, j, a) /\ Stands(x, j, a, r, f, k, v) /\ z = ExecuteHigh(x, op)
  BY <1>1, OpcodeOf DEF x, z, a
<1>6. Code8(x) = 8
  BY <1>3, <1>5, CodeRead
<1>7. x.r = r
  BY <1>5 DEF Stands
<1>8. z = AdvanceIP(x, d)
  BY <1>2, <1>4, <1>5, <1>6, <1>7 DEF Short, d
<1>9. (a + d) % Word = l
  <2>1. 64 < Word /\ Word \in Nat \ {0}
    BY SMT DEF Word, Byte
  <2>2. l \in Nat /\ l < 64 /\ a + d = l
    BY <1>3
  <2>3. l % Word = l
    <3>1. l < Word
      BY <2>1, <2>2
    <3> QED
      BY <2>1, <2>2, <3>1, ModSmall
  <2> QED
    BY <2>2, <2>3
<1>10. Stands(z, j, l, r, f, k, v)
  BY <1>3, <1>5, <1>8, <1>9, StandsAhead
<1> QED
  BY <1>10 DEF z

Decrements(f, r, q, a, g) ==
  /\ a = (r[q] - 1) % Word /\ g = [flag_sub(f, r[q], 1, Word) EXCEPT !.cf = f.cf]

LEMMA SaneDecrement ==
  ASSUME NEW f, Sane(f), NEW r \in [0..7 -> Words], NEW q \in 0..7, NEW a, NEW g, Decrements(f, r, q, a, g)
  PROVE  Sane(g) /\ a \in Words
<1> DEFINE e == flag_sub(f, r[q], 1, Word)
           c == f.cf
<1>1. r[q] \in Int /\ 1 \in Int /\ Word \in Nat /\ 0 < Word
  BY Numbers8, Sizes
<1>2. Sane(e)
  BY <1>1, SaneDifference
<1>3. c \in 0..1
  BY FlagBits DEF Sane
<1>4. g = [e EXCEPT !.cf = c]
  BY DEF Decrements
<1>5. r[q] - 1 \in Int
  BY <1>1
<1>6. a \in Words
  BY <1>5, ByteFacts DEF Decrements
<1> HIDE DEF e, c
<1>7. g \in Flags
  BY <1>2, <1>3, <1>4, SetFlag DEF Sane
<1>8. DOMAIN e = FlagNames
  BY <1>2 DEF Sane, Flags
<1>9. g.ac = e.ac /\ g.of = e.of
  BY <1>4, <1>8 DEF FlagNames
<1> QED
  BY <1>2, <1>6, <1>7, <1>9 DEF Sane

LEMMA DecrementLeads ==
  ASSUME NEW j, EvenStack(j), NEW q \in 0..7, q # SP, NEW op, op = 72 + q, NEW i, Has(j, i, op),
         NEW r \in [0..7 -> Words], NEW f, NEW k, NEW v, NEW a, NEW g, Decrements(f, r, q, a, g)
  PROVE  Leads(j, i, r, f, k, v, i + 1, [r EXCEPT ![q] = a], g, k, v)
<1> DEFINE l == i + 1
           s == [r EXCEPT ![q] = a]
           o == [v |-> a, f |-> g]
           e == flag_sub(f, r[q], 1, Word)
<1> SUFFICES ASSUME NEW y, Stands(y, j, i, r, f, k, v), MachineOK(Execute(y))
             PROVE  Stands(Execute(y), j, l, s, g, k, v)
  BY DEF Leads
<1> DEFINE x == Fetch(y)
           t == [x EXCEPT !.f = g]
           z == Execute(y)
<1>1. op \in 64..159 /\ op \notin DOMAIN PrefixOf /\ op \in 72..79 /\ op - 72 = q
  BY DEF PrefixOf
<1>2. ExecuteMiddle(x, op) = DEC(x, q)
  BY <1>1 DEF ExecuteMiddle
<1>3. KeepCarry([v |-> a, f |-> e], f) = o /\ op_sub(f, r[q], 1, Word) = [v |-> a, f |-> e]
  BY DEF KeepCarry, op_sub, Decrements
<1>4. "v" \in DOMAIN o /\ o.v = a /\ o.f = g
  OBVIOUS
<1> HIDE DEF x, t, z, l, s, o, e
<1>5. Stands(x, j, l, r, f, k, v) /\ z = ExecuteMiddle(x, op)
  BY <1>1, OpcodeOf DEF x, z, l
<1>6. MachineOK(x) /\ x.r = r /\ x.f = f /\ f.ac = 0 /\ f.of \in 0..1
  BY <1>5 DEF Stands, Interruptible
<1>7. Sane(f)
  BY <1>6, Parts DEF Sane
<1>8. Sane(g) /\ a \in Words
  BY <1>7, SaneDecrement
<1>9. z = SetR(t, q, Word, a)
  BY <1>2, <1>3, <1>4, <1>5, <1>6 DEF DEC, StoreR, SetF, t
<1>10. z = [t EXCEPT !.r[q] = a]
  BY <1>9, Sizes DEF SetR
<1>11. t.r = r /\ DOMAIN x = DOMAIN Reset
  BY <1>6, Fields DEF t, MachineOK
<1>12. z = [x EXCEPT !.r = s, !.f = g]
  BY <1>10, <1>11, Fields DEF t, s
<1>13. s[SP] = r[SP] /\ MachineOK(z)
  BY DEF s, z
<1>14. Stands(z, j, l, s, g, k, v)
  BY <1>5, <1>8, <1>12, <1>13, StandsChanged
<1> QED
  BY <1>14 DEF z

-----------------------------------------------------------------------------
\* CALL f; INT 20h; f: JCXZ r; ADD AX,CX; PUSH CX; DEC CX; CALL f; POP CX; r: RET.
\* For each c from CX down the program calls itself once, with c and an offset to
\* return to on the stack.
CallCode(j) ==
  /\ Has(j, 0, 232) /\ Has(j, 1, 2) /\ Has(j, 2, 0) /\ Has(j, 3, 205) /\ Has(j, 4, 32)
  /\ Has(j, 5, 227) /\ Has(j, 6, 8) /\ Has(j, 7, 1) /\ Has(j, 8, 200) /\ Has(j, 9, 81) /\ Has(j, 10, 73)
  /\ Has(j, 11, 232) /\ Has(j, 12, 247) /\ Has(j, 13, 255) /\ Has(j, 14, 89) /\ Has(j, 15, 195)

Recurses(j) == EvenStack(j) /\ CallCode(j) /\ j.r[CX] <= 9

Triangle(c) == (c * (c + 1)) \div 2
Added(j, c) == (j.r[AX] + Triangle(j.r[CX]) - Triangle(c)) % Word
Within(j, k, c, a) == [OnSlot(j, j.r, k) EXCEPT ![AX] = a, ![CX] = c]
DepthAt(j, c) == 2 * (j.r[CX] - c) + 1
CallWords(j) ==
  [n \in 1..20 |-> IF n = 1 THEN 3 ELSE IF n % 2 = 1 THEN 14 ELSE j.r[CX] - (n \div 2) + 1]

LEMMA TriangleIs ==
  /\ Triangle(0) = 0
  /\ \A c \in 1..9 : Triangle(c) = Triangle(c - 1) + c
  /\ \A c \in 0..9 : Triangle(c) \in Nat
<1>1. /\ Triangle(0) = 0 /\ Triangle(1) = 1 /\ Triangle(2) = 3 /\ Triangle(3) = 6 /\ Triangle(4) = 10
      /\ Triangle(5) = 15 /\ Triangle(6) = 21 /\ Triangle(7) = 28 /\ Triangle(8) = 36 /\ Triangle(9) = 45
  BY DEF Triangle
<1>2. \A c \in 0..9 : c = 0 \/ c = 1 \/ c = 2 \/ c = 3 \/ c = 4 \/ c = 5 \/ c = 6 \/ c = 7 \/ c = 8 \/ c = 9
  OBVIOUS
<1>3. \A c \in 1..9 : c \in 0..9 /\ c # 0
  OBVIOUS
<1>4. \A c \in 1..9 : Triangle(c) = Triangle(c - 1) + c
  BY <1>1, <1>2, <1>3
<1>5. \A c \in 0..9 : Triangle(c) \in Nat
  BY <1>1, <1>2
<1> QED
  BY <1>1, <1>4, <1>5

LEMMA RecurseFacts ==
  ASSUME NEW j, Recurses(j)
  PROVE  /\ j.r \in [0..7 -> Words] /\ j.r[CX] \in 0..9 /\ j.r[AX] \in Words
         /\ \A c \in 0..j.r[CX] : Added(j, c) \in Words /\ c \in 0..9 /\ c \in Words
         /\ Added(j, j.r[CX]) = j.r[AX]
         /\ \A c \in 1..j.r[CX] : (Added(j, c) + c) % Word = Added(j, c - 1) /\ (c - 1) % Word = c - 1
<1> DEFINE n == j.r[CX]
           a == j.r[AX]
<1>1. j.r \in [0..7 -> Words]
  BY JobsAssumption DEF Recurses, EvenStack
<1>2. a \in Words /\ n \in Words
  BY <1>1 DEF AX, CX
<1>3. a \in Nat /\ a < Word /\ n \in Nat /\ n <= 9
  BY <1>2, Numbers8 DEF Recurses
<1>4. n \in 0..9
  BY <1>3
<1> HIDE DEF n, a
<1>5. \A c \in 0..n : c \in 0..9 /\ (c # 0 => c \in 1..9 /\ c - 1 \in 0..9)
  BY <1>4
<1>6. \A c \in 0..n : Triangle(c) \in Nat /\ Triangle(n) \in Nat
  BY <1>4, <1>5, TriangleIs
<1>7. 9 < Word
  BY SMT DEF Word, Byte
<1>8. \A c \in 0..n : c \in Words
  BY <1>4, <1>7, Sizes DEF Words
<1>9. \A c \in 0..n : Added(j, c) = (a + Triangle(n) - Triangle(c)) % Word
  BY DEF Added, a, n
<1>10. \A c \in 0..n : Added(j, c) \in Words
  <2>1. ASSUME NEW c \in 0..n
        PROVE  a + Triangle(n) - Triangle(c) \in Int
    <3>1. Triangle(c) \in Nat /\ Triangle(n) \in Nat /\ a \in Nat
      BY <1>3, <1>6
    <3> QED
      BY <3>1
  <2> QED
    BY <1>9, <2>1, ByteFacts
<1>11. Added(j, n) = a
  <2>1. n \in 0..n
    BY <1>4
  <2>2. Added(j, n) = a % Word
    BY <1>3, <1>6, <1>9, <2>1
  <2> QED
    BY <1>3, <2>2, ModSmall, Sizes
<1>12. ASSUME NEW c \in 1..n
       PROVE  (Added(j, c) + c) % Word = Added(j, c - 1) /\ (c - 1) % Word = c - 1
  <2> DEFINE e == c - 1
             x == a + Triangle(n) - Triangle(c)
             x2 == a + Triangle(n) - Triangle(e)
  <2>1. c \in 0..n /\ e \in 0..n /\ c \in 1..9 /\ c \in Nat /\ e \in Nat /\ e < 9
    BY <1>4
  <2>2. Triangle(c) = Triangle(e) + c
    BY <2>1, TriangleIs
  <2> HIDE DEF e
  <2>3. Triangle(c) \in Nat /\ Triangle(e) \in Nat /\ Triangle(n) \in Nat
    BY <1>6, <2>1
  <2>4. x + c = x2 /\ x \in Int /\ c \in Int
    BY <1>3, <2>1, <2>2, <2>3
  <2>5. Added(j, c) = x % Word /\ Added(j, e) = x2 % Word
    BY <1>9, <2>1
  <2> HIDE DEF x, x2
  <2>6. ((x % Word) + c) % Word = (x + c) % Word
    BY <2>4, SMT DEF Word, Byte
  <2>7. e % Word = e
    <3>1. e < Word /\ Word \in Nat \ {0}
      BY <1>7, <2>1, Sizes
    <3> QED
      BY <2>1, <3>1, ModSmall
  <2> QED
    BY <2>4, <2>5, <2>6, <2>7 DEF e
<1> QED
  BY <1>1, <1>2, <1>4, <1>5, <1>8, <1>10, <1>11, <1>12 DEF n, a

LEMMA WithinIs ==
  ASSUME NEW j, j.r \in [0..7 -> Words]
  PROVE  /\ \A k, c, a : /\ Within(j, k, c, a)[AX] = a /\ Within(j, k, c, a)[CX] = c
                         /\ Within(j, k, c, a)[SP] = Slot(Load(j), k)
                         /\ \A l : OnSlot(j, Within(j, k, c, a), l) = Within(j, l, c, a)
                         /\ \A e : [Within(j, k, c, a) EXCEPT ![AX] = e] = Within(j, k, c, e)
                         /\ \A e : [Within(j, k, c, a) EXCEPT ![CX] = e] = Within(j, k, e, a)
         /\ \A k : OnSlot(j, j.r, k) = Within(j, k, j.r[CX], j.r[AX])
<1>1. AX \in 0..7 /\ CX \in 0..7 /\ SP \in 0..7 /\ AX # CX /\ AX # SP /\ CX # SP
  BY DEF AX, CX, SP
<1> DEFINE r == j.r
           x == Load(j)
<1> HIDE DEF r, x
<1>2. r \in [0..7 -> Words]
  BY DEF r
<1>3. ASSUME NEW k, NEW c, NEW a
      PROVE  Within(j, k, c, a) = [i \in 0..7 |-> IF i = AX THEN a ELSE IF i = CX THEN c ELSE IF i = SP THEN Slot(x, k) ELSE r[i]]
  BY <1>1, <1>2 DEF Within, OnSlot, r, x
<1>4. ASSUME NEW k, NEW c, NEW a
      PROVE  /\ Within(j, k, c, a)[AX] = a /\ Within(j, k, c, a)[CX] = c
             /\ Within(j, k, c, a)[SP] = Slot(x, k)
             /\ \A l : OnSlot(j, Within(j, k, c, a), l) = Within(j, l, c, a)
             /\ \A e : [Within(j, k, c, a) EXCEPT ![AX] = e] = Within(j, k, c, e)
             /\ \A e : [Within(j, k, c, a) EXCEPT ![CX] = e] = Within(j, k, e, a)
  BY <1>1, <1>3 DEF OnSlot, x
<1>5. ASSUME NEW k
      PROVE  OnSlot(j, r, k) = Within(j, k, r[CX], r[AX])
  <2> DEFINE s == Slot(x, k)
             u == Within(j, k, r[CX], r[AX])
  <2> HIDE DEF s, u
  <2>1. OnSlot(j, r, k) = [r EXCEPT ![SP] = s]
    BY DEF OnSlot, s, x
  <2>2. u = [i \in 0..7 |-> IF i = AX THEN r[AX] ELSE IF i = CX THEN r[CX] ELSE IF i = SP THEN s ELSE r[i]]
    BY <1>3 DEF s, u
  <2>3. \A i \in 0..7 : u[i] = [r EXCEPT ![SP] = s][i]
    BY <1>1, <1>2, <2>2
  <2>4. u = [i \in 0..7 |-> u[i]]
    BY <2>2
  <2>5. u = [r EXCEPT ![SP] = s]
    BY <1>2, <2>3, <2>4
  <2> QED
    BY <2>1, <2>5 DEF u
<1> QED
  BY <1>4, <1>5 DEF r, x

LEMMA CallWordsAre ==
  ASSUME NEW j, Recurses(j)
  PROVE  /\ CallWords(j)[1] = 3 /\ DepthAt(j, j.r[CX]) = 1
         /\ \A c \in 0..j.r[CX] : DepthAt(j, c) \in 1..19
         /\ \A c \in 1..j.r[CX] :
              /\ CallWords(j)[DepthAt(j, c) + 1] = c
              /\ CallWords(j)[DepthAt(j, c) + 2] = 14
              /\ DepthAt(j, c - 1) = DepthAt(j, c) + 2
<1> DEFINE n == j.r[CX]
<1>1. n \in 0..9
  BY RecurseFacts
<1> HIDE DEF n
<1>2. CallWords(j) = [i \in 1..20 |-> IF i = 1 THEN 3 ELSE IF i % 2 = 1 THEN 14 ELSE n - (i \div 2) + 1]
  BY DEF CallWords, n
<1>3. \A c : DepthAt(j, c) = 2 * (n - c) + 1
  BY DEF DepthAt, n
<1>4. \A c \in 0..n : DepthAt(j, c) \in 1..19
  BY <1>1, <1>3
<1>5. ASSUME NEW c \in 1..n
      PROVE  /\ CallWords(j)[DepthAt(j, c) + 1] = c
             /\ CallWords(j)[DepthAt(j, c) + 2] = 14
             /\ DepthAt(j, c - 1) = DepthAt(j, c) + 2
  <2> DEFINE q == n - c + 1
             a == DepthAt(j, c) + 1
             b == DepthAt(j, c) + 2
  <2>1. q \in 1..9 /\ c = n - q + 1
    BY <1>1
  <2>2. a = 2 * q /\ b = 2 * q + 1
    BY <1>1, <1>3
  <2>3. DepthAt(j, c - 1) = 2 * (n - (c - 1)) + 1
    BY <1>3
  <2>4. DepthAt(j, c - 1) = b
    BY <1>1, <2>2, <2>3
  <2> HIDE DEF q, a, b
  <2>5. a \in 1..20 /\ a # 1 /\ a % 2 = 0 /\ a \div 2 = q /\ b \in 1..20 /\ b # 1 /\ b % 2 = 1
    BY <2>1, <2>2
  <2> QED
    BY <1>2, <2>1, <2>4, <2>5 DEF a, b
<1>6. CallWords(j)[1] = 3 /\ DepthAt(j, n) = 1
  BY <1>1, <1>2, <1>3
<1> QED
  BY <1>4, <1>5, <1>6 DEF n

\* One instruction of the program.
Called(j, i, k, c, b, f) == Point(i, Within(j, k, c, Added(j, b)), f, k, CallWords(j))

LEMMA CalledLeads ==
  ASSUME NEW j, NEW i, NEW k, NEW c, NEW b, NEW f, NEW i2, NEW k2, NEW c2, NEW b2, NEW f2,
         Leads(j, i, Within(j, k, c, Added(j, b)), f, k, CallWords(j),
               i2, Within(j, k2, c2, Added(j, b2)), f2, k2, CallWords(j))
  PROVE  LeadsTo(j, Called(j, i, k, c, b, f), Called(j, i2, k2, c2, b2, f2))
BY DEF LeadsTo, Called, Point

LEMMA FirstCall ==
  ASSUME NEW j, Recurses(j), NEW n, n = j.r[CX]
  PROVE  LeadsTo(j, Begin(j), Called(j, 5, 1, n, n, Load(j).f))
<1> DEFINE i == 0
           lo == 2
           hi == 0
           c == 2
           l == 5
           k == 0
           f == Load(j).f
           r == j.r
           v == <<>>
           v2 == CallWords(j)
<1>1. EvenStack(j) /\ Has(j, i, 232) /\ Has(j, i + 1, lo) /\ Has(j, i + 2, hi)
  BY DEF Recurses, CallCode
<1>2. c \in Int /\ c = lo + Byte * hi /\ (i + 3 + c) % Word = l
  BY SMT DEF Word, Byte
<1>3. k \in Nat /\ k < 20 /\ k + 1 = 1 /\ i + 3 = 3
  OBVIOUS
<1>4. v2[k + 1] = i + 3
  BY CallWordsAre
<1>5. SameWords(v2, v, k)
  <2>1. \A m2 \in Nat : ~(1 <= m2 /\ m2 <= k)
    OBVIOUS
  <2> QED
    BY <2>1 DEF SameWords
<1> HIDE DEF i, lo, hi, c, l, k, f, r, v, v2
<1>6. Leads(j, i, r, f, k, v, l, OnSlot(j, r, k + 1), f, k + 1, v2)
  BY <1>1, <1>2, <1>3, <1>4, <1>5, CallLeads
<1>7. OnSlot(j, r, 1) = Within(j, 1, n, Added(j, n))
  BY RecurseFacts, WithinIs DEF r
<1>8. Leads(j, 0, r, f, 0, <<>>, 5, Within(j, 1, n, Added(j, n)), f, 1, v2)
  BY <1>3, <1>6, <1>7 DEF i, k, v, l
<1> QED
  BY <1>8 DEF LeadsTo, Begin, Called, Point, r, f, v2

LEMMA CallBranches ==
  ASSUME NEW j, Recurses(j), NEW k, NEW c \in Nat, NEW b, NEW f, NEW i2, i2 = IF c = 0 THEN 15 ELSE 7
  PROVE  LeadsTo(j, Called(j, 5, k, c, b, f), Called(j, i2, k, c, b, f))
<1> DEFINE i == 5
           r == Within(j, k, c, Added(j, b))
           v == CallWords(j)
<1>1. EvenStack(j) /\ Has(j, i, 227) /\ Has(j, i + 1, 8)
  BY DEF Recurses, CallCode
<1>2. r[CX] = c
  BY RecurseFacts, WithinIs
<1>3. i2 = (IF r[CX] = 0 THEN i + 10 ELSE i + 2) /\ i2 < 64
  BY <1>2
<1> HIDE DEF i, r, v
<1>4. Leads(j, i, r, f, k, v, i2, r, f, k, v)
  BY <1>1, <1>3, BranchLeads
<1> QED
  BY <1>4, CalledLeads DEF i, r, v

LEMMA CallAdds ==
  ASSUME NEW j, Recurses(j), NEW k, NEW c \in 1..j.r[CX], NEW f, Sane(f)
  PROVE  Within(j, k, c, Added(j, c)) \in [0..7 -> Words]
           => \E g : Sane(g) /\ LeadsTo(j, Called(j, 7, k, c, c, f), Called(j, 9, k, c, c - 1, g))
<1> DEFINE i == 7
           op == 1
           b == 200
           reg == CX
           rm == AX
           a == Added(j, c)
           r == Within(j, k, c, a)
           v == CallWords(j)
           o == Operation(op \div 8, f, r[rm], r[reg], Word)
           d == c - 1
<1> SUFFICES ASSUME r \in [0..7 -> Words]
             PROVE  \E g : Sane(g) /\ LeadsTo(j, Called(j, i, k, c, c, f), Called(j, 9, k, c, d, g))
  OBVIOUS
<1>1. /\ EvenStack(j) /\ i \in Nat /\ Has(j, i, op) /\ Has(j, i + 1, b) /\ WordSum(op) /\ Registers(b, reg, rm)
      /\ rm # SP /\ i + 2 = 9 /\ op \div 8 = 0
  BY DEF Recurses, CallCode, WordSum, Registers, AX, CX, SP
<1>2. r[AX] = a /\ r[CX] = c /\ [r EXCEPT ![AX] = Added(j, d)] = Within(j, k, c, Added(j, d))
  <2>1. j.r \in [0..7 -> Words]
    BY RecurseFacts
  <2> HIDE DEF a, d
  <2>2. Within(j, k, c, a)[AX] = a /\ Within(j, k, c, a)[CX] = c
    BY <2>1, WithinIs
  <2>3. [Within(j, k, c, a) EXCEPT ![AX] = Added(j, d)] = Within(j, k, c, Added(j, d))
    BY <2>1, WithinIs
  <2> QED
    BY <2>2, <2>3
<1>3. (a + c) % Word = Added(j, d)
  BY RecurseFacts
<1> HIDE DEF i, op, b, reg, rm, a, r, v, o, d
<1>4. Places(r, rm) /\ Sum(op, f, r, rm, reg, o)
  BY <1>1 DEF Places, Sum, o
<1>5. Leads(j, i, r, f, k, v, i + 2, [r EXCEPT ![rm] = o.v], o.f, k, v) /\ Worked(o, Word)
  BY <1>1, <1>4, WordsSummed
<1>6. o.v = Added(j, d)
  <2>1. o = op_add(f, r[AX], r[CX], Word)
    BY <1>1 DEF Operation, o, rm, reg
  <2> QED
    BY <1>2, <1>3, <2>1 DEF op_add
<1>7. Sane(o.f)
  BY <1>5 DEF Worked
<1>8. Leads(j, i, r, f, k, v, 9, Within(j, k, c, Added(j, d)), o.f, k, v)
  BY <1>1, <1>2, <1>5, <1>6 DEF rm
<1>9. LeadsTo(j, Called(j, i, k, c, c, f), Called(j, 9, k, c, d, o.f))
  BY <1>8, CalledLeads DEF r, a, v
<1> QED
  BY <1>7, <1>9

LEMMA CallSaves ==
  ASSUME NEW j, Recurses(j), NEW k \in Nat, k < 20, NEW c, c \in Words, CallWords(j)[k + 1] = c, NEW b, NEW f
  PROVE  LeadsTo(j, Called(j, 9, k, c, b, f), Called(j, 10, k + 1, c, b, f))
<1> DEFINE i == 9
           op == 81
           q == CX
           a == Added(j, b)
           r == Within(j, k, c, a)
           v == CallWords(j)
           l == k + 1
<1>1. EvenStack(j) /\ Has(j, i, op) /\ q \in 0..7 /\ op = 80 + q /\ i + 1 = 10
  BY DEF Recurses, CallCode, CX
<1>2. r[CX] = c /\ OnSlot(j, r, l) = Within(j, l, c, a)
  <2>1. j.r \in [0..7 -> Words]
    BY RecurseFacts
  <2> HIDE DEF a, l
  <2> QED
    BY <2>1, WithinIs
<1>3. SameWords(v, v, k) /\ v[k + 1] = r[q]
  BY <1>2 DEF SameWords
<1> HIDE DEF i, op, q, a, r, v
<1>4. Leads(j, i, r, f, k, v, i + 1, OnSlot(j, r, k + 1), f, k + 1, v)
  BY <1>1, <1>3, RegisterPushed
<1>5. Leads(j, i, r, f, k, v, 10, Within(j, l, c, a), f, l, v)
  BY <1>1, <1>2, <1>4
<1> QED
  BY <1>5, CalledLeads DEF i, r, a, v

LEMMA CallCounts ==
  ASSUME NEW j, Recurses(j), NEW k, NEW c \in 1..j.r[CX], NEW b, NEW f, Sane(f)
  PROVE  Within(j, k, c, Added(j, b)) \in [0..7 -> Words]
           => \E g : Sane(g) /\ LeadsTo(j, Called(j, 10, k, c, b, f), Called(j, 11, k, c - 1, b, g))
<1> DEFINE i == 10
           op == 73
           q == CX
           a == Added(j, b)
           r == Within(j, k, c, a)
           v == CallWords(j)
           d == c - 1
           g == [flag_sub(f, r[q], 1, Word) EXCEPT !.cf = f.cf]
<1> SUFFICES ASSUME r \in [0..7 -> Words]
             PROVE  \E e : Sane(e) /\ LeadsTo(j, Called(j, i, k, c, b, f), Called(j, 11, k, d, b, e))
  OBVIOUS
<1>1. EvenStack(j) /\ Has(j, i, op) /\ q \in 0..7 /\ q # SP /\ op = 72 + q /\ i + 1 = 11
  BY DEF Recurses, CallCode, CX, SP
<1>2. r[CX] = c /\ [r EXCEPT ![CX] = d] = Within(j, k, d, a)
  <2>1. j.r \in [0..7 -> Words]
    BY RecurseFacts
  <2> HIDE DEF a, d
  <2> QED
    BY <2>1, WithinIs
<1>3. d = (r[q] - 1) % Word
  BY <1>2, RecurseFacts
<1> HIDE DEF i, op, q, a, r, v, d, g
<1>4. Decrements(f, r, q, d, g)
  BY <1>3 DEF Decrements, g
<1>5. Leads(j, i, r, f, k, v, i + 1, [r EXCEPT ![q] = d], g, k, v) /\ Sane(g)
  BY <1>1, <1>4, DecrementLeads, SaneDecrement
<1>6. Leads(j, i, r, f, k, v, 11, Within(j, k, d, a), g, k, v)
  BY <1>1, <1>2, <1>5 DEF q
<1>7. LeadsTo(j, Called(j, i, k, c, b, f), Called(j, 11, k, d, b, g))
  BY <1>6, CalledLeads DEF r, a, v
<1> QED
  BY <1>5, <1>7

LEMMA CallAgain ==
  ASSUME NEW j, Recurses(j), NEW k \in Nat, k < 20, CallWords(j)[k + 1] = 14, NEW c, NEW b, NEW f
  PROVE  LeadsTo(j, Called(j, 11, k, c, b, f), Called(j, 5, k + 1, c, b, f))
<1> DEFINE i == 11
           lo == 247
           hi == 255
           d == 65527
           l == 5
           a == Added(j, b)
           r == Within(j, k, c, a)
           v == CallWords(j)
           n == k + 1
<1>1. EvenStack(j) /\ Has(j, i, 232) /\ Has(j, i + 1, lo) /\ Has(j, i + 2, hi)
  BY DEF Recurses, CallCode
<1>2. d \in Int /\ d = lo + Byte * hi /\ (i + 3 + d) % Word = l
  BY SMT DEF Word, Byte
<1>3. SameWords(v, v, k) /\ v[k + 1] = i + 3
  BY DEF SameWords
<1>4. OnSlot(j, r, n) = Within(j, n, c, a)
  <2>1. j.r \in [0..7 -> Words]
    BY RecurseFacts
  <2> HIDE DEF a, n
  <2> QED
    BY <2>1, WithinIs
<1> HIDE DEF i, lo, hi, d, l, a, r, v
<1>5. Leads(j, i, r, f, k, v, l, OnSlot(j, r, k + 1), f, k + 1, v)
  BY <1>1, <1>2, <1>3, CallLeads
<1>6. Leads(j, i, r, f, k, v, 5, Within(j, n, c, a), f, n, v)
  BY <1>4, <1>5 DEF l
<1> QED
  BY <1>6, CalledLeads DEF i, r, a, v

LEMMA CallRestores ==
  ASSUME NEW j, Recurses(j), NEW k \in Nat, k < 20, NEW d, CallWords(j)[k + 1] = d, NEW c, NEW b, NEW f
  PROVE  LeadsTo(j, Called(j, 14, k + 1, c, b, f), Called(j, 15, k, d, b, f))
<1> DEFINE i == 14
           op == 89
           q == CX
           a == Added(j, b)
           n == k + 1
           r == Within(j, n, c, a)
           v == CallWords(j)
<1>1. EvenStack(j) /\ Has(j, i, op) /\ q \in 0..7 /\ q # SP /\ op = 88 + q /\ i + 1 = 15
  BY DEF Recurses, CallCode, CX, SP
<1>2. [OnSlot(j, r, k) EXCEPT ![CX] = d] = Within(j, k, d, a)
  <2>1. j.r \in [0..7 -> Words]
    BY RecurseFacts
  <2> HIDE DEF a, n
  <2>2. OnSlot(j, r, k) = Within(j, k, c, a)
    BY <2>1, WithinIs
  <2> QED
    BY <2>1, <2>2, WithinIs
<1>3. v[k + 1] = d
  OBVIOUS
<1> HIDE DEF i, op, q, a, r, v
<1>4. Leads(j, i, r, f, k + 1, v, i + 1, [OnSlot(j, r, k) EXCEPT ![q] = v[k + 1]], f, k, v)
  BY <1>1, RegisterPopped
<1>5. Leads(j, i, r, f, n, v, 15, Within(j, k, d, a), f, k, v)
  BY <1>1, <1>2, <1>3, <1>4 DEF q
<1> QED
  BY <1>5, CalledLeads DEF i, r, a, v

LEMMA CallReturns ==
  ASSUME NEW j, Recurses(j), NEW k \in Nat, k < 20, NEW l, CallWords(j)[k + 1] = l, NEW c, NEW b, NEW f
  PROVE  LeadsTo(j, Called(j, 15, k + 1, c, b, f), Called(j, l, k, c, b, f))
<1> DEFINE i == 15
           a == Added(j, b)
           n == k + 1
           r == Within(j, n, c, a)
           v == CallWords(j)
<1>1. EvenStack(j) /\ Has(j, i, 195)
  BY DEF Recurses, CallCode
<1>2. OnSlot(j, r, k) = Within(j, k, c, a)
  <2>1. j.r \in [0..7 -> Words]
    BY RecurseFacts
  <2> HIDE DEF a, n
  <2> QED
    BY <2>1, WithinIs
<1>3. v[k + 1] = l
  OBVIOUS
<1> HIDE DEF i, a, r, v
<1>4. Leads(j, i, r, f, k + 1, v, v[k + 1], OnSlot(j, r, k), f, k, v)
  BY <1>1, ReturnLeads
<1>5. Leads(j, i, r, f, n, v, l, Within(j, k, c, a), f, k, v)
  BY <1>2, <1>3, <1>4
<1> QED
  BY <1>5, CalledLeads DEF i, r, a, v

\* Where the program can stand.
SaneFlags == {f \in Flags : f.ac = 0 /\ f.of \in 0..1}
Spots(j) == [i : 0..15, r : [0..7 -> Words], f : SaneFlags, k : 0..20, v : {<<>>, CallWords(j)}]

RecursePoint(j, p) ==
  LET n == j.r[CX]
      Here(i, k, c, b) == p = Called(j, i, k, c, b, p.f)
  IN  \/ p = Begin(j) \/ Here(3, 0, n, 0)
      \/ \E c \in 0..n :
           LET k == DepthAt(j, c)
           IN  \/ Here(5, k, c, c) \/ Here(15, k, c, 0)
               \/ c < n /\ Here(14, k - 1, c, 0)
               \/ c > 0 /\ \/ Here(7, k, c, c) \/ Here(9, k, c, c - 1)
                           \/ Here(10, k + 1, c, c - 1) \/ Here(11, k + 1, c - 1, c - 1)

RecurseWay(j) == {p \in Spots(j) : RecursePoint(j, p)}

LEMMA SpotIs ==
  ASSUME NEW j, Recurses(j), NEW i \in 0..15, NEW k \in 0..20, NEW c \in 0..j.r[CX], NEW b \in 0..j.r[CX],
         NEW f, Sane(f)
  PROVE  /\ Within(j, k, c, Added(j, b)) \in [0..7 -> Words]
         /\ Called(j, i, k, c, b, f) \in Spots(j) /\ Called(j, i, k, c, b, f).f = f
<1> DEFINE a == Added(j, b)
           x == Load(j)
           s == Slot(x, k)
           r == Within(j, k, c, a)
           v == CallWords(j)
<1>1. a \in Words /\ c \in Words /\ j.r \in [0..7 -> Words]
  BY RecurseFacts
<1>2. s \in Words
  <2>1. StackInRAM(x) /\ k \in 0..32
    BY LoadStack DEF Recurses
  <2> HIDE DEF x
  <2> QED
    BY <2>1, BelowEven DEF Slot, Evens
<1> HIDE DEF a, x, s
<1>3. r \in [0..7 -> Words]
  BY <1>1, <1>2 DEF Within, OnSlot, s, x
<1>4. f \in SaneFlags /\ v \in {<<>>, CallWords(j)} /\ Called(j, i, k, c, b, f) = Point(i, r, f, k, v)
  BY DEF Sane, SaneFlags, Called, a
<1> HIDE DEF r, v
<1>5. Point(i, r, f, k, v) \in [i : 0..15, r : [0..7 -> Words], f : SaneFlags, k : 0..20, v : {<<>>, CallWords(j)}]
  BY <1>3, <1>4 DEF Point
<1>6. Point(i, r, f, k, v).f = f
  BY DEF Point
<1> QED
  BY <1>3, <1>4, <1>5, <1>6 DEF Spots, r, a

\* A point of the program, one call deep for each number counted down.
LEMMA OnRecurseWay ==
  ASSUME NEW j, Recurses(j), NEW n, n = j.r[CX], NEW f, Sane(f)
  PROVE  /\ Called(j, 3, 0, n, 0, f) \in RecurseWay(j)
         /\ \A c \in 0..n : /\ Called(j, 5, DepthAt(j, c), c, c, f) \in RecurseWay(j)
                            /\ Called(j, 15, DepthAt(j, c), c, 0, f) \in RecurseWay(j)
         /\ \A c \in 0..n : c < n => Called(j, 14, DepthAt(j, c) - 1, c, 0, f) \in RecurseWay(j)
         /\ \A c \in 1..n : /\ Called(j, 7, DepthAt(j, c), c, c, f) \in RecurseWay(j)
                            /\ Called(j, 9, DepthAt(j, c), c, c - 1, f) \in RecurseWay(j)
                            /\ Called(j, 10, DepthAt(j, c) + 1, c, c - 1, f) \in RecurseWay(j)
                            /\ Called(j, 11, DepthAt(j, c) + 1, c - 1, c - 1, f) \in RecurseWay(j)
<1>1. n \in 0..9 /\ 0 \in 0..n /\ n \in 0..n
  BY RecurseFacts
<1>2. \A c \in 0..n : /\ DepthAt(j, c) \in 0..20 /\ DepthAt(j, c) + 1 \in 0..20
                      /\ DepthAt(j, c) - 1 \in 0..20 /\ DepthAt(j, c) \in 1..19
  BY CallWordsAre
<1>3. \A c \in 1..n : c \in 0..n /\ c - 1 \in 0..n /\ c > 0
  BY <1>1
<1>4. /\ 3 \in 0..15 /\ 5 \in 0..15 /\ 15 \in 0..15 /\ 14 \in 0..15 /\ 7 \in 0..15 /\ 9 \in 0..15
      /\ 10 \in 0..15 /\ 11 \in 0..15 /\ 0 \in 0..20
  OBVIOUS
<1>0. \A i \in 0..15, k \in 0..20, c \in 0..n, b \in 0..n :
        Called(j, i, k, c, b, f) \in Spots(j) /\ Called(j, i, k, c, b, f).f = f
  <2> SUFFICES ASSUME NEW i \in 0..15, NEW k \in 0..20, NEW c \in 0..n, NEW b \in 0..n
               PROVE  Called(j, i, k, c, b, f) \in Spots(j) /\ Called(j, i, k, c, b, f).f = f
    OBVIOUS
  <2>1. c \in 0..j.r[CX] /\ b \in 0..j.r[CX]
    OBVIOUS
  <2>2. Called(j, i, k, c, b, f) \in Spots(j)
    BY ONLY <2>1, SpotIs, Recurses(j), Sane(f), i \in 0..15, k \in 0..20
  <2>3. Called(j, i, k, c, b, f).f = f
    BY DEF Called, Point
  <2> QED
    BY <2>2, <2>3, SMTT(30)
<1>5. Called(j, 3, 0, n, 0, f) \in RecurseWay(j)
  <2> DEFINE p == Called(j, 3, 0, n, 0, f)
  <2>0. 3 \in 0..15 /\ 0 \in 0..20
    OBVIOUS
  <2>1. p \in Spots(j) /\ p.f = f
    BY <1>0, <1>1, <2>0
  <2>2. RecursePoint(j, p)
    BY <2>1 DEF RecursePoint
  <2> QED
    BY <2>1, <2>2 DEF RecurseWay
<1>6. ASSUME NEW c \in 0..n, NEW k, k = DepthAt(j, c)
      PROVE  Called(j, 5, k, c, c, f) \in RecurseWay(j) /\ Called(j, 15, k, c, 0, f) \in RecurseWay(j)
  <2> DEFINE p == Called(j, 5, k, c, c, f)
             q == Called(j, 15, k, c, 0, f)
  <2>0. k \in 0..20
    BY <1>2, <1>6
  <2>1. p \in Spots(j) /\ p.f = f
    BY <1>0, <1>4, <2>0, ZenonT(60)
  <2>2. q \in Spots(j) /\ q.f = f
    BY <1>0, <1>1, <1>4, <2>0, ZenonT(60)
  <2>3. RecursePoint(j, p) /\ RecursePoint(j, q)
    BY <1>6, <2>1, <2>2 DEF RecursePoint
  <2> QED
    BY <2>1, <2>2, <2>3 DEF RecurseWay
<1>7. ASSUME NEW c \in 0..n, c < n, NEW k, k = DepthAt(j, c)
      PROVE  Called(j, 14, k - 1, c, 0, f) \in RecurseWay(j)
  <2> DEFINE p == Called(j, 14, k - 1, c, 0, f)
  <2>0. k - 1 \in 0..20
    BY <1>2, <1>7
  <2>1. p \in Spots(j) /\ p.f = f
    BY <1>0, <1>1, <1>4, <2>0, ZenonT(60)
  <2>2. RecursePoint(j, p)
    BY <1>7, <2>1 DEF RecursePoint
  <2> QED
    BY <2>1, <2>2 DEF RecurseWay
<1>8. ASSUME NEW c \in 1..n, NEW k, k = DepthAt(j, c), NEW d, d = c - 1
      PROVE  /\ Called(j, 7, k, c, c, f) \in RecurseWay(j) /\ Called(j, 9, k, c, d, f) \in RecurseWay(j)
             /\ Called(j, 10, k + 1, c, d, f) \in RecurseWay(j) /\ Called(j, 11, k + 1, d, d, f) \in RecurseWay(j)
  <2> DEFINE p == Called(j, 7, k, c, c, f)
             q == Called(j, 9, k, c, d, f)
             s == Called(j, 10, k + 1, c, d, f)
             t == Called(j, 11, k + 1, d, d, f)
  <2>0. c \in 0..n /\ d \in 0..n /\ k \in 0..20 /\ k + 1 \in 0..20 /\ c > 0
    BY <1>2, <1>3, <1>8
  <2>1. p \in Spots(j) /\ p.f = f
    BY <1>0, <1>4, <2>0, ZenonT(60)
  <2>2. q \in Spots(j) /\ q.f = f
    BY <1>0, <1>4, <2>0, ZenonT(60)
  <2>3. s \in Spots(j) /\ s.f = f
    BY <1>0, <1>4, <2>0, ZenonT(60)
  <2>4. t \in Spots(j) /\ t.f = f
    BY <1>0, <1>4, <2>0, ZenonT(60)
  <2>5. RecursePoint(j, p) /\ RecursePoint(j, q)
    BY <1>8, <2>0, <2>1, <2>2 DEF RecursePoint
  <2>6. RecursePoint(j, s) /\ RecursePoint(j, t)
    BY <1>8, <2>0, <2>3, <2>4 DEF RecursePoint
  <2> QED
    BY <2>1, <2>2, <2>3, <2>4, <2>5, <2>6 DEF RecurseWay
<1> QED
  BY <1>5, <1>6, <1>7, <1>8

LEMMA RecurseStep ==
  ASSUME NEW j, Recurses(j)
  PROVE  Sound(j, RecurseWay(j))
<1> DEFINE n == j.r[CX]
           way == RecurseWay(j)
           Proceeds(p) == \E q \in way : LeadsTo(j, p, q)
<1>1. n \in 0..9 /\ n \in 0..n /\ 0 \in 0..n /\ EvenStack(j)
  BY RecurseFacts DEF Recurses
<1>2. Sane(Load(j).f)
  BY SaneAtFirst DEF Recurses, EvenStack
<1>3. DepthAt(j, n) = 1 /\ CallWords(j)[1] = 3
  BY CallWordsAre
<1>4. \A c \in 0..n : DepthAt(j, c) \in 1..19
  BY CallWordsAre
<1>5. ASSUME NEW c \in 1..n
      PROVE  /\ c \in 0..n /\ c - 1 \in 0..n /\ c - 1 < n /\ c \in Nat /\ c # 0 /\ c \in Words
             /\ CallWords(j)[DepthAt(j, c) + 1] = c /\ CallWords(j)[DepthAt(j, c) + 2] = 14
             /\ DepthAt(j, c - 1) = DepthAt(j, c) + 2
  <2>1. c \in 0..n /\ c - 1 \in 0..n /\ c - 1 < n /\ c \in Nat /\ c # 0
    BY <1>1
  <2>2. c \in Words
    BY <2>1, RecurseFacts
  <2>3. /\ CallWords(j)[DepthAt(j, c) + 1] = c /\ CallWords(j)[DepthAt(j, c) + 2] = 14
        /\ DepthAt(j, c - 1) = DepthAt(j, c) + 2
    BY CallWordsAre
  <2> QED
    BY <2>1, <2>2, <2>3
<1>6. Begin(j) \in way
  <2> DEFINE v == CallWords(j)
             e == <<>>
  <2>1. j.r \in [0..7 -> Words] /\ Load(j).f \in SaneFlags
    BY <1>2, RecurseFacts DEF Sane, SaneFlags
  <2>2. Begin(j) = Point(0, j.r, Load(j).f, 0, e)
    BY DEF Begin
  <2>3. 0 \in 0..15 /\ 0 \in 0..20 /\ e \in {e, v}
    OBVIOUS
  <2>4. Spots(j) = [i : 0..15, r : [0..7 -> Words], f : SaneFlags, k : 0..20, v : {e, v}]
    BY DEF Spots
  <2> HIDE DEF v, e
  <2>5. Begin(j) \in Spots(j)
    BY <2>1, <2>2, <2>3, <2>4 DEF Point
  <2>6. RecursePoint(j, Begin(j))
    BY DEF RecursePoint
  <2> QED
    BY <2>5, <2>6 DEF RecurseWay
<1>7. Proceeds(Begin(j))
  <2>1. Called(j, 5, 1, n, n, Load(j).f) \in way
    BY <1>1, <1>2, <1>3, OnRecurseWay
  <2>2. LeadsTo(j, Begin(j), Called(j, 5, 1, n, n, Load(j).f))
    BY FirstCall
  <2> QED
    BY <2>1, <2>2
<1>8. ASSUME NEW c \in 0..n, NEW k, k = DepthAt(j, c), NEW f, Sane(f)
      PROVE  Proceeds(Called(j, 5, k, c, c, f)) /\ Proceeds(Called(j, 15, k, c, 0, f))
  <2>1. Proceeds(Called(j, 5, k, c, c, f))
    <3> DEFINE i2 == IF c = 0 THEN 15 ELSE 7
    <3>1. Called(j, i2, k, c, c, f) \in way
      <4>1. CASE c = 0
        BY <1>8, <4>1, OnRecurseWay
      <4>2. CASE c # 0
        <5>1. c \in 1..n
          BY <1>1, <4>2
        <5> QED
          BY <1>8, <4>2, <5>1, OnRecurseWay
      <4> QED
        BY <4>1, <4>2
    <3>2. LeadsTo(j, Called(j, 5, k, c, c, f), Called(j, i2, k, c, c, f))
      <4>1. c \in Nat
        BY <1>1
      <4> QED
        BY <4>1, CallBranches
    <3> QED
      BY <3>1, <3>2
  <2>2. Proceeds(Called(j, 15, k, c, 0, f))
    <3> DEFINE d == k - 1
               w == CallWords(j)[k]
    <3>1. d \in Nat /\ d < 20 /\ d + 1 = k
      BY <1>4, <1>8
    <3> HIDE DEF d, w
    <3>2. LeadsTo(j, Called(j, 15, d + 1, c, 0, f), Called(j, w, d, c, 0, f))
      BY <3>1, CallReturns DEF w
    <3>3. Called(j, w, d, c, 0, f) \in way
      <4>1. CASE c = n
        <5>1. w = 3 /\ d = 0
          BY <1>3, <1>8, <4>1 DEF w, d
        <5> QED
          BY <1>8, <4>1, <5>1, OnRecurseWay
      <4>2. CASE c # n
        <5> DEFINE e == c + 1
        <5>1. e \in 1..n /\ e - 1 = c /\ c < n
          BY <1>1, <4>2
        <5> HIDE DEF e
        <5>2. CallWords(j)[DepthAt(j, e) + 2] = 14 /\ DepthAt(j, e - 1) = DepthAt(j, e) + 2
          BY <1>5, <5>1
        <5>3. w = 14
          BY <1>8, <5>1, <5>2 DEF w
        <5> QED
          BY <1>8, <5>1, <5>3, OnRecurseWay DEF d
      <4> QED
        BY <4>1, <4>2
    <3> QED
      BY <3>1, <3>2, <3>3
  <2> QED
    BY <2>1, <2>2
<1>9. ASSUME NEW c \in 0..n, c < n, NEW k, k = DepthAt(j, c), NEW f, Sane(f)
      PROVE  Proceeds(Called(j, 14, k - 1, c, 0, f))
  <2> DEFINE e == c + 1
             d == k - 2
  <2>1. e \in 1..n /\ e - 1 = c
    BY <1>1, <1>9
  <2> HIDE DEF e
  <2>2. CallWords(j)[DepthAt(j, e) + 1] = e /\ DepthAt(j, e - 1) = DepthAt(j, e) + 2 /\ e \in 0..n
    BY <1>5, <2>1
  <2>3. DepthAt(j, e) \in 1..19
    BY <1>4, <2>2
  <2>4. d \in Nat /\ d < 20 /\ d + 1 = k - 1 /\ d = DepthAt(j, e)
    BY <1>4, <1>9, <2>1, <2>2, <2>3
  <2> HIDE DEF d
  <2>5. LeadsTo(j, Called(j, 14, d + 1, c, 0, f), Called(j, 15, d, e, 0, f))
    BY <2>2, <2>4, CallRestores
  <2>6. Called(j, 15, d, e, 0, f) \in way
    BY <1>9, <2>2, <2>4, OnRecurseWay
  <2> QED
    BY <2>4, <2>5, <2>6
<1>10. ASSUME NEW c \in 1..n, NEW k, k = DepthAt(j, c), NEW f, Sane(f), NEW d, d = c - 1
       PROVE  /\ Proceeds(Called(j, 7, k, c, c, f)) /\ Proceeds(Called(j, 9, k, c, d, f))
              /\ Proceeds(Called(j, 10, k + 1, c, d, f)) /\ Proceeds(Called(j, 11, k + 1, d, d, f))
  <2> DEFINE l == k + 1
  <2>1. /\ c \in 0..n /\ d \in 0..n /\ c \in Nat /\ c \in Words /\ CallWords(j)[k + 1] = c
        /\ CallWords(j)[k + 2] = 14 /\ DepthAt(j, d) = k + 2
    BY <1>5, <1>10
  <2>2. k \in Nat /\ k < 20 /\ k \in 0..20 /\ l \in Nat /\ l < 20 /\ l \in 0..20 /\ l + 1 = k + 2
    <3>1. k \in 1..19 /\ k + 2 \in 1..19
      BY <1>4, <1>10, <2>1
    <3> QED
      BY <3>1
  <2> HIDE DEF l
  <2>3. /\ Within(j, k, c, Added(j, c)) \in [0..7 -> Words]
        /\ Within(j, l, c, Added(j, d)) \in [0..7 -> Words]
    <3>1. 5 \in 0..15
      BY SMTT(30)
    <3>2. Within(j, k, c, Added(j, c)) \in [0..7 -> Words]
      BY ONLY <2>1, <2>2, <3>1, Recurses(j), Sane(f), SpotIs, ZenonT(40)
    <3>3. Within(j, l, c, Added(j, d)) \in [0..7 -> Words]
      BY ONLY <2>1, <2>2, <3>1, Recurses(j), Sane(f), SpotIs, ZenonT(40)
    <3> QED
      BY <3>2, <3>3
  <2>4. Proceeds(Called(j, 7, k, c, c, f))
    <3>1. PICK g : Sane(g) /\ LeadsTo(j, Called(j, 7, k, c, c, f), Called(j, 9, k, c, d, g))
      BY <1>10, <2>3, CallAdds
    <3>2. Called(j, 9, k, c, d, g) \in way
      BY <1>10, <3>1, OnRecurseWay
    <3> QED
      BY <3>1, <3>2
  <2>5. Proceeds(Called(j, 9, k, c, d, f))
    <3>1. LeadsTo(j, Called(j, 9, k, c, d, f), Called(j, 10, k + 1, c, d, f))
      BY <2>1, <2>2, CallSaves
    <3>2. Called(j, 10, k + 1, c, d, f) \in way
      BY <1>10, OnRecurseWay
    <3> QED
      BY <3>1, <3>2
  <2>6. Proceeds(Called(j, 10, l, c, d, f))
    <3>1. PICK g : Sane(g) /\ LeadsTo(j, Called(j, 10, l, c, d, f), Called(j, 11, l, d, d, g))
      BY <1>10, <2>3, CallCounts
    <3>2. Called(j, 11, k + 1, d, d, g) \in way
      BY <1>10, <3>1, OnRecurseWay
    <3> QED
      BY <3>1, <3>2 DEF l
  <2>7. Proceeds(Called(j, 11, l, d, d, f))
    <3>1. LeadsTo(j, Called(j, 11, l, d, d, f), Called(j, 5, l + 1, d, d, f))
      BY <2>1, <2>2, CallAgain
    <3>2. Called(j, 5, l + 1, d, d, f) \in way
      BY <1>10, <2>1, <2>2, OnRecurseWay
    <3> QED
      BY <3>1, <3>2
  <2> QED
    BY <2>4, <2>5, <2>6, <2>7 DEF l
<1> HIDE DEF Proceeds, way
<1>11. ASSUME NEW p \in way
       PROVE  Small(p) /\ (Final(j, p) \/ Proceeds(p))
  <2>1. p \in Spots(j) /\ RecursePoint(j, p)
    BY <1>11 DEF way, RecurseWay
  <2>2. Small(p) /\ Sane(p.f)
    <3>1. p.i \in 0..15 /\ p.k \in 0..20 /\ p.f \in SaneFlags
      BY <2>1 DEF Spots
    <3>2. p.i \in Nat /\ p.k \in Nat /\ p.k <= 20
      BY <3>1
    <3> QED
      BY <3>1, <3>2 DEF Small, SaneFlags, Sane
  <2> DEFINE f == p.f
  <2>3. CASE p = Begin(j)
    BY <1>7, <2>2, <2>3
  <2>4. CASE p = Called(j, 3, 0, n, 0, f)
    <3>1. p.i = 3 /\ p.k = 0
      BY <2>4 DEF Called, Point
    <3>2. Has(j, 3, 205) /\ Has(j, 3 + 1, 32)
      BY DEF Recurses, CallCode
    <3> QED
      BY <2>2, <3>1, <3>2 DEF Final
  <2>5. ASSUME NEW c \in 0..n, NEW k, k = DepthAt(j, c),
               p = Called(j, 5, k, c, c, f) \/ p = Called(j, 15, k, c, 0, f)
        PROVE  Proceeds(p)
    BY <1>8, <2>2, <2>5
  <2>6. ASSUME NEW c \in 0..n, c < n, NEW k, k = DepthAt(j, c), p = Called(j, 14, k - 1, c, 0, f)
        PROVE  Proceeds(p)
    BY <1>9, <2>2, <2>6
  <2>7. ASSUME NEW c \in 0..n, c > 0, NEW k, k = DepthAt(j, c),
               \/ p = Called(j, 7, k, c, c, f) \/ p = Called(j, 9, k, c, c - 1, f)
               \/ p = Called(j, 10, k + 1, c, c - 1, f) \/ p = Called(j, 11, k + 1, c - 1, c - 1, f)
        PROVE  Proceeds(p)
    <3>1. c \in 1..n
      BY <1>1, <2>7
    <3> QED
      BY <1>10, <2>2, <2>7, <3>1
  <2> HIDE DEF f
  <2>8. \/ p = Begin(j) \/ p = Called(j, 3, 0, n, 0, f)
        \/ \E c \in 0..n :
             \/ p = Called(j, 5, DepthAt(j, c), c, c, f) \/ p = Called(j, 15, DepthAt(j, c), c, 0, f)
             \/ c < n /\ p = Called(j, 14, DepthAt(j, c) - 1, c, 0, f)
             \/ c > 0 /\ \/ p = Called(j, 7, DepthAt(j, c), c, c, f) \/ p = Called(j, 9, DepthAt(j, c), c, c - 1, f)
                         \/ p = Called(j, 10, DepthAt(j, c) + 1, c, c - 1, f)
                         \/ p = Called(j, 11, DepthAt(j, c) + 1, c - 1, c - 1, f)
    BY <2>1 DEF RecursePoint, f
  <2> QED
    BY <2>2, <2>3, <2>4, <2>5, <2>6, <2>7, <2>8
<1>12. \A p \in way : Small(p) /\ (Final(j, p) \/ \E q \in way : LeadsTo(j, p, q))
  BY <1>11 DEF Proceeds
<1> QED
  BY <1>6, <1>12 DEF Sound, way

\* At its end AX is the sum, and the other registers are what they were.
LEMMA RecurseEnd ==
  ASSUME NEW j, Recurses(j), NEW p \in RecurseWay(j), Final(j, p)
  PROVE  p.r = [j.r EXCEPT ![AX] = Added(j, 0)]
<1> DEFINE n == j.r[CX]
           f == p.f
<1>1. RecursePoint(j, p) /\ Code[j.task][p.i + 1] = 205
  BY DEF RecurseWay, Final, Has
<1>2. /\ Code[j.task][0 + 1] # 205 /\ Code[j.task][5 + 1] # 205 /\ Code[j.task][7 + 1] # 205
      /\ Code[j.task][9 + 1] # 205 /\ Code[j.task][10 + 1] # 205 /\ Code[j.task][11 + 1] # 205
      /\ Code[j.task][14 + 1] # 205 /\ Code[j.task][15 + 1] # 205
  BY DEF Recurses, CallCode, Has
<1>3. p.i # 0 /\ p.i # 5 /\ p.i # 7 /\ p.i # 9 /\ p.i # 10 /\ p.i # 11 /\ p.i # 14 /\ p.i # 15
  BY <1>1, <1>2
<1>4. Begin(j).i = 0
  BY DEF Begin, Point
<1>5. \A i, k, c, b : Called(j, i, k, c, b, f).i = i /\ Called(j, i, k, c, b, f).r = Within(j, k, c, Added(j, b))
  BY DEF Called, Point
<1>6. p = Called(j, 3, 0, n, 0, f)
  <2> HIDE DEF f
  <2>1. \/ p = Begin(j) \/ p = Called(j, 3, 0, n, 0, f)
        \/ \E c \in 0..n :
             \/ p = Called(j, 5, DepthAt(j, c), c, c, f) \/ p = Called(j, 15, DepthAt(j, c), c, 0, f)
             \/ c < n /\ p = Called(j, 14, DepthAt(j, c) - 1, c, 0, f)
             \/ c > 0 /\ \/ p = Called(j, 7, DepthAt(j, c), c, c, f) \/ p = Called(j, 9, DepthAt(j, c), c, c - 1, f)
                         \/ p = Called(j, 10, DepthAt(j, c) + 1, c, c - 1, f)
                         \/ p = Called(j, 11, DepthAt(j, c) + 1, c - 1, c - 1, f)
    BY <1>1 DEF RecursePoint, f
  <2> QED
    BY <1>3, <1>4, <1>5, <2>1
<1>7. p.r = Within(j, 0, n, Added(j, 0))
  BY <1>5, <1>6
<1>8. j.r \in [0..7 -> Words] /\ Slot(Load(j), 0) = j.r[SP]
  <2>1. InRAM(Load(j)) /\ Load(j).r = j.r
    BY LoadStack DEF Recurses, InRAM
  <2> QED
    BY <2>1, RecurseFacts, SlotZero
<1>9. Within(j, 0, n, Added(j, 0)) = [j.r EXCEPT ![AX] = Added(j, 0)]
  <2>1. AX \in 0..7 /\ CX \in 0..7 /\ SP \in 0..7 /\ AX # CX /\ AX # SP /\ CX # SP
    BY DEF AX, CX, SP
  <2> DEFINE a == Added(j, 0)
             r == j.r
             s == Slot(Load(j), 0)
  <2> HIDE DEF a, r, s
  <2>2. r \in [0..7 -> Words] /\ s = r[SP] /\ n = r[CX]
    BY <1>8 DEF r, s
  <2>3. Within(j, 0, n, a) = [[[r EXCEPT ![SP] = s] EXCEPT ![AX] = a] EXCEPT ![CX] = r[CX]]
    BY <2>2 DEF Within, OnSlot, r, s
  <2>4. [r EXCEPT ![SP] = s] = r
    BY <2>1, <2>2
  <2>5. [[r EXCEPT ![AX] = a] EXCEPT ![CX] = r[CX]] = [r EXCEPT ![AX] = a]
    BY <2>1, <2>2
  <2> QED
    BY <2>3, <2>4, <2>5 DEF a, r
<1> QED
  BY <1>7, <1>9

-----------------------------------------------------------------------------
\* An operand in the stack segment, d bytes above BP.
LEMMA InStackSegment ==
  ASSUME NEW o \in Evens
  PROVE  /\ (1024 * 16 + o) % Meg = 1024 * 16 + o /\ (1024 * 16 + o + 1) % Meg = 1024 * 16 + o + 1
<1>1. o \in Nat /\ o < Word /\ Word \in Nat
  BY Numbers8, Sizes DEF Evens
<1>2. 1024 * 16 + Word + 1 < Meg
  BY SMT DEF Meg, Word, Byte
<1> DEFINE a == 1024 * 16 + o
           b == 1024 * 16 + o + 1
<1>3. a \in Nat /\ b \in Nat /\ a < 1024 * 16 + Word + 1 /\ b < 1024 * 16 + Word + 1
  BY <1>1
<1> HIDE DEF a, b
<1>4. a < Meg /\ b < Meg /\ Meg \in Nat \ {0}
  BY <1>1, <1>2, <1>3, Sizes
<1>5. a % Meg = a /\ b % Meg = b
  BY <1>3, <1>4, ModSmall
<1> QED
  BY <1>5 DEF a, b

LEMMA BaseForm ==
  ASSUME NEW j, EvenStack(j), NEW y, MachineOK(y), NEW i, NEW r, NEW f, NEW k, NEW v,
         Reads(Fetch(y), y, j, i), Stands(Fetch(y), j, i, r, f, k, v),
         NEW d \in {4, 6}, Has(j, i, 70), Has(j, i + 1, d), NEW o \in Evens, o = (r[BP] + d) % Word
  PROVE  LET e == modregrm(Fetch(y))
         IN  /\ Stands(e, j, i + 2, r, f, k, v) /\ e.mode = 1 /\ e.reg = 0
             /\ Rm(e, Word) = StackWord(e, o)
<1> DEFINE x == Fetch(y)
           b == Code8(x)
           t == [x EXCEPT !.mode = b \div 64, !.reg = (b \div 8) % 8, !.rm = b % 8]
           n == AdvanceIP(t, 1)
           c == Signed(Code8(n), Byte) % Word
           z == [n EXCEPT !.disp = c]
           e == modregrm(x)
           l == i + 1
<1>1. /\ i \in Nat /\ i < Len(Code[j.task]) /\ Code[j.task][i + 1] = 70
      /\ l \in Nat /\ l < Len(Code[j.task]) /\ Code[j.task][l + 1] = d
  BY DEF Has
<1>2. x.over = FALSE
  BY Fields DEF Fetch, MachineOK
<1> HIDE DEF x
<1>3. b = 70 /\ (i + 1) % Word = i + 1
  BY <1>1, CodeRead DEF x
<1>4. b \div 64 = 1 /\ (b \div 8) % 8 = 0 /\ b % 8 = 6
  BY <1>3
<1>5. MachineOK(x) /\ x.s = Segments /\ x.ip = i /\ SameBut(x, Load(j), Area(j)) /\ x.r = r /\ r[BP] \in Words
  <2>1. MachineOK(x) /\ x.r = r
    BY DEF Stands, Interruptible, x
  <2>2. r[BP] \in Words
    BY <2>1, Parts DEF BP
  <2>3. x.s = Segments /\ x.ip = i /\ SameBut(x, Load(j), Area(j))
    BY DEF Reads, x
  <2> QED
    BY <2>1, <2>2, <2>3
<1>6. MachineOK(t) /\ MachineOK(n)
  <2>1. 1 \in 0..3 /\ 0 \in 0..7 /\ 6 \in 0..7 /\ 1 \in Int
    BY SMTT(30)
  <2>2. MachineOK([x EXCEPT !.mode = 1, !.reg = 0, !.rm = 6])
    BY <1>5, <2>1, WithFields
  <2>3. MachineOK(t)
    BY <1>4, <2>2
  <2> HIDE DEF t
  <2> QED
    BY <2>1, <2>3, AdvanceOK
<1> HIDE DEF b
<1>7. /\ n.mode = 1 /\ n.reg = 0 /\ n.rm = 6 /\ n.ip = l /\ n.over = FALSE
      /\ n.r = x.r /\ n.f = x.f /\ n.h = x.h /\ n.mem = x.mem /\ n.s = x.s
      /\ n.hlt = x.hlt /\ n.exited = x.exited /\ DOMAIN n = DOMAIN Reset
  BY <1>2, <1>3, <1>4, <1>5, Fields DEF AdvanceIP, MachineOK
<1>8. e = AdvanceIP(z, 1)
  BY <1>7 DEF modregrm, b
<1> HIDE DEF t, n
<1>9. Reads(n, y, j, l)
  <2>1. SameBut(n, Load(j), Area(j))
    BY <1>5, <1>7 DEF SameBut, cell
  <2> QED
    BY <1>5, <1>6, <1>7, <2>1 DEF Reads, x
<1>10. Code8(n) = d /\ (l + 1) % Word = l + 1
  BY <1>1, <1>9, CodeRead
<1>11. c = d
  <2>1. Signed(4, 256) = 4 /\ Signed(6, 256) = 6
    BY SMT DEF Signed, Sign, Bool
  <2>2. Signed(d, Byte) = d
    BY <2>1 DEF Byte
  <2>3. 6 < Word /\ Word \in Nat \ {0}
    BY SMT DEF Word, Byte
  <2>4. d \in Nat /\ d < Word
    BY <2>3
  <2>5. d % Word = d
    BY <2>3, <2>4, ModSmall
  <2> QED
    BY <1>10, <2>2, <2>5
<1> HIDE DEF c
<1>12. /\ e.mode = 1 /\ e.reg = 0 /\ e.rm = 6 /\ e.ip = i + 2 /\ e.disp = d /\ e.over = FALSE
       /\ e.r = x.r /\ e.f = x.f /\ e.h = x.h /\ e.mem = x.mem /\ e.s = x.s
       /\ e.hlt = x.hlt /\ e.exited = x.exited
  <2>1. /\ z.mode = 1 /\ z.reg = 0 /\ z.rm = 6 /\ z.ip = l /\ z.disp = d /\ z.over = FALSE
        /\ z.r = x.r /\ z.f = x.f /\ z.h = x.h /\ z.mem = x.mem /\ z.s = x.s
        /\ z.hlt = x.hlt /\ z.exited = x.exited /\ DOMAIN z = DOMAIN Reset
    BY <1>7, <1>11, Fields
  <2> HIDE DEF z, e
  <2>2. l + 1 = i + 2
    BY <1>1
  <2> QED
    BY <1>8, <1>10, <2>1, <2>2, Fields DEF AdvanceIP
<1>13. MachineOK(e)
  BY <1>5, ModRmOK
<1> HIDE DEF e, z
<1>14. Stands(e, j, i + 2, r, f, k, v)
  <2>1. SameBut(e, Load(j), Area(j))
    BY <1>5, <1>12 DEF SameBut, cell
  <2>2. Reads(e, x, j, i + 2)
    BY <1>5, <1>12, <1>13, <2>1 DEF Reads
  <2> QED
    BY <2>2, StandsOn DEF x
<1>15. Offset(e) = o /\ useseg(e) = e.s[SS]
  <2>1. Based(e) = {BP}
    BY <1>12 DEF Based, Addends
  <2>2. BX \notin {BP} /\ SI \notin {BP} /\ DI \notin {BP}
    BY DEF BX, BP, SI, DI
  <2>3. 0 + r[BP] + 0 + 0 + d = r[BP] + d
    BY <1>5, Numbers8
  <2> QED
    BY <1>5, <1>12, <2>1, <2>2, <2>3 DEF Offset, useseg
<1>16. e.s[SS] = 1024
  BY <1>5, <1>12, SegmentsAre
<1>17. Rm(e, Word) = Read16(e, 1024 * 16 + o)
  <2>1. Word # Byte
    BY Sizes
  <2> QED
    BY <1>12, <1>15, <1>16, <2>1 DEF Rm, getea
<1>18. Rm(e, Word) = StackWord(e, o)
  <2> DEFINE a == 1024 * 16 + o
  <2>1. a % Meg = a /\ (a + 1) % Meg = a + 1
    BY InStackSegment
  <2>2. Rm(e, Word) = Read16(e, a) /\ StackWord(e, o) = Read16Unsafe(e, a)
    BY <1>16, <1>17 DEF StackWord
  <2> HIDE DEF a
  <2> QED
    BY <2>1, <2>2 DEF Read16, Read16Unsafe, Read8
<1> QED
  BY <1>12, <1>14, <1>18 DEF e, x

\* MOV of two registers, MOV AX,[BP+d] and SUB AX,[BP+d].
LEMMA RegisterMoved ==
  ASSUME NEW j, EvenStack(j), NEW i, Has(j, i, 137), NEW reg, NEW rm, rm # SP, NEW b, Has(j, i + 1, b),
         Registers(b, reg, rm), NEW r, NEW f, NEW k, NEW v
  PROVE  Leads(j, i, r, f, k, v, i + 2, [r EXCEPT ![rm] = r[reg]], f, k, v)
<1> DEFINE l == i + 1
           l2 == i + 2
           s == [r EXCEPT ![rm] = r[reg]]
           op == 137
<1> SUFFICES ASSUME NEW y, Stands(y, j, i, r, f, k, v), MachineOK(Execute(y))
             PROVE  Stands(Execute(y), j, l2, s, f, k, v)
  BY DEF Leads
<1> DEFINE x == Fetch(y)
           d == modregrm(x)
           z == Execute(y)
<1>1. op \in 64..159 /\ op \notin DOMAIN PrefixOf /\ Has(j, i, op)
  BY DEF PrefixOf
<1>2. ExecuteMiddle(x, op) = SetRm(d, Word, R(d, d.reg, Word))
  <2>1. ExecuteMiddle(x, op) = MOV(x, op)
    BY DEF ExecuteMiddle
  <2>2. Size(op) = Word /\ op < 138
    BY DEF Size
  <2> HIDE DEF op
  <2> QED
    BY <2>1, <2>2 DEF MOV
<1>3. /\ l \in Nat /\ l < Len(Code[j.task]) /\ Code[j.task][l + 1] = b /\ l + 1 = l2
      /\ reg \in 0..7 /\ rm \in 0..7
  BY DEF Has, Registers
<1> HIDE DEF x, d, z, l, l2, s, op
<1>4. Reads(x, y, j, l) /\ Stands(x, j, l, r, f, k, v) /\ z = ExecuteMiddle(x, op)
  BY <1>1, OpcodeOf DEF x, z, l
<1>5. Reads(d, y, j, l + 1) /\ Named(d, reg, rm)
  <2>1. Registers(Code[j.task][l + 1], reg, rm)
    BY <1>3
  <2> QED
    BY <1>3, <1>4, <2>1, RegisterForm DEF d
<1>6. Stands(d, j, l2, r, f, k, v)
  BY <1>3, <1>5, StandsOn
<1>7. MachineOK(d) /\ d.r = r /\ d.f = f /\ f.ac = 0 /\ f.of \in 0..1
  BY <1>6 DEF Stands, Interruptible
<1>8. Sane(f) /\ r \in [0..7 -> Words]
  BY <1>7, Parts DEF Sane
<1>9. z = [d EXCEPT !.r[rm] = r[reg]]
  <2>1. R(d, d.reg, Word) = r[reg]
    BY <1>5, <1>7, Sizes DEF R, Named
  <2> QED
    BY <1>2, <1>4, <1>5, <2>1, Sizes DEF SetRm, SetR, Named
<1>10. z = [d EXCEPT !.r = s, !.f = f]
  BY <1>7, <1>9, Fields DEF s, MachineOK
<1>11. s[SP] = r[SP] /\ MachineOK(z)
  BY <1>3, <1>8 DEF s, z
<1>12. Stands(z, j, l2, s, f, k, v)
  BY <1>6, <1>8, <1>10, <1>11, StandsChanged
<1> QED
  BY <1>12 DEF z

\* The machine behind such an instruction, and the word it finds.
FromFrame(j, i, r, f, k, v, n, y, e) ==
  /\ Stands(e, j, i + 3, r, f, k, v) /\ e.mode = 1 /\ e.reg = 0 /\ Rm(e, Word) = v[n]
  /\ e = modregrm(Fetch(y)) /\ MachineOK(e) /\ e.r = r /\ e.f = f /\ Sane(f)
  /\ r \in [0..7 -> Words] /\ v[n] \in Words

LEMMA FrameRead ==
  ASSUME NEW j, EvenStack(j), NEW op, op \notin DOMAIN PrefixOf, NEW i, Has(j, i, op), Has(j, i + 1, 70),
         NEW d \in {4, 6}, Has(j, i + 2, d), NEW r, NEW f, NEW k \in Nat, k <= 20, NEW v,
         NEW n \in Nat, 1 <= n, n <= k, Slot(Load(j), n) = (r[BP] + d) % Word,
         NEW y, Stands(y, j, i, r, f, k, v)
  PROVE  FromFrame(j, i, r, f, k, v, n, y, modregrm(Fetch(y)))
<1> DEFINE l == i + 1
           x == Fetch(y)
           e == modregrm(x)
           o == Slot(Load(j), n)
<1>1. l + 1 = i + 2 /\ l + 2 = i + 3 /\ n \in 0..32
  BY SMTT(30) DEF Has
<1> HIDE DEF l
<1>2. o \in Evens /\ Load(j).s[SS] = 1024
  <2>1. StackInRAM(Load(j)) /\ Load(j).s[SS] = 1024
    BY LoadStack
  <2> QED
    BY <1>1, <2>1, BelowEven DEF Slot
<1>3. Reads(x, y, j, l) /\ Stands(x, j, l, r, f, k, v)
  BY OpcodeOf DEF l
<1>4. MachineOK(y)
  BY DEF Stands, Interruptible
<1>5. Has(j, l, 70) /\ Has(j, l + 1, d)
  BY <1>1 DEF l
<1> HIDE DEF o
<1>6. /\ Stands(e, j, l + 2, r, f, k, v) /\ e.mode = 1 /\ e.reg = 0 /\ Rm(e, Word) = StackWord(e, o)
  <2>1. o = (r[BP] + d) % Word
    BY DEF o
  <2> QED
    BY <1>2, <1>3, <1>4, <1>5, <2>1, BaseForm
<1> HIDE DEF x, e
<1>7. StackWord(e, o) = v[n]
  BY <1>6 DEF Stands, OnStack, o
<1>8. MachineOK(e) /\ e.r = r /\ e.f = f /\ f.ac = 0 /\ f.of \in 0..1
  BY <1>6 DEF Stands, Interruptible
<1>9. Sane(f) /\ r \in [0..7 -> Words]
  BY <1>8, Parts DEF Sane
<1>10. Rm(e, Word) \in Words
  <2>1. Rm(e, Word) \in 0 .. Word - 1
    BY <1>8, RmOK
  <2> QED
    BY <2>1 DEF Words
<1> QED
  BY <1>1, <1>6, <1>7, <1>8, <1>9, <1>10 DEF FromFrame, x, e

LEMMA MovedFrame ==
  ASSUME NEW j, EvenStack(j), NEW i, Has(j, i, 139), Has(j, i + 1, 70),
         NEW d \in {4, 6}, Has(j, i + 2, d), NEW r, NEW f, NEW k \in Nat, k <= 20, NEW v,
         NEW n \in Nat, 1 <= n, n <= k, Slot(Load(j), n) = (r[BP] + d) % Word
  PROVE  Leads(j, i, r, f, k, v, i + 3, [r EXCEPT ![AX] = v[n]], f, k, v)
<1> DEFINE l == i + 3
           s == [r EXCEPT ![AX] = v[n]]
           op == 139
<1> SUFFICES ASSUME NEW y, Stands(y, j, i, r, f, k, v), MachineOK(Execute(y))
             PROVE  Stands(Execute(y), j, l, s, f, k, v)
  BY DEF Leads
<1> DEFINE x == Fetch(y)
           e == modregrm(x)
           z == Execute(y)
<1>1. op \in 64..159 /\ op \notin DOMAIN PrefixOf /\ Has(j, i, op) /\ op % 2 = 1
  BY DEF PrefixOf
<1>2. ExecuteMiddle(x, op) = SetR(e, e.reg, Word, Rm(e, Word))
  <2>1. ExecuteMiddle(x, op) = MOV(x, op)
    BY DEF ExecuteMiddle
  <2>2. Size(op) = Word /\ ~(op < 138)
    BY <1>1 DEF Size
  <2> HIDE DEF op
  <2> QED
    BY <2>1, <2>2 DEF MOV
<1> HIDE DEF op
<1>3. FromFrame(j, i, r, f, k, v, n, y, e)
  BY <1>1, FrameRead
<1> HIDE DEF x, e, z, s
<1>4. z = ExecuteMiddle(x, op)
  BY <1>1, OpcodeOf DEF x, z
<1>5. z = [e EXCEPT !.r[0] = v[n]]
  BY <1>2, <1>3, <1>4, Sizes DEF SetR, FromFrame
<1>6. z = [e EXCEPT !.r = s, !.f = f]
  BY <1>3, <1>5, Fields DEF s, MachineOK, FromFrame, AX
<1>7. s[SP] = r[SP] /\ MachineOK(z)
  BY <1>3 DEF s, z, FromFrame, AX, SP
<1>8. Stands(z, j, l, s, f, k, v)
  <2>1. Stands(e, j, l, r, f, k, v) /\ Sane(f)
    BY <1>3 DEF FromFrame, l
  <2> HIDE DEF l
  <2> QED
    BY <1>6, <1>7, <2>1, StandsChanged
<1> QED
  BY <1>8 DEF z

Differs(f, r, a, b, c, g) == LET o == Operation(5, f, r[a], b, Word) IN o.v = c /\ o.f = g

LEMMA SubtractedFrame ==
  ASSUME NEW j, EvenStack(j), NEW i, Has(j, i, 43), Has(j, i + 1, 70),
         NEW d \in {4, 6}, Has(j, i + 2, d), NEW r, NEW f, NEW k \in Nat, k <= 20, NEW v,
         NEW n \in Nat, 1 <= n, n <= k, Slot(Load(j), n) = (r[BP] + d) % Word,
         NEW c, NEW g, Differs(f, r, AX, v[n], c, g)
  PROVE  Leads(j, i, r, f, k, v, i + 3, [r EXCEPT ![AX] = c], g, k, v)
<1> DEFINE l == i + 3
           s == [r EXCEPT ![AX] = c]
           op == 43
           b == v[n]
           o == Operation(5, f, r[AX], b, Word)
<1> SUFFICES ASSUME NEW y, Stands(y, j, i, r, f, k, v), MachineOK(Execute(y))
             PROVE  Stands(Execute(y), j, l, s, g, k, v)
  BY DEF Leads
<1> DEFINE x == Fetch(y)
           e == modregrm(x)
           z == Execute(y)
           t == [e EXCEPT !.f = g]
<1>1. op \in 0..63 /\ op \notin DOMAIN PrefixOf /\ Has(j, i, op) /\ op % 2 = 1 /\ op % 8 = 3
  BY DEF PrefixOf
<1>2. ExecuteLow(x, op) = GE(x, Word, 5)
  <2>1. ExecuteLow(x, op) = SUB(x, op)
    BY DEF ExecuteLow
  <2>2. Size(op) = Word
    BY <1>1 DEF Size
  <2> HIDE DEF op
  <2> QED
    BY <1>1, <2>1, <2>2 DEF SUB, TwoOperands
<1> HIDE DEF op
<1>3. FromFrame(j, i, r, f, k, v, n, y, e)
  BY <1>1, FrameRead
<1> HIDE DEF x, e, z, s, o, b, t
<1>4. z = ExecuteLow(x, op)
  BY <1>1, OpcodeOf DEF x, z
<1>5. /\ MachineOK(e) /\ e.r = r /\ e.f = f /\ e.reg = 0 /\ Rm(e, Word) = b /\ Sane(f)
      /\ r \in [0..7 -> Words] /\ b \in Words /\ e.mode = 1
  BY <1>3 DEF FromFrame, b
<1>6. o.v = c /\ o.f = g
  BY DEF Differs, o, b
<1>7. Worked(o, Word)
  <2>1. r[AX] \in 0 .. Word - 1 /\ b \in 0 .. Word - 1 /\ Word \in {Byte, Word} /\ Sums(5)
    BY <1>5 DEF Words, AX, Sums
  <2> QED
    BY <1>5, <2>1, SaneOperation DEF o
<1>8. Sane(g) /\ c \in Words /\ o = [v |-> c, f |-> g]
  BY <1>6, <1>7 DEF Worked, Words
<1>9. z = StoreR(e, 0, Word, o)
  <2>1. R(e, 0, Word) = r[AX]
    BY <1>5, Sizes DEF R, AX
  <2> QED
    BY <1>2, <1>4, <1>5, <2>1 DEF GE, e, o
<1>10. z = SetR(t, 0, Word, c)
  BY <1>8, <1>9 DEF StoreR, SetF, t
<1>11. z = [e EXCEPT !.r = s, !.f = g]
  <2>1. z = [t EXCEPT !.r[0] = c]
    BY <1>10, Sizes DEF SetR
  <2> QED
    BY <1>5, <2>1, Fields DEF s, t, MachineOK, AX
<1>12. s[SP] = r[SP] /\ MachineOK(z)
  BY <1>5 DEF s, z, AX, SP
<1>13. Stands(z, j, l, s, g, k, v)
  <2>1. Stands(e, j, l, r, f, k, v)
    BY <1>3 DEF FromFrame, l
  <2> HIDE DEF l
  <2> QED
    BY <1>8, <1>11, <1>12, <2>1, StandsChanged
<1> QED
  BY <1>13 DEF z

-----------------------------------------------------------------------------
\* PUSH AX; PUSH BX; CALL; INT 20h; PUSH BP; MOV BP,SP; MOV AX,[BP+4]; SUB AX,[BP+6];
\* POP BP; RET 4.
FrameCode(j) ==
  /\ Has(j, 0, 80) /\ Has(j, 1, 83) /\ Has(j, 2, 232) /\ Has(j, 3, 2) /\ Has(j, 4, 0)
  /\ Has(j, 5, 205) /\ Has(j, 6, 32) /\ Has(j, 7, 85) /\ Has(j, 8, 137) /\ Has(j, 9, 229)
  /\ Has(j, 10, 139) /\ Has(j, 11, 70) /\ Has(j, 12, 4) /\ Has(j, 13, 43) /\ Has(j, 14, 70)
  /\ Has(j, 15, 6) /\ Has(j, 16, 93) /\ Has(j, 17, 194) /\ Has(j, 18, 4) /\ Has(j, 19, 0)

InFrame(j, k, b, a) == [OnSlot(j, j.r, k) EXCEPT ![AX] = a, ![BP] = b]
FrameWords(j) == <<j.r[AX], j.r[BX], 5, j.r[BP]>>
FrameTop(j) == Slot(Load(j), 4)
Difference(j) == Operation(5, Load(j).f, j.r[BX], j.r[AX], Word)

Stop(j, i, k, b, a, f) == Point(i, InFrame(j, k, b, a), f, k, FrameWords(j))

FrameWay(j) ==
  LET f == Load(j).f
      a == j.r[AX]
      b == j.r[BP]
      t == FrameTop(j)
      o == Difference(j)
  IN  {Begin(j), Stop(j, 1, 1, b, a, f), Stop(j, 2, 2, b, a, f), Stop(j, 7, 3, b, a, f),
       Stop(j, 8, 4, b, a, f), Stop(j, 10, 4, t, a, f), Stop(j, 13, 4, t, j.r[BX], f),
       Stop(j, 16, 4, t, o.v, o.f), Stop(j, 17, 3, b, o.v, o.f), Stop(j, 5, 0, b, o.v, o.f)}

LEMMA FramedIs ==
  ASSUME NEW j, j.r \in [0..7 -> Words]
  PROVE  /\ \A k, b, a : /\ InFrame(j, k, b, a)[AX] = a /\ InFrame(j, k, b, a)[BP] = b
                         /\ InFrame(j, k, b, a)[SP] = Slot(Load(j), k)
                         /\ InFrame(j, k, b, a)[BX] = j.r[BX]
                         /\ \A l : OnSlot(j, InFrame(j, k, b, a), l) = InFrame(j, l, b, a)
                         /\ \A e : [InFrame(j, k, b, a) EXCEPT ![AX] = e] = InFrame(j, k, b, e)
                         /\ \A e : [InFrame(j, k, b, a) EXCEPT ![BP] = e] = InFrame(j, k, e, a)
         /\ \A k : OnSlot(j, j.r, k) = InFrame(j, k, j.r[BP], j.r[AX])
<1>1. /\ AX \in 0..7 /\ BP \in 0..7 /\ SP \in 0..7 /\ BX \in 0..7 /\ AX # BP /\ AX # SP /\ BP # SP
      /\ BX # AX /\ BX # BP /\ BX # SP
  BY DEF AX, BP, SP, BX
<1> DEFINE r == j.r
           x == Load(j)
<1> HIDE DEF r, x
<1>2. r \in [0..7 -> Words]
  BY DEF r
<1>3. ASSUME NEW k, NEW b, NEW a
      PROVE  InFrame(j, k, b, a) = [i \in 0..7 |-> IF i = AX THEN a ELSE IF i = BP THEN b ELSE IF i = SP THEN Slot(x, k) ELSE r[i]]
  BY <1>1, <1>2 DEF InFrame, OnSlot, r, x
<1>4. ASSUME NEW k, NEW b, NEW a
      PROVE  /\ InFrame(j, k, b, a)[AX] = a /\ InFrame(j, k, b, a)[BP] = b
             /\ InFrame(j, k, b, a)[SP] = Slot(x, k) /\ InFrame(j, k, b, a)[BX] = r[BX]
             /\ \A l : OnSlot(j, InFrame(j, k, b, a), l) = InFrame(j, l, b, a)
             /\ \A e : [InFrame(j, k, b, a) EXCEPT ![AX] = e] = InFrame(j, k, b, e)
             /\ \A e : [InFrame(j, k, b, a) EXCEPT ![BP] = e] = InFrame(j, k, e, a)
  BY <1>1, <1>3 DEF OnSlot, x
<1>5. ASSUME NEW k
      PROVE  OnSlot(j, r, k) = InFrame(j, k, r[BP], r[AX])
  <2> DEFINE s == Slot(x, k)
             u == InFrame(j, k, r[BP], r[AX])
  <2> HIDE DEF s, u
  <2>1. OnSlot(j, r, k) = [r EXCEPT ![SP] = s]
    BY DEF OnSlot, s, x
  <2>2. u = [i \in 0..7 |-> IF i = AX THEN r[AX] ELSE IF i = BP THEN r[BP] ELSE IF i = SP THEN s ELSE r[i]]
    BY <1>3 DEF s, u
  <2>3. \A i \in 0..7 : u[i] = [r EXCEPT ![SP] = s][i]
    BY <1>1, <1>2, <2>2
  <2>4. u = [i \in 0..7 |-> u[i]]
    BY <2>2
  <2>5. u = [r EXCEPT ![SP] = s]
    BY <1>2, <2>3, <2>4
  <2> QED
    BY <2>1, <2>5 DEF u
<1> QED
  BY <1>4, <1>5 DEF r, x

LEMMA FrameGone ==
  ASSUME NEW j, j.r \in [0..7 -> Words], NEW k, Slot(Load(j), k) = j.r[SP], NEW a
  PROVE  InFrame(j, k, j.r[BP], a) = [j.r EXCEPT ![AX] = a]
<1> DEFINE r == j.r
           u == InFrame(j, k, r[BP], a)
           w == [r EXCEPT ![AX] = a]
<1>1. AX \in 0..7 /\ BP \in 0..7 /\ SP \in 0..7 /\ AX # BP /\ AX # SP /\ BP # SP
  BY DEF AX, BP, SP
<1>2. r \in [0..7 -> Words] /\ u = [[[r EXCEPT ![SP] = r[SP]] EXCEPT ![AX] = a] EXCEPT ![BP] = r[BP]]
  BY DEF InFrame, OnSlot
<1> HIDE DEF r, u
<1>3. u = [i \in 0..7 |-> IF i = AX THEN a ELSE r[i]] /\ w = [i \in 0..7 |-> IF i = AX THEN a ELSE r[i]]
  BY <1>1, <1>2
<1> QED
  BY <1>3 DEF r, u

\* Where the arguments are, seen from BP.
LEMMA FrameSlots ==
  ASSUME NEW j, EvenStack(j)
  PROVE  /\ Slot(Load(j), 2) = (FrameTop(j) + 4) % Word /\ Slot(Load(j), 1) = (FrameTop(j) + 6) % Word
         /\ FrameTop(j) \in Words /\ Slot(Load(j), 0) = j.r[SP] /\ j.r \in [0..7 -> Words]
<1> DEFINE w == Load(j)
           s4 == Slot(w, 4)
           s3 == Slot(w, 3)
           s2 == Slot(w, 2)
           s1 == Slot(w, 1)
<1>1. MachineOK(w) /\ StackInRAM(w) /\ w.r = j.r /\ w.s[SS] = 1024 /\ j.r \in [0..7 -> Words]
  <2>1. j.r \in [0..7 -> Words]
    BY JobsAssumption DEF EvenStack
  <2> QED
    BY <2>1, LoadStack
<1>2. (s4 + 2) % Word = s3 /\ (s3 + 2) % Word = s2 /\ (s2 + 2) % Word = s1
  <2> DEFINE k1 == 1
             k2 == 2
             k3 == 3
  <2>1. /\ k1 \in Nat /\ k1 <= 20 /\ k1 + 1 = 2 /\ k2 \in Nat /\ k2 <= 20 /\ k2 + 1 = 3
        /\ k3 \in Nat /\ k3 <= 20 /\ k3 + 1 = 4
    OBVIOUS
  <2> HIDE DEF k1, k2, k3
  <2>2. /\ (Slot(w, k1 + 1) + 2) % Word = Slot(w, k1) /\ (Slot(w, k2 + 1) + 2) % Word = Slot(w, k2)
        /\ (Slot(w, k3 + 1) + 2) % Word = Slot(w, k3)
    BY <1>1, <2>1, SlotAbove
  <2> QED
    BY <2>1, <2>2 DEF k1, k2, k3
<1>3. s4 \in Words /\ s4 \in Nat
  <2>1. Below(w, 2 * 4) \in Evens
    <3> DEFINE n == 4
    <3>1. n \in 0..32
      OBVIOUS
    <3> HIDE DEF n
    <3>2. Below(w, 2 * n) \in Evens
      BY <1>1, <3>1, BelowEven
    <3> QED
      BY <3>2 DEF n
  <2>2. s4 \in Evens
    BY <2>1 DEF Slot
  <2> QED
    BY <2>2, Numbers8, Sizes DEF Evens, Words
<1>4. Slot(w, 0) = w.r[SP]
  <2>1. InRAM(w)
    BY <1>1 DEF InRAM
  <2> QED
    BY <2>1, SlotZero
<1> HIDE DEF s4, s3, s2, s1
<1>5. s2 = (s4 + 4) % Word /\ s1 = (s4 + 6) % Word
  <2>1. /\ (((s4 + 2) % Word) + 2) % Word = (s4 + 4) % Word
        /\ (((((s4 + 2) % Word) + 2) % Word) + 2) % Word = (s4 + 6) % Word
    BY ONLY <1>3, SMT DEF Word, Byte
  <2> QED
    BY <1>2, <2>1
<1> QED
  BY <1>1, <1>3, <1>4, <1>5 DEF FrameTop, s4, s2, s1

LEMMA FrameEnters ==
  ASSUME NEW j, EvenStack(j), FrameCode(j), NEW b, b = j.r[BP], NEW a, a = j.r[AX], NEW f
  PROVE  /\ f = Load(j).f => LeadsTo(j, Begin(j), Stop(j, 1, 1, b, a, f))
         /\ LeadsTo(j, Stop(j, 1, 1, b, a, f), Stop(j, 2, 2, b, a, f))
         /\ LeadsTo(j, Stop(j, 2, 2, b, a, f), Stop(j, 7, 3, b, a, f))
         /\ LeadsTo(j, Stop(j, 7, 3, b, a, f), Stop(j, 8, 4, b, a, f))
<1> DEFINE v == FrameWords(j)
           e == <<>>
           r0 == j.r
           r1 == InFrame(j, 1, b, a)
           r2 == InFrame(j, 2, b, a)
           r3 == InFrame(j, 3, b, a)
           r4 == InFrame(j, 4, b, a)
<1>1. /\ OnSlot(j, r0, 1) = r1 /\ OnSlot(j, r1, 2) = r2 /\ OnSlot(j, r2, 3) = r3 /\ OnSlot(j, r3, 4) = r4
      /\ r1[BX] = r0[BX] /\ r3[BP] = r0[BP]
  <2>1. j.r \in [0..7 -> Words]
    BY FrameSlots
  <2> HIDE DEF e
  <2>2. OnSlot(j, r0, 1) = r1
    BY <2>1, FramedIs
  <2>3. OnSlot(j, r1, 2) = r2 /\ OnSlot(j, r2, 3) = r3 /\ OnSlot(j, r3, 4) = r4
    BY <2>1, FramedIs
  <2>4. r1[BX] = r0[BX] /\ r3[BP] = b
    BY <2>1, FramedIs
  <2> QED
    BY <2>2, <2>3, <2>4
<1>2. v[1] = r0[AX] /\ v[2] = r0[BX] /\ v[3] = 5 /\ v[4] = r0[BP]
  BY DEF FrameWords
<1>3. /\ SameWords(v, e, 0) /\ SameWords(v, v, 1) /\ SameWords(v, v, 2) /\ SameWords(v, v, 3)
  <2>1. \A n \in Nat : ~(1 <= n /\ n <= 0)
    OBVIOUS
  <2> HIDE DEF v, e
  <2> QED
    BY <2>1 DEF SameWords
<1> HIDE DEF v, e, r0, r1, r2, r3, r4
<1>4. Leads(j, 0, r0, f, 0, e, 1, r1, f, 1, v)
  <2> DEFINE i == 0
             q == AX
             op == 80
             k == 0
  <2>1. q \in 0..7 /\ op = 80 + q /\ Has(j, i, op) /\ k \in Nat /\ k < 20 /\ k + 1 = 1 /\ i + 1 = 1
    BY DEF FrameCode, AX
  <2>2. SameWords(v, e, k) /\ v[k + 1] = r0[q]
    BY <1>2, <1>3
  <2> HIDE DEF i, q, op, k
  <2>3. Leads(j, i, r0, f, k, e, i + 1, OnSlot(j, r0, k + 1), f, k + 1, v)
    BY <2>1, <2>2, RegisterPushed
  <2> QED
    BY <1>1, <2>1, <2>3 DEF i, k
<1>5. Leads(j, 1, r1, f, 1, v, 2, r2, f, 2, v)
  <2> DEFINE i == 1
             q == BX
             op == 83
             k == 1
  <2>1. q \in 0..7 /\ op = 80 + q /\ Has(j, i, op) /\ k \in Nat /\ k < 20 /\ k + 1 = 2 /\ i + 1 = 2
    BY DEF FrameCode, BX
  <2>2. SameWords(v, v, k) /\ v[k + 1] = r1[q]
    BY <1>1, <1>2, <1>3
  <2> HIDE DEF i, q, op, k
  <2>3. Leads(j, i, r1, f, k, v, i + 1, OnSlot(j, r1, k + 1), f, k + 1, v)
    BY <2>1, <2>2, RegisterPushed
  <2> QED
    BY <1>1, <2>1, <2>3 DEF i, k
<1>6. Leads(j, 2, r2, f, 2, v, 7, r3, f, 3, v)
  <2> DEFINE i == 2
             lo == 2
             hi == 0
             c == 2
             l == 7
             k == 2
  <2>1. Has(j, i, 232) /\ Has(j, i + 1, lo) /\ Has(j, i + 2, hi) /\ k \in Nat /\ k < 20 /\ k + 1 = 3 /\ i + 3 = 5
    BY DEF FrameCode
  <2>2. c \in Int /\ c = lo + Byte * hi /\ (i + 3 + c) % Word = l
    BY SMT DEF Word, Byte
  <2>3. SameWords(v, v, k) /\ v[k + 1] = i + 3
    BY <1>2, <1>3
  <2> HIDE DEF i, lo, hi, c, l, k
  <2>4. Leads(j, i, r2, f, k, v, l, OnSlot(j, r2, k + 1), f, k + 1, v)
    BY <2>1, <2>2, <2>3, CallLeads
  <2> QED
    BY <1>1, <2>1, <2>4 DEF i, k, l
<1>7. Leads(j, 7, r3, f, 3, v, 8, r4, f, 4, v)
  <2> DEFINE i == 7
             q == BP
             op == 85
             k == 3
  <2>1. q \in 0..7 /\ op = 80 + q /\ Has(j, i, op) /\ k \in Nat /\ k < 20 /\ k + 1 = 4 /\ i + 1 = 8
    BY DEF FrameCode, BP
  <2>2. SameWords(v, v, k) /\ v[k + 1] = r3[q]
    BY <1>1, <1>2, <1>3
  <2> HIDE DEF i, q, op, k
  <2>3. Leads(j, i, r3, f, k, v, i + 1, OnSlot(j, r3, k + 1), f, k + 1, v)
    BY <2>1, <2>2, RegisterPushed
  <2> QED
    BY <1>1, <2>1, <2>3 DEF i, k
<1>8. ASSUME f = Load(j).f
      PROVE  LeadsTo(j, Begin(j), Stop(j, 1, 1, b, a, f))
  BY <1>4, <1>8 DEF LeadsTo, Begin, Stop, Point, v, e, r0, r1
<1>9. LeadsTo(j, Stop(j, 1, 1, b, a, f), Stop(j, 2, 2, b, a, f))
  BY <1>5 DEF LeadsTo, Stop, Point, v, r1, r2
<1>10. LeadsTo(j, Stop(j, 2, 2, b, a, f), Stop(j, 7, 3, b, a, f))
  BY <1>6 DEF LeadsTo, Stop, Point, v, r2, r3
<1>11. LeadsTo(j, Stop(j, 7, 3, b, a, f), Stop(j, 8, 4, b, a, f))
  BY <1>7 DEF LeadsTo, Stop, Point, v, r3, r4
<1> QED
  BY <1>8, <1>9, <1>10, <1>11

LEMMA FrameReads ==
  ASSUME NEW j, EvenStack(j), FrameCode(j), NEW b, b = j.r[BP], NEW a, a = j.r[AX], NEW f, f = Load(j).f,
         NEW t, t = FrameTop(j), NEW o, o = Difference(j)
  PROVE  /\ LeadsTo(j, Stop(j, 8, 4, b, a, f), Stop(j, 10, 4, t, a, f))
         /\ LeadsTo(j, Stop(j, 10, 4, t, a, f), Stop(j, 13, 4, t, j.r[BX], f))
         /\ LeadsTo(j, Stop(j, 13, 4, t, j.r[BX], f), Stop(j, 16, 4, t, o.v, o.f))
<1> DEFINE v == FrameWords(j)
           c == j.r[BX]
           d == o.v
           g == o.f
           r4 == InFrame(j, 4, b, a)
           r5 == InFrame(j, 4, t, a)
           r6 == InFrame(j, 4, t, c)
           r7 == InFrame(j, 4, t, d)
<1>1. /\ r4[SP] = t /\ [r4 EXCEPT ![BP] = t] = r5 /\ r5[BP] = t /\ [r5 EXCEPT ![AX] = c] = r6
      /\ r6[BP] = t /\ r6[AX] = c /\ [r6 EXCEPT ![AX] = d] = r7
  <2>1. j.r \in [0..7 -> Words]
    BY FrameSlots
  <2> HIDE DEF c, d
  <2> QED
    BY <2>1, FramedIs DEF FrameTop
<1>2. v[1] = a /\ v[2] = c /\ o = Operation(5, f, c, a, Word)
  BY DEF FrameWords, Difference
<1>3. Slot(Load(j), 2) = (t + 4) % Word /\ Slot(Load(j), 1) = (t + 6) % Word
  BY FrameSlots
<1> HIDE DEF v, c, d, g, r4, r5, r6, r7
<1>4. Leads(j, 8, r4, f, 4, v, 10, r5, f, 4, v)
  <2> DEFINE i == 8
             reg == SP
             rm == BP
             n == 229
             k == 4
  <2>1. Has(j, i, 137) /\ rm # SP /\ Has(j, i + 1, n) /\ Registers(n, reg, rm) /\ i + 2 = 10
    BY DEF FrameCode, Registers, SP, BP
  <2> HIDE DEF i, reg, rm, n, k
  <2>2. Leads(j, i, r4, f, k, v, i + 2, [r4 EXCEPT ![rm] = r4[reg]], f, k, v)
    BY <2>1, RegisterMoved
  <2>3. Leads(j, i, r4, f, k, v, 10, [r4 EXCEPT ![BP] = r4[SP]], f, k, v)
    BY <2>1, <2>2 DEF reg, rm
  <2> QED
    BY <1>1, <2>3 DEF i, k
<1>5. Leads(j, 10, r5, f, 4, v, 13, r6, f, 4, v)
  <2> DEFINE i == 10
             n == 2
             k == 4
             u == 4
  <2>1. /\ Has(j, i, 139) /\ Has(j, i + 1, 70) /\ u \in {4, 6} /\ Has(j, i + 2, u) /\ k \in Nat /\ k <= 20
        /\ n \in Nat /\ 1 <= n /\ n <= k /\ i + 3 = 13
    BY DEF FrameCode
  <2>2. Slot(Load(j), n) = (r5[BP] + u) % Word
    BY <1>1, <1>3
  <2> HIDE DEF i, n, k, u
  <2>3. Leads(j, i, r5, f, k, v, i + 3, [r5 EXCEPT ![AX] = v[n]], f, k, v)
    BY <2>1, <2>2, MovedFrame
  <2> QED
    BY <1>1, <1>2, <2>1, <2>3 DEF i, k, n
<1>6. Leads(j, 13, r6, f, 4, v, 16, r7, g, 4, v)
  <2> DEFINE i == 13
             n == 1
             k == 4
             u == 6
  <2>1. /\ Has(j, i, 43) /\ Has(j, i + 1, 70) /\ u \in {4, 6} /\ Has(j, i + 2, u) /\ k \in Nat /\ k <= 20
        /\ n \in Nat /\ 1 <= n /\ n <= k /\ i + 3 = 16
    BY DEF FrameCode
  <2>2. Slot(Load(j), n) = (r6[BP] + u) % Word
    BY <1>1, <1>3
  <2>3. Differs(f, r6, AX, v[n], d, g)
    BY <1>1, <1>2 DEF Differs, d, g
  <2> HIDE DEF i, n, k, u
  <2>4. Leads(j, i, r6, f, k, v, i + 3, [r6 EXCEPT ![AX] = d], g, k, v)
    BY <2>1, <2>2, <2>3, SubtractedFrame
  <2> QED
    BY <1>1, <2>1, <2>4 DEF i, k
<1>7. LeadsTo(j, Stop(j, 8, 4, b, a, f), Stop(j, 10, 4, t, a, f))
  BY <1>4 DEF LeadsTo, Stop, Point, v, r4, r5
<1>8. LeadsTo(j, Stop(j, 10, 4, t, a, f), Stop(j, 13, 4, t, c, f))
  BY <1>5 DEF LeadsTo, Stop, Point, v, r5, r6
<1>9. LeadsTo(j, Stop(j, 13, 4, t, c, f), Stop(j, 16, 4, t, d, g))
  BY <1>6 DEF LeadsTo, Stop, Point, v, r6, r7
<1> QED
  BY <1>7, <1>8, <1>9 DEF c, d, g

LEMMA FrameLeaves ==
  ASSUME NEW j, EvenStack(j), FrameCode(j), NEW b, b = j.r[BP], NEW t, NEW d, NEW g
  PROVE  /\ LeadsTo(j, Stop(j, 16, 4, t, d, g), Stop(j, 17, 3, b, d, g))
         /\ LeadsTo(j, Stop(j, 17, 3, b, d, g), Stop(j, 5, 0, b, d, g))
<1> DEFINE v == FrameWords(j)
           r7 == InFrame(j, 4, t, d)
           r8 == InFrame(j, 3, b, d)
           r9 == InFrame(j, 0, b, d)
<1>1. [OnSlot(j, r7, 3) EXCEPT ![BP] = b] = r8 /\ OnSlot(j, r8, 0) = r9
  <2>1. j.r \in [0..7 -> Words]
    BY FrameSlots
  <2>2. OnSlot(j, r7, 3) = InFrame(j, 3, t, d)
    BY <2>1, FramedIs
  <2> QED
    BY <2>1, <2>2, FramedIs
<1>2. v[3] = 5 /\ v[4] = b
  BY DEF FrameWords
<1> HIDE DEF v, r7, r8, r9
<1>3. Leads(j, 16, r7, g, 4, v, 17, r8, g, 3, v)
  <2> DEFINE i == 16
             q == BP
             op == 93
             k == 3
  <2>1. /\ q \in 0..7 /\ q # SP /\ op = 88 + q /\ Has(j, i, op) /\ k \in Nat /\ k < 20 /\ k + 1 = 4
        /\ i + 1 = 17
    BY DEF FrameCode, BP, SP
  <2> HIDE DEF i, q, op, k
  <2>2. Leads(j, i, r7, g, k + 1, v, i + 1, [OnSlot(j, r7, k) EXCEPT ![q] = v[k + 1]], g, k, v)
    BY <2>1, RegisterPopped
  <2>3. Leads(j, i, r7, g, 4, v, 17, [OnSlot(j, r7, 3) EXCEPT ![BP] = v[4]], g, 3, v)
    BY <2>1, <2>2 DEF q, k
  <2> QED
    BY <1>1, <1>2, <2>3 DEF i
<1>4. Leads(j, 17, r8, g, 3, v, 5, r9, g, 0, v)
  <2> DEFINE i == 17
             k == 0
  <2>1. Has(j, i, 194) /\ Has(j, i + 1, 4) /\ Has(j, i + 2, 0) /\ k \in Nat /\ k < 18 /\ k + 3 = 3
    BY DEF FrameCode
  <2> HIDE DEF i, k
  <2>2. Leads(j, i, r8, g, k + 3, v, v[k + 3], OnSlot(j, r8, k), g, k, v)
    BY <2>1, ReleaseLeads
  <2> QED
    BY <1>1, <1>2, <2>1, <2>2 DEF i, k
<1>5. LeadsTo(j, Stop(j, 16, 4, t, d, g), Stop(j, 17, 3, b, d, g))
  BY <1>3 DEF LeadsTo, Stop, Point, v, r7, r8
<1>6. LeadsTo(j, Stop(j, 17, 3, b, d, g), Stop(j, 5, 0, b, d, g))
  BY <1>4 DEF LeadsTo, Stop, Point, v, r8, r9
<1> QED
  BY <1>5, <1>6

LEMMA FrameStep ==
  ASSUME NEW j, EvenStack(j), FrameCode(j)
  PROVE  Sound(j, FrameWay(j))
<1> DEFINE f == Load(j).f
           a == j.r[AX]
           b == j.r[BP]
           c == j.r[BX]
           t == FrameTop(j)
           o == Difference(j)
           d == o.v
           g == o.f
           p0 == Begin(j)
           p1 == Stop(j, 1, 1, b, a, f)
           p2 == Stop(j, 2, 2, b, a, f)
           p3 == Stop(j, 7, 3, b, a, f)
           p4 == Stop(j, 8, 4, b, a, f)
           p5 == Stop(j, 10, 4, t, a, f)
           p6 == Stop(j, 13, 4, t, c, f)
           p7 == Stop(j, 16, 4, t, d, g)
           p8 == Stop(j, 17, 3, b, d, g)
           p9 == Stop(j, 5, 0, b, d, g)
<1>1. LeadsTo(j, p0, p1) /\ LeadsTo(j, p1, p2) /\ LeadsTo(j, p2, p3) /\ LeadsTo(j, p3, p4)
  <2> HIDE DEF f, a, b
  <2>1. f = Load(j).f /\ a = j.r[AX] /\ b = j.r[BP]
    BY DEF f, a, b
  <2> QED
    BY <2>1, FrameEnters
<1>2. LeadsTo(j, p4, p5) /\ LeadsTo(j, p5, p6) /\ LeadsTo(j, p6, p7)
  <2> HIDE DEF f, a, b, t, o
  <2>1. f = Load(j).f /\ a = j.r[AX] /\ b = j.r[BP] /\ t = FrameTop(j) /\ o = Difference(j)
    BY DEF f, a, b, t, o
  <2> QED
    BY <2>1, FrameReads
<1>3. LeadsTo(j, p7, p8) /\ LeadsTo(j, p8, p9)
  <2> HIDE DEF b, t, d, g
  <2>1. b = j.r[BP]
    BY DEF b
  <2> QED
    BY <2>1, FrameLeaves
<1>4. FrameWay(j) = {p0, p1, p2, p3, p4, p5, p6, p7, p8, p9}
  BY DEF FrameWay
<1> HIDE DEF f, a, b, c, t, o, d, g
<1>5. Final(j, p9)
  BY DEF Final, Stop, Point, FrameCode
<1>6. /\ Small(p0) /\ Small(p1) /\ Small(p2) /\ Small(p3) /\ Small(p4) /\ Small(p5) /\ Small(p6)
      /\ Small(p7) /\ Small(p8) /\ Small(p9)
  BY DEF Small, Stop, Point, Begin
<1>7. p0 = Begin(j)
  OBVIOUS
<1> HIDE DEF p0, p1, p2, p3, p4, p5, p6, p7, p8, p9
<1> DEFINE way == FrameWay(j)
<1>8. p0 \in way /\ \A p \in way : Small(p) /\ (Final(j, p) \/ \E q \in way : LeadsTo(j, p, q))
  BY <1>1, <1>2, <1>3, <1>4, <1>5, <1>6
<1> QED
  BY <1>7, <1>8 DEF Sound

LEMMA FrameEnd ==
  ASSUME NEW j, EvenStack(j), FrameCode(j), NEW p \in FrameWay(j), Final(j, p)
  PROVE  p.r = [j.r EXCEPT ![AX] = (j.r[BX] - j.r[AX]) % Word]
<1> DEFINE f == Load(j).f
           a == j.r[AX]
           b == j.r[BP]
           c == j.r[BX]
           t == FrameTop(j)
           o == Difference(j)
           d == o.v
           g == o.f
<1>1. p \in {Begin(j), Stop(j, 1, 1, b, a, f), Stop(j, 2, 2, b, a, f), Stop(j, 7, 3, b, a, f),
             Stop(j, 8, 4, b, a, f), Stop(j, 10, 4, t, a, f), Stop(j, 13, 4, t, c, f),
             Stop(j, 16, 4, t, d, g), Stop(j, 17, 3, b, d, g), Stop(j, 5, 0, b, d, g)}
  BY DEF FrameWay
<1>2. d = (c - a) % Word
  BY DEF Difference, Operation, op_sub
<1>3. b = j.r[BP]
  OBVIOUS
<1> HIDE DEF f, a, b, c, t, o, d, g
<1>4. Code[j.task][p.i + 1] = 205
  BY DEF Final, Has
<1>5. /\ Code[j.task][0 + 1] # 205 /\ Code[j.task][1 + 1] # 205 /\ Code[j.task][2 + 1] # 205
      /\ Code[j.task][7 + 1] # 205 /\ Code[j.task][8 + 1] # 205 /\ Code[j.task][10 + 1] # 205
      /\ Code[j.task][13 + 1] # 205 /\ Code[j.task][16 + 1] # 205 /\ Code[j.task][17 + 1] # 205
  BY DEF FrameCode, Has
<1>6. /\ p.i # 0 /\ p.i # 1 /\ p.i # 2 /\ p.i # 7 /\ p.i # 8 /\ p.i # 10 /\ p.i # 13 /\ p.i # 16 /\ p.i # 17
  BY <1>4, <1>5
<1>7. p = Stop(j, 5, 0, b, d, g)
  BY <1>1, <1>6 DEF Stop, Point, Begin
<1>8. p.r = InFrame(j, 0, b, d)
  BY <1>7 DEF Stop, Point
<1>9. p.r = [j.r EXCEPT ![AX] = d]
  <2>1. j.r \in [0..7 -> Words] /\ Slot(Load(j), 0) = j.r[SP]
    BY FrameSlots
  <2>2. InFrame(j, 0, j.r[BP], d) = [j.r EXCEPT ![AX] = d]
    BY <2>1, FrameGone
  <2> QED
    BY <1>3, <1>8, <2>2
<1> QED
  BY <1>2, <1>9 DEF a, c

LEMMA CallPrograms ==
  ASSUME NEW j
  PROVE  (j.task = "recurse" => CallCode(j)) /\ (j.task = "frame" => FrameCode(j))
<1> DEFINE c == Code[j.task]
<1>1. ASSUME j.task = "recurse"
      PROVE  CallCode(j)
  <2>1. c = <<232, 2, 0>> \o <<205, 32>> \o <<227, 8, 1, 200, 81, 73, 232, 247, 255, 89, 195>>
    BY <1>1 DEF Code, Exit
  <2> HIDE DEF c
  <2>2. /\ Len(c) = 16 /\ c[1] = 232 /\ c[2] = 2 /\ c[3] = 0 /\ c[4] = 205 /\ c[5] = 32 /\ c[6] = 227
        /\ c[7] = 8 /\ c[8] = 1 /\ c[9] = 200 /\ c[10] = 81 /\ c[11] = 73 /\ c[12] = 232 /\ c[13] = 247
        /\ c[14] = 255 /\ c[15] = 89 /\ c[16] = 195
    BY <2>1
  <2> QED
    BY <2>2 DEF CallCode, Has, c
<1>2. ASSUME j.task = "frame"
      PROVE  FrameCode(j)
  <2>1. c = <<80, 83, 232, 2, 0>> \o <<205, 32>> \o <<85, 137, 229, 139, 70, 4, 43, 70, 6, 93, 194, 4, 0>>
    BY <1>2 DEF Code, Exit
  <2> HIDE DEF c
  <2>2. /\ Len(c) = 20 /\ c[1] = 80 /\ c[2] = 83 /\ c[3] = 232 /\ c[4] = 2 /\ c[5] = 0 /\ c[6] = 205
        /\ c[7] = 32 /\ c[8] = 85 /\ c[9] = 137 /\ c[10] = 229 /\ c[11] = 139 /\ c[12] = 70 /\ c[13] = 4
        /\ c[14] = 43 /\ c[15] = 70 /\ c[16] = 6 /\ c[17] = 93 /\ c[18] = 194 /\ c[19] = 4 /\ c[20] = 0
    BY <2>1
  <2> QED
    BY <2>2 DEF FrameCode, Has, c
<1> QED
  BY <1>1, <1>2

-----------------------------------------------------------------------------
\* The numbers the programs are written for, and strings that are not where the
\* handlers keep their words.
TwoDigits == {Packed(t, u) : t \in Digits, u \in Digits}

Operands(j) ==
  LET a == j.r[AX]
      b == j.r[BX]
  IN  /\ j.task \in {"decimal", "borrow"} => a \in TwoDigits /\ b \in TwoDigits
      /\ j.task = "ascii" => a \in Digits /\ b \in Digits
      /\ j.task \in {"product", "signed"} => a \in Octets /\ b \in Octets
      /\ j.task = "unpack" => a \in Octets
      /\ j.task = "compare" => j.r[SI] = 0 /\ j.r[DI] = 0
      /\ j.task \in {"search", "searchloop"} => StringsClear(j, 0)
      /\ j.task \in {"match", "matchloop"} => StringsClear(j, 1)
      /\ j.task \in {"searchloop", "matchloop"} => j.r[CX] # 0
      /\ j.task = "recurse" => j.r[CX] <= 9

\* A job whose way is followed to its end: it has no division that ends it before.
Passes(j) ==
  /\ EvenStack(j) /\ Operands(j)
  /\ j.task \in {"decimal", "borrow", "ascii", "unpack", "product", "signed", "compare", "sum",
                "search", "match", "searchloop", "matchloop", "recurse", "frame"}
  /\ j.task \in {"product", "signed"} => j.r[BX] # 0
  /\ j.task = "signed" => j.r[AX] # 128

Way(j) ==
  CASE j.task = "decimal" -> PackedWay(j, 0, 39, 2)
    [] j.task = "borrow" -> PackedWay(j, 40, 47, 3)
    [] j.task = "ascii" -> AsciiWay(j)
    [] j.task = "unpack" -> UnpackWay(j)
    [] j.task = "product" -> ProductWay(j, 4)
    [] j.task = "signed" -> ProductWay(j, 5)
    [] j.task = "compare" -> CompareWay(j)
    [] j.task = "sum" -> SumWay(j)
    [] j.task = "search" -> RepeatWay(j, 0)
    [] j.task = "match" -> RepeatWay(j, 1)
    [] j.task = "searchloop" -> RoundsWay(j, 0)
    [] j.task = "matchloop" -> RoundsWay(j, 1)
    [] j.task = "recurse" -> RecurseWay(j)
    [] j.task = "frame" -> FrameWay(j)

LEMMA DigitsFit ==
  /\ TwoDigits \subseteq Octets /\ Digits \subseteq Octets
  /\ \A t \in Digits : \A u \in Digits : Packed(t, u) \in Octets
<1>1. \A t \in Digits : \A u \in Digits : Packed(t, u) \in Octets
  BY SMT DEF Packed, Octets, Byte, Digits
<1>2. Digits \subseteq Octets
  BY SMT DEF Octets, Byte, Digits
<1> QED
  BY <1>1, <1>2 DEF TwoDigits

LEMMA WaySound ==
  ASSUME NEW j, Passes(j)
  PROVE  Sound(j, Way(j))
<1> DEFINE a == j.r[AX]
           b == j.r[BX]
<1>0. EvenStack(j)
  BY DEF Passes
<1>1. CASE j.task = "decimal"
  <2>1. Way(j) = PackedWay(j, 0, 39, 2) /\ PackedCode(j, 0, 39, 2)
    BY <1>1, Programs DEF Way
  <2>2. a \in Octets /\ b \in Octets
    BY <1>1, DigitsFit DEF Passes, Operands
  <2>3. Sound(j, PackedWay(j, 0, 39, 2))
    BY <1>0, <2>1, <2>2, PackedStep
  <2> QED
    BY <2>1, <2>3
<1>2. CASE j.task = "borrow"
  <2>1. Way(j) = PackedWay(j, 40, 47, 3) /\ PackedCode(j, 40, 47, 3)
    BY <1>2, Programs DEF Way
  <2>2. a \in Octets /\ b \in Octets
    BY <1>2, DigitsFit DEF Passes, Operands
  <2>3. Sound(j, PackedWay(j, 40, 47, 3))
    BY <1>0, <2>1, <2>2, PackedStep
  <2> QED
    BY <2>1, <2>3
<1>3. CASE j.task = "ascii"
  <2>1. Way(j) = AsciiWay(j) /\ AsciiCode(j)
    BY <1>3, Programs DEF Way
  <2>2. a \in Octets /\ b \in Octets
    BY <1>3, DigitsFit DEF Passes, Operands
  <2> QED
    BY <1>0, <2>1, <2>2, AsciiStep
<1>4. CASE j.task = "unpack"
  <2>1. Way(j) = UnpackWay(j) /\ UnpackCode(j)
    BY <1>4, Programs DEF Way
  <2>2. a \in Octets
    BY <1>4 DEF Passes, Operands
  <2> QED
    BY <1>0, <2>1, <2>2, UnpackStep
<1>5. CASE j.task = "product"
  <2> DEFINE reg == 4
  <2>1. Way(j) = ProductWay(j, reg) /\ ProductCode(j, reg)
    BY <1>5, Programs DEF Way
  <2>2. a \in Octets /\ b \in Octets /\ b # 0 /\ (reg = 5 => a # 128)
    BY <1>5 DEF Passes, Operands
  <2> HIDE DEF reg
  <2> QED
    BY <1>0, <2>1, <2>2, ProductStep
<1>6. CASE j.task = "signed"
  <2> DEFINE reg == 5
  <2>1. Way(j) = ProductWay(j, reg) /\ ProductCode(j, reg)
    BY <1>6, Programs DEF Way
  <2>2. a \in Octets /\ b \in Octets /\ b # 0 /\ (reg = 5 => a # 128)
    BY <1>6 DEF Passes, Operands
  <2> HIDE DEF reg
  <2> QED
    BY <1>0, <2>1, <2>2, ProductStep
<1>7. CASE j.task = "compare"
  <2>1. Way(j) = CompareWay(j) /\ CompareCode(j)
    BY <1>7, Programs DEF Way
  <2> QED
    BY <1>0, <2>1, CompareStep
<1>8. CASE j.task = "sum"
  <2>1. Way(j) = SumWay(j) /\ SumCode(j)
    BY <1>8, Programs DEF Way
  <2> QED
    BY <1>0, <2>1, SumStep
<1>9. CASE j.task = "search"
  <2> DEFINE q == 0
  <2>1. Way(j) = RepeatWay(j, q) /\ RepeatCode(j, q)
    BY <1>9, ScanPrograms DEF Way
  <2>2. q \in Kinds /\ StringsClear(j, q)
    BY <1>9 DEF Passes, Operands, Kinds
  <2> HIDE DEF q
  <2> QED
    BY <1>0, <2>1, <2>2, RepeatStep
<1>10. CASE j.task = "match"
  <2> DEFINE q == 1
  <2>1. Way(j) = RepeatWay(j, q) /\ RepeatCode(j, q)
    BY <1>10, ScanPrograms DEF Way
  <2>2. q \in Kinds /\ StringsClear(j, q)
    BY <1>10 DEF Passes, Operands, Kinds
  <2> HIDE DEF q
  <2> QED
    BY <1>0, <2>1, <2>2, RepeatStep
<1>11. CASE j.task = "searchloop"
  <2> DEFINE q == 0
  <2>1. Way(j) = RoundsWay(j, q) /\ RoundsCode(j, q)
    BY <1>11, ScanPrograms DEF Way
  <2>2. q \in Kinds /\ StringsClear(j, q) /\ j.r[CX] # 0
    BY <1>11 DEF Passes, Operands, Kinds
  <2> HIDE DEF q
  <2> QED
    BY <1>0, <2>1, <2>2, RoundsStep
<1>12. CASE j.task = "matchloop"
  <2> DEFINE q == 1
  <2>1. Way(j) = RoundsWay(j, q) /\ RoundsCode(j, q)
    BY <1>12, ScanPrograms DEF Way
  <2>2. q \in Kinds /\ StringsClear(j, q) /\ j.r[CX] # 0
    BY <1>12 DEF Passes, Operands, Kinds
  <2> HIDE DEF q
  <2> QED
    BY <1>0, <2>1, <2>2, RoundsStep
<1>13. CASE j.task = "recurse"
  <2>1. Way(j) = RecurseWay(j) /\ CallCode(j)
    BY <1>13, CallPrograms DEF Way
  <2>2. Recurses(j)
    BY <1>13, <2>1 DEF Passes, Operands, Recurses
  <2> QED
    BY <2>1, <2>2, RecurseStep
<1>14. CASE j.task = "frame"
  <2>1. Way(j) = FrameWay(j) /\ FrameCode(j)
    BY <1>14, CallPrograms DEF Way
  <2> QED
    BY <1>0, <2>1, FrameStep
<1> QED
  BY <1>1, <1>2, <1>3, <1>4, <1>5, <1>6, <1>7, <1>8, <1>9, <1>10, <1>11, <1>12, <1>13, <1>14 DEF Passes

-----------------------------------------------------------------------------
\* The inductive invariant of a session: both machines stand at one point of the way
\* of the job, or one is at a turn of a handler, or both are at the end.
Underway == Typed /\ (Passes(job) => OnTheWay(Way(job)))

\* Whatever interrupts are requested between its instructions, a program whose way is
\* given runs along it, to its INT 20h: at every instruction the registers, the flags,
\* the words on the stack and the memory are those computed for it, and a handler
\* comes back to the same point (cpu.c: exec86, intcall86, IRET and the opcodes of
\* the programs; arith.c, flags.c).
THEOREM JobsStayOnTheirWay == Spec => []Underway
<1>1. Init => Underway
  <2> SUFFICES ASSUME Init
               PROVE  Underway
    OBVIOUS
  <2>1. Typed
    BY TypedAtFirst
  <2>2. ASSUME Passes(job)
        PROVE  OnTheWay(Way(job))
    BY <2>2, WaySound, WayBegins DEF Passes
  <2> QED
    BY <2>1, <2>2 DEF Underway
<1>2. Underway /\ [Next]_vars => Underway'
  <2> SUFFICES ASSUME Underway, [Next]_vars
               PROVE  Underway'
    OBVIOUS
  <2>1. Typed /\ Typed'
    <3>1. Typed
      BY DEF Underway
    <3>2. CASE UNCHANGED vars
      BY <3>1, <3>2 DEF Typed, TypeOK, m, plain, vars
    <3>3. ASSUME NEW request, Run(request)
          PROVE  Typed'
      BY <3>1, <3>3, TypedTurns
    <3> QED
      BY <3>1, <3>2, <3>3 DEF Next
  <2>2. job' = job
    BY RunIs DEF Next, vars
  <2>3. ASSUME Passes(job)
        PROVE  OnTheWay(Way(job))'
    <3>1. PICK way : way = Way(job)
      OBVIOUS
    <3>2. EvenStack(job) /\ Sound(job, way) /\ OnTheWay(way)
      BY <2>3, <3>1, WaySound DEF Passes, Underway
    <3>3. OnTheWay(way)'
      BY <2>1, <3>2, WayGoesOn
    <3>4. Way(job)' = way
      BY <2>2, <3>1
    <3> QED
      BY <3>3, <3>4 DEF OnTheWay
  <2>4. Passes(job)' => Passes(job)
    BY <2>2
  <2> QED
    BY <2>1, <2>3, <2>4 DEF Underway
<1> QED
  BY <1>1, <1>2, PTL DEF Spec

-----------------------------------------------------------------------------
\* What the ways end with.
LEMMA PackedEnd ==
  ASSUME NEW j, NEW op, NEW adj, NEW reg, PackedCode(j, op, adj, reg),
         NEW p \in PackedWay(j, op, adj, reg), Final(j, p)
  PROVE  p.r = WithAX(j.r, PackedLast(j, op, adj, reg).v, PackedThen(j, op, adj).al)
<1> DEFINE g == PackedFirst(j, op)
           e == PackedThen(j, op, adj)
           c == PackedLast(j, op, adj, reg)
<1>1. p \in {Begin(j), Point(2, WithAX(j.r, 0, g.v), g.f, 0, <<>>), Point(3, WithAX(j.r, 0, e.al), e.f, 0, <<>>),
             Point(6, WithAX(j.r, c.v, e.al), c.f, 0, <<>>)}
  BY DEF PackedWay
<1> HIDE DEF g, e, c
<1>2. Code[j.task][p.i + 1] = 205
  BY DEF Final, Has
<1>3. /\ Code[j.task][0 + 1] # 205 /\ Code[j.task][2 + 1] # 205 /\ Code[j.task][3 + 1] # 205
  BY DEF PackedCode, Has
<1>4. p.i # 0 /\ p.i # 2 /\ p.i # 3
  BY <1>2, <1>3
<1>5. p = Point(6, WithAX(j.r, c.v, e.al), c.f, 0, <<>>)
  BY <1>1, <1>4 DEF Point, Begin
<1> QED
  BY <1>5 DEF Point, c, e

LEMMA AsciiEnd ==
  ASSUME NEW j, AsciiCode(j), NEW p \in AsciiWay(j), Final(j, p)
  PROVE  p.r = WithAX(j.r, AsciiThen(j).ah, AsciiThen(j).al)
<1> DEFINE g == AsciiFirst(j)
           e == AsciiThen(j)
<1>1. p \in {Begin(j), Point(2, WithAX(j.r, 0, g.v), g.f, 0, <<>>), Point(3, WithAX(j.r, e.ah, e.al), e.f, 0, <<>>)}
  BY DEF AsciiWay
<1> HIDE DEF g, e
<1>2. Code[j.task][p.i + 1] = 205
  BY DEF Final, Has
<1>3. Code[j.task][0 + 1] # 205 /\ Code[j.task][2 + 1] # 205
  BY DEF AsciiCode, Has
<1>4. p = Point(3, WithAX(j.r, e.ah, e.al), e.f, 0, <<>>)
  BY <1>1, <1>2, <1>3 DEF Point, Begin
<1> QED
  BY <1>4 DEF Point, e

LEMMA UnpackEnd ==
  ASSUME NEW j, UnpackCode(j), NEW p \in UnpackWay(j), Final(j, p)
  PROVE  p.r = WithAX(j.r, UnpackThen(j).ah, UnpackThen(j).al)
<1> DEFINE g == UnpackFirst(j)
           e == UnpackThen(j)
<1>1. p \in {Begin(j), Point(2, WithAX(j.r, g.ah, g.al), g.f, 0, <<>>), Point(4, WithAX(j.r, e.ah, e.al), e.f, 0, <<>>)}
  BY DEF UnpackWay
<1> HIDE DEF g, e
<1>2. Code[j.task][p.i + 1] = 205
  BY DEF Final, Has
<1>3. Code[j.task][0 + 1] # 205 /\ Code[j.task][2 + 1] # 205
  BY DEF UnpackCode, Has
<1>4. p = Point(4, WithAX(j.r, e.ah, e.al), e.f, 0, <<>>)
  BY <1>1, <1>2, <1>3 DEF Point, Begin
<1> QED
  BY <1>4 DEF Point, e

LEMMA ProductEnd ==
  ASSUME NEW j, NEW reg, ProductCode(j, reg), NEW p \in ProductWay(j, reg), Final(j, p)
  PROVE  p.r = j.r
<1> DEFINE x == ProductFirst(j, reg)
           g == MulFlags(Load(j).f, x.hi)
<1>1. p \in {Begin(j), Point(2, WithAX(j.r, x.hi, x.lo), g, 0, <<>>), Point(4, j.r, g, 0, <<>>)}
  BY DEF ProductWay
<1> HIDE DEF x, g
<1>2. Code[j.task][p.i + 1] = 205
  BY DEF Final, Has
<1>3. Code[j.task][0 + 1] # 205 /\ Code[j.task][2 + 1] # 205
  BY DEF ProductCode, Has
<1>4. p = Point(4, j.r, g, 0, <<>>)
  BY <1>1, <1>2, <1>3 DEF Point, Begin
<1> QED
  BY <1>4 DEF Point

\* The halves of AX when it was left with two bytes.
LEMMA LeftAX ==
  ASSUME Typed, EvenStack(job), NEW h \in Octets, NEW l \in Octets, NEW p, p.r = WithAX(job.r, h, l), Left(p)
  PROVE  m.r[AX] % Byte = l /\ m.r[AX] \div Byte = h /\ Result = WithAX(job.r, h, l)
<1> DEFINE r == WithAX(job.r, h, l)
<1>1. job.r \in [0..7 -> Words]
  BY JobsAssumption DEF EvenStack
<1>2. Byte * h + l \in Words /\ (Byte * h + l) % Byte = l /\ (Byte * h + l) \div Byte = h
  BY HalvesOf
<1>3. r \in [0..7 -> Words] /\ r[SP] = job.r[SP] /\ r[AX] = Byte * h + l
  BY <1>1, <1>2 DEF WithAX, AX, SP
<1>4. p.r = r
  OBVIOUS
<1> HIDE DEF r
<1>5. Result = r /\ m.r[AX] = r[AX]
  BY <1>3, <1>4, ResultIs DEF AX, SP
<1> QED
  BY <1>2, <1>3, <1>5 DEF r

\* The flags a program begins with, and bytes as literals.
LEMMA FirstFlags ==
  ASSUME NEW j, EvenStack(j)
  PROVE  /\ Load(j).f \in Flags /\ Octets = 0..255 /\ Byte = 256
         /\ j.r \in [0..7 -> Words]
<1>1. Load(j).f \in Flags
  BY SaneAtFirst DEF EvenStack, Sane
<1>2. Octets = 0..255 /\ Byte = 256
  BY SMT DEF Octets, Byte
<1> QED
  BY <1>1, <1>2, JobsAssumption DEF EvenStack

\* The digits of a sum and of a difference, as DecimalSum reads them.
LEMMA DigitsOf ==
  ASSUME NEW t \in Digits, NEW u \in Digits
  PROVE  /\ Packed(t, u) \in TwoDigits /\ Decimal2(Packed(t, u)) = 10 * t + u
         /\ Packed(t, u) % 16 = u /\ Packed(t, u) = 16 * t + u
<1>1. t \in 0..9 /\ u \in 0..9
  BY DEF Digits
<1>2. (16 * t + u) \div 16 = t /\ (16 * t + u) % 16 = u
  BY <1>1
<1> QED
  BY <1>2 DEF TwoDigits, Decimal2, Packed

LEMMA DigitsAdded ==
  ASSUME NEW f \in Flags, NEW a \in TwoDigits, NEW b \in TwoDigits, a + b \notin 250..255,
         NEW g, g = op_add(f, a, b, 256), NEW x, x = DAA(g.f, g.v)
  PROVE  LET sum == Decimal2(a) + Decimal2(b)
         IN  /\ x.al \in TwoDigits /\ Decimal2(x.al) = sum % 100
             /\ x.f.cf = sum \div 100 /\ x.f.cf \in 0..1
<1>1. PICK t \in Digits, u \in Digits : a = Packed(t, u)
  BY DEF TwoDigits
<1>2. PICK v \in Digits, w \in Digits : b = Packed(v, w)
  BY DEF TwoDigits
<1> DEFINE sum == 10 * t + u + 10 * v + w
           tens == (sum \div 10) % 10
           ones == sum % 10
<1>3. Packed(t, u) + Packed(v, w) \notin 250..255 /\ g = op_add(f, Packed(t, u), Packed(v, w), 256)
  BY <1>1, <1>2
<1>4. x.al = Packed(tens, ones) /\ x.f.cf = sum \div 100
  BY <1>3, PackedSumIsDecimal
<1>5. Decimal2(a) + Decimal2(b) = sum /\ sum \in 0..198
  <2>1. Decimal2(a) = 10 * t + u /\ Decimal2(b) = 10 * v + w
    BY <1>1, <1>2, DigitsOf
  <2> QED
    BY <2>1 DEF Digits
<1> HIDE DEF sum
<1>6. tens \in Digits /\ ones \in Digits /\ 10 * tens + ones = sum % 100 /\ sum \div 100 \in 0..1
  BY <1>5 DEF Digits
<1> HIDE DEF tens, ones
<1>7. Packed(tens, ones) \in TwoDigits /\ Decimal2(Packed(tens, ones)) = 10 * tens + ones
  BY <1>6, DigitsOf
<1> QED
  BY <1>4, <1>5, <1>6, <1>7

LEMMA DigitsTaken ==
  ASSUME NEW f \in Flags, NEW a \in TwoDigits, NEW b \in TwoDigits,
         ~(a < b /\ a % 16 < b % 16 /\ (a - b) % 256 < 160),
         NEW g, g = op_sub(f, a, b, 256), NEW x, x = DAS(g.f, g.v)
  PROVE  LET rest == Decimal2(a) - Decimal2(b)
         IN  /\ x.al \in TwoDigits /\ Decimal2(x.al) = rest % 100
             /\ x.f.cf = IF rest < 0 THEN 1 ELSE 0
<1>1. PICK t \in Digits, u \in Digits : a = Packed(t, u)
  BY DEF TwoDigits
<1>2. PICK v \in Digits, w \in Digits : b = Packed(v, w)
  BY DEF TwoDigits
<1> DEFINE rest == 10 * t + u - (10 * v + w)
           tens == (rest \div 10) % 10
           ones == rest % 10
<1>3. /\ Decimal2(a) = 10 * t + u /\ Decimal2(b) = 10 * v + w
      /\ a % 16 = u /\ b % 16 = w /\ a = 16 * t + u /\ b = 16 * v + w
  BY <1>1, <1>2, DigitsOf
<1>4. (10 * t + u < 10 * v + w /\ u < w) => a < b
  BY <1>3 DEF Digits
<1>5. /\ ~(10 * t + u < 10 * v + w /\ u < w /\ (Packed(t, u) - Packed(v, w)) % 256 < 160)
      /\ g = op_sub(f, Packed(t, u), Packed(v, w), 256)
  BY <1>1, <1>2, <1>3, <1>4
<1>6. x.al = Packed(tens, ones) /\ x.f.cf = IF rest < 0 THEN 1 ELSE 0
  BY <1>5, PackedDifferenceIsDecimal
<1>7. Decimal2(a) - Decimal2(b) = rest /\ rest \in -99..99
  BY <1>3 DEF Digits
<1> HIDE DEF rest
<1>8. tens \in Digits /\ ones \in Digits /\ 10 * tens + ones = rest % 100
  BY <1>7 DEF Digits
<1> HIDE DEF tens, ones
<1>9. Packed(tens, ones) \in TwoDigits /\ Decimal2(Packed(tens, ones)) = 10 * tens + ones
  BY <1>8, DigitsOf
<1> QED
  BY <1>6, <1>7, <1>8, <1>9

LEMMA DecimalIsSum ==
  ASSUME Typed, Passes(job), OnTheWay(Way(job)), Done("decimal"), ~SumWraps
  PROVE  /\ Decimal2(m.r[AX] % Byte) = (Decimal2(in(AX)) + Decimal2(in(BX))) % 100
         /\ m.r[AX] \div Byte = (Decimal2(in(AX)) + Decimal2(in(BX))) \div 100
<1>1. job.task = "decimal" /\ EvenStack(job) /\ job.r[AX] \in TwoDigits /\ job.r[BX] \in TwoDigits /\ m.exited
  BY DEF Done, Passes, Operands
<1>2. Way(job) = PackedWay(job, 0, 39, 2) /\ PackedCode(job, 0, 39, 2)
  BY <1>1, Programs DEF Way
<1>3. PICK p \in PackedWay(job, 0, 39, 2) : Left(p)
  BY <1>1, <1>2, AtExit
<1> DEFINE f == Load(job).f
           a == job.r[AX]
           b == job.r[BX]
           g == PackedFirst(job, 0)
           e == PackedThen(job, 0, 39)
           c == PackedLast(job, 0, 39, 2)
           x == DAA(g.f, g.v)
<1>4. p.r = WithAX(job.r, c.v, e.al)
  BY <1>2, <1>3, PackedEnd DEF Left
<1>5. f \in Flags /\ Octets = 0..255 /\ Byte = 256
  BY <1>1, FirstFlags
<1>6. g = op_add(f, a, b, 256)
  <2>1. 0 \div 8 = 0
    OBVIOUS
  <2> QED
    BY <1>5, <2>1 DEF PackedFirst, Operation
<1>7. a + b \notin 250..255
  BY DEF SumWraps, in
<1>8. e.al = x.al /\ e.f = x.f /\ x = DAA(g.f, g.v)
  BY DEF PackedThen, Decimals
<1>9. c = op_adc(e.f, 0, 0, 256)
  BY <1>5 DEF PackedLast, Operation
<1> HIDE DEF a, b, f, g, e, c, x
<1> DEFINE sum == Decimal2(a) + Decimal2(b)
<1>10. x.al \in TwoDigits /\ Decimal2(x.al) = sum % 100 /\ x.f.cf = sum \div 100 /\ x.f.cf \in 0..1
  <2>1. a \in TwoDigits /\ b \in TwoDigits
    BY <1>1 DEF a, b
  <2> QED
    BY <1>5, <1>6, <1>7, <1>8, <2>1, DigitsAdded
<1>11. c.v = x.f.cf
  <2> DEFINE cf == x.f.cf
  <2>1. (0 + 0 + cf) % 256 = cf
    BY <1>10
  <2>2. e.f.cf = cf
    BY <1>8
  <2> HIDE DEF cf
  <2>3. c.v = cf
    BY <1>9, <2>1, <2>2 DEF op_adc
  <2> QED
    BY <2>3 DEF cf
<1> DEFINE h == c.v
           l == e.al
<1>12. h \in Octets /\ l \in Octets /\ p.r = WithAX(job.r, h, l)
  <2>1. x.f.cf \in 0..255
    BY <1>10
  <2>2. h \in Octets
    BY <1>5, <1>11, <2>1
  <2>3. l \in Octets
    BY <1>8, <1>10, DigitsFit
  <2> QED
    BY <1>4, <2>2, <2>3
<1> HIDE DEF h, l, sum
<1>13. m.r[AX] % Byte = l /\ m.r[AX] \div Byte = h
  BY <1>1, <1>3, <1>12, LeftAX
<1>14. Decimal2(l) = sum % 100 /\ h = sum \div 100
  BY <1>8, <1>10, <1>11 DEF l, h
<1>15. Decimal2(in(AX)) + Decimal2(in(BX)) = sum
  BY DEF sum, a, b, in
<1> QED
  BY <1>13, <1>14, <1>15

LEMMA BorrowIsDifference ==
  ASSUME Typed, Passes(job), OnTheWay(Way(job)), Done("borrow"), ~BorrowForgotten
  PROVE  /\ Decimal2(m.r[AX] % Byte) = (Decimal2(in(AX)) - Decimal2(in(BX))) % 100
         /\ (m.r[AX] \div Byte = 0) = (Decimal2(in(AX)) >= Decimal2(in(BX)))
<1>1. job.task = "borrow" /\ EvenStack(job) /\ job.r[AX] \in TwoDigits /\ job.r[BX] \in TwoDigits /\ m.exited
  BY DEF Done, Passes, Operands
<1>2. Way(job) = PackedWay(job, 40, 47, 3) /\ PackedCode(job, 40, 47, 3)
  BY <1>1, Programs DEF Way
<1>3. PICK p \in PackedWay(job, 40, 47, 3) : Left(p)
  BY <1>1, <1>2, AtExit
<1> DEFINE f == Load(job).f
           a == job.r[AX]
           b == job.r[BX]
           g == PackedFirst(job, 40)
           e == PackedThen(job, 40, 47)
           c == PackedLast(job, 40, 47, 3)
           x == DAS(g.f, g.v)
<1>4. p.r = WithAX(job.r, c.v, e.al)
  BY <1>2, <1>3, PackedEnd DEF Left
<1>5. f \in Flags /\ Octets = 0..255 /\ Byte = 256
  BY <1>1, FirstFlags
<1>6. g = op_sub(f, a, b, 256)
  <2>1. 40 \div 8 = 5
    OBVIOUS
  <2> QED
    BY <1>5, <2>1 DEF PackedFirst, Operation
<1>7. ~(a < b /\ a % 16 < b % 16 /\ (a - b) % 256 < 160)
  BY <1>5 DEF BorrowForgotten, in
<1>8. e.al = x.al /\ e.f = x.f /\ x = DAS(g.f, g.v)
  BY DEF PackedThen, Decimals
<1>9. c = op_sbb(e.f, 0, 0, 256)
  BY <1>5 DEF PackedLast, Operation
<1> HIDE DEF a, b, f, g, e, c, x
<1> DEFINE rest == Decimal2(a) - Decimal2(b)
<1>20. a \in TwoDigits /\ b \in TwoDigits
  BY <1>1 DEF a, b
<1>10. x.al \in TwoDigits /\ Decimal2(x.al) = rest % 100 /\ x.f.cf = IF rest < 0 THEN 1 ELSE 0
  BY <1>5, <1>6, <1>7, <1>8, <1>20, DigitsTaken
<1>11. c.v = IF rest < 0 THEN 255 ELSE 0
  <2> DEFINE cf == x.f.cf
             n == IF rest < 0 THEN 255 ELSE 0
  <2>1. (0 - 0 - cf) % 256 = n
    <3>1. cf = IF rest < 0 THEN 1 ELSE 0
      BY <1>10
    <3> HIDE DEF rest, cf
    <3> QED
      BY <3>1
  <2>2. e.f.cf = cf
    BY <1>8
  <2> HIDE DEF cf, n
  <2>3. c.v = n
    BY <1>9, <2>1, <2>2 DEF op_sbb
  <2> QED
    BY <2>3 DEF n
<1> DEFINE h == c.v
           l == e.al
<1>12. h \in Octets /\ l \in Octets /\ p.r = WithAX(job.r, h, l)
  <2>1. (IF rest < 0 THEN 255 ELSE 0) \in 0..255
    OBVIOUS
  <2>2. h \in Octets
    BY <1>5, <1>11, <2>1
  <2>3. l \in Octets
    BY <1>8, <1>10, DigitsFit
  <2> QED
    BY <1>4, <2>2, <2>3
<1> HIDE DEF h, l
<1>13. m.r[AX] % Byte = l /\ m.r[AX] \div Byte = h
  BY <1>1, <1>3, <1>12, LeftAX
<1>14. Decimal2(l) = rest % 100 /\ h = IF rest < 0 THEN 255 ELSE 0
  BY <1>8, <1>10, <1>11 DEF l, h
<1>15. Decimal2(in(AX)) = Decimal2(a) /\ Decimal2(in(BX)) = Decimal2(b)
  BY DEF a, b, in
<1>16. Decimal2(a) \in Int /\ Decimal2(b) \in Int
  <2>1. \A t \in Digits : \A u \in Digits : 10 * t + u \in Int
    BY DEF Digits
  <2> QED
    BY <1>20, <2>1, DigitsOf DEF TwoDigits
<1>17. (h = 0) <=> Decimal2(a) >= Decimal2(b)
  BY <1>14, <1>16
<1> QED
  BY <1>13, <1>14, <1>15, <1>17

LEMMA AsciiIsSum ==
  ASSUME Typed, Passes(job), OnTheWay(Way(job)), Done("ascii")
  PROVE  10 * (m.r[AX] \div Byte) + (m.r[AX] % Byte) = in(AX) + in(BX)
<1>1. job.task = "ascii" /\ EvenStack(job) /\ job.r[AX] \in Digits /\ job.r[BX] \in Digits /\ m.exited
  BY DEF Done, Passes, Operands
<1>2. Way(job) = AsciiWay(job) /\ AsciiCode(job)
  BY <1>1, Programs DEF Way
<1>3. PICK p \in AsciiWay(job) : Left(p)
  BY <1>1, <1>2, AtExit
<1> DEFINE f == Load(job).f
           a == job.r[AX]
           b == job.r[BX]
           g == AsciiFirst(job)
           e == AsciiThen(job)
           zero == 0
           h == e.ah
           l == e.al
<1>4. p.r = WithAX(job.r, h, l)
  BY <1>2, <1>3, AsciiEnd DEF Left
<1>5. f \in Flags /\ Octets = 0..255 /\ Byte = 256 /\ zero \in Octets
  BY <1>1, FirstFlags
<1>6. g = op_add(f, a, b, 256)
  BY <1>5 DEF AsciiFirst, Operation
<1>7. e = AAA(g.f, g.v, zero)
  BY DEF AsciiThen
<1>8. a \in Digits /\ b \in Digits
  BY <1>1
<1> HIDE DEF a, b, f, g, e, zero
<1>9. e.al = (a + b) % 10 /\ e.ah = (zero + ((a + b) \div 10)) % 256
  <2>1. f \in Flags /\ zero \in Octets
    BY <1>5
  <2> QED
    BY <1>6, <1>7, <1>8, <2>1, UnpackedSumIsDecimal
<1>10. 10 * h + l = a + b /\ h \in 0..255 /\ l \in 0..255
  BY <1>8, <1>9 DEF Digits, zero
<1> HIDE DEF h, l
<1>11. h \in Octets /\ l \in Octets
  BY <1>5, <1>10
<1>12. m.r[AX] % Byte = l /\ m.r[AX] \div Byte = h
  BY <1>1, <1>3, <1>4, <1>11, LeftAX
<1> QED
  BY <1>10, <1>12 DEF in, a, b

LEMMA UnpackIsBack ==
  ASSUME Typed, Passes(job), OnTheWay(Way(job)), Done("unpack")
  PROVE  Result = job.r
<1>1. job.task = "unpack" /\ EvenStack(job) /\ job.r[AX] \in Octets /\ m.exited
  BY DEF Done, Passes, Operands
<1>2. Way(job) = UnpackWay(job) /\ UnpackCode(job)
  BY <1>1, Programs DEF Way
<1>3. PICK p \in UnpackWay(job) : Left(p)
  BY <1>1, <1>2, AtExit
<1> DEFINE f == Load(job).f
           a == job.r[AX]
           x == UnpackFirst(job)
           e == UnpackThen(job)
           base == 10
           h == e.ah
           l == e.al
<1>4. p.r = WithAX(job.r, h, l)
  BY <1>2, <1>3, UnpackEnd DEF Left
<1>5. f \in Flags /\ Octets = 0..255 /\ Byte = 256 /\ base \in Octets /\ base # 0 /\ job.r \in [0..7 -> Words]
  BY <1>1, FirstFlags
<1>6. x = AAM(f, a, base) /\ e = AAD(x.f, x.al, x.ah, base)
  BY DEF UnpackFirst, UnpackThen
<1>7. a \in Octets
  BY <1>1
<1> HIDE DEF a, f, x, e, base
<1>8. l = a
  <2>1. a \in Octets /\ base \in Octets /\ base # 0 /\ x = AAM(f, a, base)
    BY <1>5, <1>6, <1>7
  <2> DEFINE xf == x.f
  <2> HIDE DEF xf
  <2>2. AAD(xf, x.al, x.ah, base).al = a
    BY <2>1, UnpackedAgain, ZenonT(90)
  <2> QED
    BY <1>6, <2>2 DEF xf
<1>9. h = 0
  <2>1. AAD(x.f, x.al, x.ah, base).ah = 0
    BY DEF AAD
  <2> QED
    BY <1>6, <2>1
<1>10. h \in Octets /\ l \in Octets
  BY <1>5, <1>7, <1>8, <1>9
<1> HIDE DEF h, l
<1>11. Result = WithAX(job.r, h, l)
  BY <1>1, <1>3, <1>4, <1>10, LeftAX
<1>12. job.r = WithAX(job.r, 0, job.r[AX])
  <2> DEFINE r == job.r
  <2>1. r \in [0..7 -> Words] /\ r[AX] < Byte
    BY <1>5, <1>7 DEF a
  <2> HIDE DEF r
  <2>2. r = WithAX(r, 0, r[AX])
    BY <2>1, SmallAX
  <2> QED
    BY <2>2 DEF r
<1> QED
  BY <1>8, <1>9, <1>11, <1>12 DEF a

LEMMA ProductIsBack ==
  ASSUME Typed, Passes(job), OnTheWay(Way(job)), Done("product") \/ Done("signed")
  PROVE  Result = job.r
<1>1. EvenStack(job) /\ m.exited
  BY DEF Done, Passes
<1> DEFINE reg == IF job.task = "product" THEN 4 ELSE 5
<1>2. Way(job) = ProductWay(job, reg) /\ ProductCode(job, reg)
  BY Programs DEF Way, Done
<1> HIDE DEF reg
<1>3. PICK p \in ProductWay(job, reg) : Left(p)
  BY <1>1, <1>2, AtExit
<1>4. p.r = job.r
  BY <1>2, <1>3, ProductEnd DEF Left
<1>5. job.r \in [0..7 -> Words]
  BY <1>1, JobsAssumption DEF EvenStack
<1> QED
  BY <1>1, <1>3, <1>4, <1>5, ResultIs

-----------------------------------------------------------------------------
\* Of operands made of decimal digits, the programs of DAA, DAS, AAA, AAM and AAD leave
\* the decimal sum, the difference and the byte they began with, and their carry or
\* borrow in AH, whatever interrupts come in between (cpu.c: DAA, DAS, AAA, AAM, AAD and
\* the forms of ADD, SUB, ADC and SBB with bytes; arith.c: their flags).
THEOREM DecimalProgramsAreDecimal == Spec => [](EvenStack(job) /\ Operands(job) => DecimalSum)
<1>1. Underway => (EvenStack(job) /\ Operands(job) => DecimalSum)
  <2> SUFFICES ASSUME Underway, EvenStack(job), Operands(job)
               PROVE  DecimalSum
    OBVIOUS
  <2>1. ASSUME NEW task \in {"decimal", "borrow", "ascii", "unpack"}, Done(task)
        PROVE  Typed /\ Passes(job) /\ OnTheWay(Way(job))
    <3>1. job.task \in {"decimal", "borrow", "ascii", "unpack"}
      BY <2>1 DEF Done
    <3>2. Passes(job)
      BY <3>1 DEF Passes
    <3> QED
      BY <3>2 DEF Underway
  <2>2. Done("decimal") /\ ~SumWraps =>
          /\ Decimal2(m.r[AX] % Byte) = (Decimal2(in(AX)) + Decimal2(in(BX))) % 100
          /\ m.r[AX] \div Byte = (Decimal2(in(AX)) + Decimal2(in(BX))) \div 100
    BY <2>1, DecimalIsSum
  <2>3. Done("borrow") /\ ~BorrowForgotten =>
          /\ Decimal2(m.r[AX] % Byte) = (Decimal2(in(AX)) - Decimal2(in(BX))) % 100
          /\ (m.r[AX] \div Byte = 0) = (Decimal2(in(AX)) >= Decimal2(in(BX)))
    BY <2>1, BorrowIsDifference
  <2>4. Done("ascii") => 10 * (m.r[AX] \div Byte) + (m.r[AX] % Byte) = in(AX) + in(BX)
    BY <2>1, AsciiIsSum
  <2>5. Done("unpack") => Result = job.r
    BY <2>1, UnpackIsBack
  <2> QED
    BY <2>2, <2>3, <2>4, <2>5 DEF DecimalSum
<1> QED
  BY <1>1, JobsStayOnTheirWay, PTL

\* Outside a handler a machine that was interrupted is the machine that was not, in its
\* registers, flags and memory, but for the counter of the timer and what is below the
\* stack pointer: for every program with a way (cpu.c: exec86, intcall86, IRET; rom.c:
\* the handlers of INT 8 and 9).
THEOREM JobsNoticeNoInterrupt == Spec => [](Passes(job) => InterruptsInvisible)
<1>1. Underway => (Passes(job) => InterruptsInvisible)
  BY WaySound, AlikeIsInvisible DEF Underway, Passes
<1> QED
  BY <1>1, JobsStayOnTheirWay, PTL

LEMMA CompareIsOrder ==
  ASSUME Typed, Passes(job), OnTheWay(Way(job)), Done("compare")
  PROVE  /\ ~BorrowTurnsSign =>
              (m.r[SI] = 0) = Less(Signed(in(DX), Word), in(AX), Signed(in(CX), Word), in(BX))
         /\ (m.r[DI] = 0) = Less(in(DX), in(AX), in(CX), in(BX))
<1>1. job.task = "compare" /\ EvenStack(job) /\ job.r[SI] = 0 /\ job.r[DI] = 0 /\ m.exited
  BY DEF Done, Passes, Operands
<1>2. Way(job) = CompareWay(job) /\ CompareCode(job)
  BY <1>1, Programs DEF Way
<1>3. PICK p \in CompareWay(job) : Left(p)
  BY <1>1, <1>2, AtExit
<1> DEFINE r == UnsignedRegisters(job)
<1>4. p.r = r
  BY <1>2, <1>3, CompareEnd DEF Left
<1>5. /\ r \in [0..7 -> Words] /\ r[SP] = job.r[SP]
      /\ r[SI] = 0 <=> SignedLess(job)
      /\ r[DI] = 0 <=> Condition(2, CompareHigh(job).f)
  BY <1>1, <1>2, Compared
<1> HIDE DEF r
<1>6. m.r[SI] = r[SI] /\ m.r[DI] = r[DI]
  <2>1. \A i \in 0..7 : i # SP => m.r[i] = r[i]
    BY <1>1, <1>3, <1>4, <1>5, ResultIs
  <2>2. SI \in 0..7 /\ DI \in 0..7 /\ SI # SP /\ DI # SP
    BY DEF SI, DI, SP
  <2> QED
    BY <2>1, <2>2
<1>7. /\ Condition(2, CompareHigh(job).f) <=> Less(job.r[DX], job.r[AX], job.r[CX], job.r[BX])
      /\ ~(job.r[CX] = 32767 /\ job.r[AX] < job.r[BX]) =>
              (SignedLess(job) <=>
                 Less(Signed(job.r[DX], Word), job.r[AX], Signed(job.r[CX], Word), job.r[BX]))
  BY <1>1, ComparedInOrder
<1>8. (m.r[DI] = 0) = Less(in(DX), in(AX), in(CX), in(BX))
  <2>1. (m.r[DI] = 0) <=> Less(job.r[DX], job.r[AX], job.r[CX], job.r[BX])
    BY <1>5, <1>6, <1>7
  <2>2. Less(job.r[DX], job.r[AX], job.r[CX], job.r[BX]) \in BOOLEAN
    BY DEF Less
  <2> QED
    BY <2>1, <2>2 DEF in
<1>9. ASSUME ~BorrowTurnsSign
      PROVE  (m.r[SI] = 0) = Less(Signed(in(DX), Word), in(AX), Signed(in(CX), Word), in(BX))
  <2>1. ~(job.r[CX] = 32767 /\ job.r[AX] < job.r[BX])
    BY <1>9 DEF BorrowTurnsSign, in
  <2>2. (m.r[SI] = 0) <=> Less(Signed(job.r[DX], Word), job.r[AX], Signed(job.r[CX], Word), job.r[BX])
    BY <1>5, <1>6, <1>7, <2>1
  <2>3. Less(Signed(job.r[DX], Word), job.r[AX], Signed(job.r[CX], Word), job.r[BX]) \in BOOLEAN
    BY DEF Less
  <2> QED
    BY <2>2, <2>3 DEF in
<1> QED
  BY <1>8, <1>9

LEMMA SumsComeBack ==
  ASSUME Typed, Passes(job), OnTheWay(Way(job)), Done("sum")
  PROVE  /\ Result = job.r
         /\ m.f.cf = Bool(in(DX) + in(CX) + ((in(AX) + in(BX)) \div Word) >= Word)
<1>1. job.task = "sum" /\ EvenStack(job) /\ m.exited
  BY DEF Done, Passes
<1>2. Way(job) = SumWay(job) /\ SumCode(job)
  BY <1>1, Programs DEF Way
<1>3. PICK p \in SumWay(job) : Left(p)
  BY <1>1, <1>2, AtExit
<1> DEFINE g == SumHigh(job).f
<1>4. p.r = job.r /\ p.f = g
  BY <1>2, <1>3, SumEnd DEF Left
<1>5. job.r \in [0..7 -> Words]
  BY <1>1, JobsAssumption DEF EvenStack
<1>6. Result = job.r
  BY <1>1, <1>3, <1>4, <1>5, ResultIs
<1>7. g \in Flags
  BY <1>1, <1>2, SummedUp DEF Worked, Sane
<1>8. g.cf = Bool(job.r[DX] + job.r[CX] + ((job.r[AX] + job.r[BX]) \div Word) >= Word)
  BY <1>1, <1>2, SumIsBack
<1> HIDE DEF g
<1>9. m.f.cf = g.cf
  <2>1. m.f = [g EXCEPT !.ifl = 0, !.tf = 0]
    BY <1>3, <1>4 DEF Left, EndFlags
  <2>2. DOMAIN g = FlagNames
    BY <1>7 DEF Flags
  <2> QED
    BY <2>1, <2>2 DEF FlagNames
<1> QED
  BY <1>6, <1>8, <1>9 DEF in

-----------------------------------------------------------------------------
\* Arithmetic over several instructions comes out right (arith.c, flags.c, cpu.c): CMP
\* and SBB and the jumps behind them order double words, ADC and SBB take a sum of
\* double words back and leave its carry, and a division undoes a product, whatever
\* interrupts come between the instructions.  The shifts have no way.
THEOREM DoubleWordsComeOut ==
  Spec => [](EvenStack(job) /\ Operands(job) /\ job.task \notin {"shift", "wide"} => LongArithmetic)
<1>1. Underway => (EvenStack(job) /\ Operands(job) /\ job.task \notin {"shift", "wide"} => LongArithmetic)
  <2> SUFFICES ASSUME Underway, EvenStack(job), Operands(job), job.task \notin {"shift", "wide"}
               PROVE  LongArithmetic
    OBVIOUS
  <2>1. ASSUME Passes(job)
        PROVE  Typed /\ Passes(job) /\ OnTheWay(Way(job))
    BY <2>1 DEF Underway
  <2>2. ASSUME Done("compare")
        PROVE  Passes(job)
    BY <2>2 DEF Passes, Done
  <2>3. ASSUME Done("sum")
        PROVE  Passes(job)
    BY <2>3 DEF Passes, Done
  <2>4. ASSUME Done("product"), in(BX) # 0
        PROVE  Passes(job)
    BY <2>4 DEF Passes, Done, in
  <2>5. ASSUME Done("signed"), in(BX) # 0, in(AX) # 128
        PROVE  Passes(job)
    BY <2>5 DEF Passes, Done, in
  <2>6. ~Done("shift") /\ ~Done("wide")
    BY DEF Done
  <2>7. Done("compare") =>
          /\ ~BorrowTurnsSign =>
               (m.r[SI] = 0) = Less(Signed(in(DX), Word), in(AX), Signed(in(CX), Word), in(BX))
          /\ (m.r[DI] = 0) = Less(in(DX), in(AX), in(CX), in(BX))
    BY <2>1, <2>2, CompareIsOrder
  <2>8. Done("sum") =>
          /\ Result = job.r
          /\ m.f.cf = Bool(in(DX) + in(CX) + ((in(AX) + in(BX)) \div Word) >= Word)
    BY <2>1, <2>3, SumsComeBack
  <2>9. Done("product") /\ in(BX) # 0 => Result = job.r
    BY <2>1, <2>4, ProductIsBack
  <2>10. Done("signed") /\ in(BX) # 0 /\ in(AX) # 128 => Result = job.r
    BY <2>1, <2>5, ProductIsBack
  <2> QED
    BY <2>6, <2>7, <2>8, <2>9, <2>10 DEF LongArithmetic
<1> QED
  BY <1>1, JobsStayOnTheirWay, PTL

-----------------------------------------------------------------------------
\* The elements that are looked at are those behind which the comparison is over.
Scanning(q) == job.task \in (IF q = 0 THEN {"search", "searchloop"} ELSE {"match", "matchloop"})

LEMMA EndsIs ==
  ASSUME EvenStack(job), NEW q \in Kinds, Scanning(q), NEW k \in Nat
  PROVE  /\ Ends(k) <=> ElementFlags(job, q, k).zf # q
         /\ (ElementFlags(job, q, k).zf = 1) = (Ends(k) = (job.task \in {"search", "searchloop"}))
         /\ Kth(SI, 1, k) = Nth(job, SI, k) /\ Kth(DI, 1, k) = Nth(job, DI, k)
<1>1. \A i : Kth(i, 1, k) = Nth(job, i, k)
  <2>1. \A d \in {-1, 1} : d * 1 * k = d * k
    OBVIOUS
  <2>2. (IF down THEN -1 ELSE 1) = Forward(job) /\ Forward(job) \in {-1, 1}
    BY DEF down, Forward
  <2> QED
    BY <2>1, <2>2 DEF Kth, Nth, in
<1>2. /\ before(To(k)) = Met(job, k)
      /\ Sought(job, q, k) = IF q = 0 THEN in(AX) % Byte ELSE before(From(k))
  BY <1>1 DEF before, To, From, Met, Sought, FromPlace, ToPlace, in
<1>3. ElementFlags(job, q, k).zf = Bool(Sought(job, q, k) = Met(job, k))
  BY ScanFlagsSane
<1> DEFINE z == ElementFlags(job, q, k).zf
<1>4. z = IF Sought(job, q, k) = Met(job, k) THEN 1 ELSE 0
  BY <1>3 DEF Bool
<1> HIDE DEF z
<1>5. CASE q = 0
  <2>1. job.task \in {"search", "searchloop"}
    BY <1>5 DEF Scanning
  <2>2. Ends(k) <=> Sought(job, q, k) = Met(job, k)
    BY <1>2, <1>5, <2>1 DEF Ends
  <2>3. Ends(k) \in BOOLEAN
    BY <2>1 DEF Ends
  <2> QED
    BY <1>1, <1>4, <1>5, <2>1, <2>2, <2>3 DEF z
<1>6. CASE q = 1
  <2>1. job.task \notin {"search", "searchloop"}
    BY <1>6 DEF Scanning
  <2>2. Ends(k) <=> Sought(job, q, k) # Met(job, k)
    BY <1>2, <1>6, <2>1 DEF Ends
  <2>3. Ends(k) \in BOOLEAN
    BY <2>1 DEF Ends
  <2> QED
    BY <1>1, <1>4, <1>6, <2>1, <2>2, <2>3 DEF z
<1> QED
  BY <1>5, <1>6 DEF Kinds

LEMMA LookedIs ==
  ASSUME EvenStack(job), NEW q \in Kinds, Scanning(q), NEW n \in 0 .. count, Over(job, q, n)
  PROVE  Looked = n
<1>1. count \in Nat /\ count = job.r[CX] /\ n \in Nat /\ n <= count
  <2>1. job.r[CX] \in Nat
    BY JobsAssumption, Numbers8, Names DEF EvenStack
  <2> QED
    BY <2>1 DEF count, in
<1>2. \A k \in Nat : Ends(k) <=> ElementFlags(job, q, k).zf # q
  BY EndsIs
<1> DEFINE top == count
           P(k) == Ends(k) /\ \A i \in 0 .. k - 1 : ~Ends(i)
           some == \E k \in 0 .. top - 1 : Ends(k)
<1>3. Looked = IF some THEN 1 + (CHOOSE k \in 0 .. top - 1 : P(k)) ELSE top
  BY DEF Looked
<1> HIDE DEF top
<1>4. CASE n = job.r[CX] /\ Unended(job, q, n)
  <2>1. n = top
    BY <1>1, <1>4 DEF top
  <2>2. \A k \in 0 .. top - 1 : k \in Nat /\ k < n
    BY <1>1, <2>1
  <2>3. ~some
    BY <1>2, <1>4, <2>2 DEF Unended
  <2> QED
    BY <1>3, <2>1, <2>3
<1>5. CASE 0 < n /\ Unended(job, q, n - 1) /\ ElementFlags(job, q, n - 1).zf # q
  <2> DEFINE k == n - 1
  <2>1. k \in Nat /\ k \in 0 .. top - 1 /\ 1 + k = n
    BY <1>1, <1>5 DEF top
  <2> HIDE DEF k
  <2>2. Ends(k)
    BY <1>2, <1>5, <2>1 DEF k
  <2>3. \A i \in Nat : i < k => ~Ends(i)
    BY <1>2, <1>5 DEF Unended, k
  <2>4. P(k)
    BY <2>1, <2>2, <2>3
  <2> DEFINE c == CHOOSE i \in 0 .. top - 1 : P(i)
  <2>5. c \in 0 .. top - 1 /\ P(c)
    BY <2>1, <2>4
  <2> HIDE DEF c
  <2>6. c = k
    <3>1. c \in Nat /\ Ends(c) /\ \A i \in 0 .. c - 1 : ~Ends(i)
      BY <2>5
    <3>2. ~(c < k)
      BY <2>3, <3>1
    <3>3. ~(k < c)
      <4>1. k < c => k \in 0 .. c - 1
        BY <2>1, <3>1
      <4> QED
        BY <2>2, <3>1, <4>1
    <3> QED
      BY <2>1, <3>1, <3>2, <3>3
  <2>7. some
    BY <2>1, <2>2
  <2> HIDE DEF some
  <2>8. Looked = 1 + c
    BY <1>3, <2>7 DEF c
  <2> QED
    BY <2>1, <2>6, <2>8
<1> QED
  BY <1>4, <1>5 DEF Over

LEMMA ScanWays ==
  ASSUME Passes(job), NEW q \in Kinds, Scanning(q)
  PROVE  \/ Way(job) = RepeatWay(job, q) /\ RepeatCode(job, q)
         \/ Way(job) = RoundsWay(job, q) /\ RoundsCode(job, q)
<1>1. q = 0 \/ q = 1
  BY DEF Kinds
<1> QED
  BY <1>1, ScanPrograms DEF Way, Scanning

\* What a comparison leaves.
LEMMA ComparisonsStop ==
  ASSUME Typed, Passes(job), OnTheWay(Way(job)), m.exited, job.r[SP] \notin {2, 4},
         NEW q \in Kinds, Scanning(q)
  PROVE  /\ m.r[CX] = count - Looked /\ m.r[DI] = Kth(DI, 1, Looked)
         /\ count > 0 => (m.f.zf = 1) = (Ends(Looked - 1) = (job.task \in {"search", "searchloop"}))
         /\ Kept({})
<1>1. EvenStack(job) /\ count = job.r[CX]
  BY DEF Passes, count, in
<1>2. PICK p \in Way(job) : Left(p)
  BY AtExit
<1>3. PICK n \in 0 .. job.r[CX] :
        Over(job, q, n) /\ p.r = ScanRegisters(job, q, n, n) /\ p.f = ScanFlags(job, q, n)
  <2>1. Final(job, p)
    BY <1>2 DEF Left
  <2> QED
    BY <1>2, <2>1, ScanWays, ScanEnd
<1> DEFINE r == ScanRegisters(job, q, n, n)
           f == ScanFlags(job, q, n)
<1>4. n \in Nat /\ job.r[CX] \in Nat /\ n <= job.r[CX]
  <2>1. job.r[CX] \in Nat
    BY <1>1, JobsAssumption, Numbers8, Names DEF EvenStack
  <2> QED
    BY <1>3, <2>1
<1>5. /\ r \in [0..7 -> Words] /\ r[SP] = job.r[SP] /\ r[CX] = job.r[CX] - n /\ r[DI] = Nth(job, DI, n)
  BY <1>1, <1>4, ScanFacts
<1>6. Looked = n
  BY <1>1, <1>3, LookedIs
<1>7. Sane(f)
  BY <1>1, <1>4, ScanFlagsSane
<1>8. p.r = r /\ p.f = f
  BY <1>3
<1> HIDE DEF r, f
<1>9. \A i \in 0..7 : i # SP => m.r[i] = r[i]
  BY <1>1, <1>2, <1>5, <1>8, ResultIs
<1>10. m.r[CX] = r[CX] /\ m.r[DI] = r[DI]
  BY <1>9 DEF CX, DI, SP
<1>11. m.f.zf = f.zf
  <2>1. m.f = [f EXCEPT !.ifl = 0, !.tf = 0]
    BY <1>2, <1>8 DEF Left, EndFlags
  <2>2. DOMAIN f = FlagNames
    BY <1>7 DEF Sane, Flags
  <2> QED
    BY <2>1, <2>2 DEF FlagNames
<1>12. Kth(DI, 1, n) = Nth(job, DI, n)
  BY <1>1, <1>4, EndsIs
<1>13. ASSUME count > 0
       PROVE  (m.f.zf = 1) = (Ends(n - 1) = (job.task \in {"search", "searchloop"}))
  <2> DEFINE k == n - 1
  <2>1. 0 < n
    BY <1>1, <1>3, <1>4, <1>13 DEF Over
  <2>2. k \in Nat
    BY <1>4, <2>1
  <2>3. f = ElementFlags(job, q, k)
    BY <1>4, <2>1 DEF f, ScanFlags
  <2> HIDE DEF k
  <2>4. (ElementFlags(job, q, k).zf = 1) = (Ends(k) = (job.task \in {"search", "searchloop"}))
    BY <1>1, <2>2, EndsIs
  <2> QED
    BY <1>11, <2>3, <2>4 DEF k
<1>14. Kept({})
  BY <1>1, <1>2, <1>5, <1>8, MemoryKept
<1> QED
  BY <1>1, <1>5, <1>6, <1>10, <1>12, <1>13, <1>14

-----------------------------------------------------------------------------
\* A search and a match of strings stop where a loop over the elements stops, with the
\* registers, the zero flag and the memory of that loop: with the prefix of repops.c or
\* with LOOPNE and LOOPE of cpu.c, in both directions, over the end of the segment, and
\* with an interrupt behind any element.  With SP at 2 or 4 the frame of INT 20h wraps.
\* Copy, fill and output, which write memory or a port, have no way.
THEOREM ComparisonsMatchLoops ==
  Spec => [](/\ EvenStack(job) /\ Operands(job) /\ job.r[SP] \notin {2, 4}
             /\ job.task \notin {"copy", "fill", "output"}
             => StringsMatchLoops)
<1>1. Underway => (/\ EvenStack(job) /\ Operands(job) /\ job.r[SP] \notin {2, 4}
                   /\ job.task \notin {"copy", "fill", "output"}
                   => StringsMatchLoops)
  <2> SUFFICES ASSUME Underway, EvenStack(job), Operands(job), job.r[SP] \notin {2, 4},
                      job.task \notin {"copy", "fill", "output"}
               PROVE  StringsMatchLoops
    OBVIOUS
  <2>1. ~Done("copy") /\ ~Done("fill") /\ ~Done("output")
    BY DEF Done
  <2>2. m.exited /\ job.task \in {"search", "match", "searchloop", "matchloop"} =>
          /\ m.r[CX] = count - Looked /\ m.r[DI] = Kth(DI, 1, Looked)
          /\ count > 0 => (m.f.zf = 1) = (Ends(Looked - 1) = (job.task \in {"search", "searchloop"}))
          /\ Kept({})
    <3> SUFFICES ASSUME m.exited, job.task \in {"search", "match", "searchloop", "matchloop"}
                 PROVE  /\ m.r[CX] = count - Looked /\ m.r[DI] = Kth(DI, 1, Looked)
                        /\ count > 0 => (m.f.zf = 1) = (Ends(Looked - 1) = (job.task \in {"search", "searchloop"}))
                        /\ Kept({})
      OBVIOUS
    <3>1. Passes(job)
      BY DEF Passes
    <3>2. Typed /\ OnTheWay(Way(job))
      BY <3>1 DEF Underway
    <3>3. PICK q \in Kinds : Scanning(q)
      <4>1. Scanning(0) \/ Scanning(1)
        BY DEF Scanning
      <4> QED
        BY <4>1 DEF Kinds
    <3> QED
      BY <3>1, <3>2, <3>3, ComparisonsStop
  <2> QED
    BY <2>1, <2>2, PTL DEF StringsMatchLoops
<1> QED
  BY <1>1, JobsStayOnTheirWay, PTL

-----------------------------------------------------------------------------
\* A recursion of up to nine calls comes back with the sum it collected on the way down.
LEMMA RecursionIsBack ==
  ASSUME Typed, Passes(job), OnTheWay(Way(job)), Done("recurse")
  PROVE  Result = [job.r EXCEPT ![AX] = (@ + ((count * (count + 1)) \div 2)) % Word]
<1>1. job.task = "recurse" /\ EvenStack(job) /\ job.r[CX] <= 9 /\ m.exited
  BY DEF Done, Passes, Operands
<1>2. Way(job) = RecurseWay(job) /\ Recurses(job)
  BY <1>1, CallPrograms DEF Way, Recurses
<1>3. PICK p \in RecurseWay(job) : Left(p)
  BY <1>1, <1>2, AtExit
<1> DEFINE a == Added(job, 0)
           r == [job.r EXCEPT ![AX] = a]
<1>4. p.r = r
  BY <1>2, <1>3, RecurseEnd DEF Left
<1>5. a = (job.r[AX] + Triangle(job.r[CX])) % Word
  <2> DEFINE t == Triangle(job.r[CX])
             b == job.r[AX]
  <2>1. t \in Nat /\ Triangle(0) = 0 /\ b \in Int
    <3>1. job.r[CX] \in 0..9 /\ b \in Words
      BY <1>2, RecurseFacts
    <3> QED
      BY <3>1, TriangleIs, Numbers8
  <2>2. a = (b + t - Triangle(0)) % Word
    BY DEF Added
  <2> HIDE DEF a, b, t
  <2>3. b + t - Triangle(0) = b + t
    BY <2>1
  <2> QED
    BY <2>2, <2>3 DEF b, t
<1>6. r \in [0..7 -> Words] /\ r[SP] = job.r[SP]
  <2>1. job.r \in [0..7 -> Words] /\ a \in Words
    <3>1. 0 \in 0 .. job.r[CX]
      BY <1>2, RecurseFacts
    <3> QED
      BY <1>2, <3>1, RecurseFacts
  <2> HIDE DEF a
  <2> QED
    BY <2>1 DEF AX, SP
<1> HIDE DEF a, r
<1>7. Result = r
  BY <1>1, <1>3, <1>4, <1>6, ResultIs
<1> QED
  BY <1>5, <1>7 DEF r, Triangle, count, in

LEMMA FrameIsBack ==
  ASSUME Typed, Passes(job), OnTheWay(Way(job)), Done("frame")
  PROVE  Result = [job.r EXCEPT ![AX] = (in(BX) - @) % Word]
<1>1. job.task = "frame" /\ EvenStack(job) /\ m.exited
  BY DEF Done, Passes
<1>2. Way(job) = FrameWay(job) /\ FrameCode(job)
  BY <1>1, CallPrograms DEF Way
<1>3. PICK p \in FrameWay(job) : Left(p)
  BY <1>1, <1>2, AtExit
<1> DEFINE a == (job.r[BX] - job.r[AX]) % Word
           r == [job.r EXCEPT ![AX] = a]
<1>4. p.r = r
  BY <1>1, <1>2, <1>3, FrameEnd DEF Left
<1>5. job.r \in [0..7 -> Words] /\ a \in Words
  <2>1. job.r \in [0..7 -> Words]
    BY <1>1, FrameSlots
  <2>2. job.r[BX] - job.r[AX] \in Int
    BY <2>1, Numbers8, Names
  <2> QED
    BY <2>1, <2>2, ByteFacts
<1>6. r \in [0..7 -> Words] /\ r[SP] = job.r[SP]
  <2> HIDE DEF a
  <2> QED
    BY <1>5 DEF AX, SP
<1> HIDE DEF a, r
<1>7. Result = r
  BY <1>1, <1>3, <1>4, <1>6, ResultIs
<1> QED
  BY <1>7 DEF r, a, in

\* What a program puts on the stack it finds there again, with an interrupt behind any
\* instruction and over the end of the stack segment: a recursion its arguments and its
\* return addresses (cpu.c: CALL, RET, PUSH, POP, JCXZ), a called function its
\* parameters by BP, which RET n removes.  The registers are saved and restored, and far
\* and indirect calls made, by programs that have no way.
THEOREM CallsComeBack ==
  Spec => [](/\ EvenStack(job) /\ Operands(job)
             /\ job.task \notin {"save", "save32", "far", "indirect", "wait"}
             => CallsReturn)
<1>1. Underway => (/\ EvenStack(job) /\ Operands(job)
                   /\ job.task \notin {"save", "save32", "far", "indirect", "wait"}
                   => CallsReturn)
  <2> SUFFICES ASSUME Underway, EvenStack(job), Operands(job),
                      job.task \notin {"save", "save32", "far", "indirect", "wait"}
               PROVE  CallsReturn
    OBVIOUS
  <2>1. ASSUME Passes(job)
        PROVE  Typed /\ Passes(job) /\ OnTheWay(Way(job))
    BY <2>1 DEF Underway
  <2>2. ASSUME Done("recurse") \/ Done("frame")
        PROVE  Passes(job)
    BY <2>2 DEF Passes, Done
  <2>3. Done("recurse") => Result = [job.r EXCEPT ![AX] = (@ + ((count * (count + 1)) \div 2)) % Word]
    BY <2>1, <2>2, RecursionIsBack
  <2>4. Done("frame") => Result = [job.r EXCEPT ![AX] = (in(BX) - @) % Word]
    BY <2>1, <2>2, FrameIsBack
  <2>5. ~Done("save") /\ ~Done("save32") /\ ~Done("far") /\ ~Done("indirect") /\ ~Done("wait")
    BY DEF Done
  <2> QED
    BY <2>3, <2>4, <2>5 DEF CallsReturn
<1> QED
  BY <1>1, JobsStayOnTheirWay, PTL

=============================================================================
