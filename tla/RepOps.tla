------------------------------- MODULE RepOps -------------------------------
(***************************************************************************)
(* The string instructions and their repetition (cpu/repops.c).  They read *)
(* at useseg:SI, write at ES:DI, and move both by the size of the element, *)
(* down when df is set.                                                    *)
(***************************************************************************)
EXTENDS Machine

Stride(m, w) == (IF w = Byte THEN 1 ELSE 2) * (IF m.f.df = 1 THEN -1 ELSE 1)
MoveSI(m, w) == Add(m, SI, Stride(m, w))
MoveDI(m, w) == Add(m, DI, Stride(m, w))
Source(m, w) == ReadLong(m, m.seg, m.r[SI], w)
Dest(m, w) == ReadLong(m, m.s[ES], m.r[DI], w)

movs(m, w) == MoveDI(MoveSI(WriteLong(m, m.s[ES], m.r[DI], Source(m, w), w), w), w)

cmps(m, w) ==
  [MoveDI(MoveSI(m, w), w) EXCEPT !.f = flag_sub(m.f, Source(m, w), Dest(m, w), w)]

stos(m, w) == MoveDI(WriteLong(m, m.s[ES], m.r[DI], R(m, AX, w), w), w)

lods(m, w) == MoveSI(SetR(m, AX, w, Source(m, w)), w)

scas(m, w) == [MoveDI(m, w) EXCEPT !.f = flag_sub(m.f, R(m, AX, w), Dest(m, w), w)]

-----------------------------------------------------------------------------
\* Ports.  What a device does with a byte is in the module of the device; here
\* ports records the bytes written, and an input port answers its last one.
\* A port no device has ends the program, and so does every word input.
InPorts == {64, 96, 97, 98, 138, 954, 967, 986}
OutPorts == {8, 11, 32, 33, 64, 66, 67, 96, 97, 98, 948, 949, 952, 957, 959, 960, 964, 965,
             968, 969, 974, 975, 976, 980, 981, 984, 985, 1010}
OutPorts16 == {964, 974, 975, 980}

portin(m, p) == IF p # 138 /\ p \in DOMAIN m.ports THEN m.ports[p] ELSE 0

portout(m, p, v) ==
  IF p \in OutPorts THEN [m EXCEPT !.ports = Put(@, p, v)] ELSE exit_or_restart(m)

portout16(m, p, v) ==
  IF p \in OutPorts16 THEN [m EXCEPT !.ports = Put(@, p, v)] ELSE exit_or_restart(m)

\* INS writes at useseg:SI, where OUTS reads, and both move SI and DI.
ins(m, w) ==
  IF w = Word \/ m.r[DX] \notin InPorts
  THEN exit_or_restart(m)
  ELSE MoveDI(MoveSI(Write8(m, m.seg * 16 + m.r[SI], portin(m, m.r[DX])), w), w)

outs(m, w) ==
  MoveDI(MoveSI(IF w = Byte THEN portout(m, m.r[DX], Source(m, w))
                            ELSE portout16(m, m.r[DX], Source(m, w)), w), w)

-----------------------------------------------------------------------------
Moving == {108, 109, 110, 111, 164, 165, 170, 171, 172, 173}
Comparing == {166, 167, 174, 175}

StringOp(m, op) ==
  LET w == IF op % 2 = 0 THEN Byte ELSE Word
  IN  CASE op \in {108, 109} -> ins(m, w)
        [] op \in {110, 111} -> outs(m, w)
        [] op \in {164, 165} -> movs(m, w)
        [] op \in {166, 167} -> cmps(m, w)
        [] op \in {170, 171} -> stos(m, w)
        [] op \in {172, 173} -> lods(m, w)
        [] op \in {174, 175} -> scas(m, w)

\* One element of a repeated instruction, then back to the prefix: the rest is
\* done by later turns of the loop, between which interrupts are taken.  A
\* comparison that ends the repetition does not go back.  A segment prefix that
\* names another segment than DS ends the program.
Bug_op_rep(m, reptype) ==
  LET op == Code8(m)
      next == AdvanceIP(m, 1)
      once == Add(StringOp(next, op), CX, -1)
  IN  CASE m.seg # m.s[DS] -> exit_or_restart(m)
        [] m.seg = m.s[DS] /\ m.r[CX] = 0 -> next
        [] OTHER ->
             CASE op \in Moving -> AdvanceIP(once, -2)
               [] op \in Comparing -> IF once.f.zf = reptype THEN once ELSE AdvanceIP(once, -2)
               [] OTHER -> exit_or_restart(m)

op_rep(m, reptype) ==
  LET op == Code8(m)
      next == AdvanceIP(m, 1)
      once == Add(StringOp(next, op), CX, -1)
  IN  CASE m.seg # m.s[DS] -> exit_or_restart(m)
        [] m.seg = m.s[DS] /\ m.r[CX] = 0 -> next
        [] OTHER ->
             CASE op \in Moving -> AdvanceIP(once, -2)
               [] op \in Comparing -> IF once.f.zf # reptype THEN once ELSE AdvanceIP(once, -2)
               [] OTHER -> exit_or_restart(m)

=============================================================================
