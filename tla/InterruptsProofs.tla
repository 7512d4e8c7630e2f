-------------------------- MODULE InterruptsProofs --------------------------
(***************************************************************************)
(* Proofs about Interrupts, for every set of request lines, every vector   *)
(* table, every timer constant and every nesting bound.                    *)
(***************************************************************************)
EXTENDS Interrupts, WellFoundedInduction, TLAPS

-----------------------------------------------------------------------------
\* The scan of PIC_nextinterrupt finds the lowest pending line.
LEMMA NextIrqIsPending ==
  ASSUME PicTypeOK, Pending # {}
  PROVE  NextIrq \in Pending /\ \A j \in Pending : NextIrq <= j
<1>1. Pending \subseteq Nat
  BY IrqsAssumption DEF PicTypeOK, Pending
<1>2. PICK i \in Pending : \A j \in Pending : ~(<<j, i>> \in OpToRel(<, Nat))
  BY <1>1, NatLessThanWellFounded, WFMin
<1>3. \A j \in Pending : ~(j < i)
  BY <1>1, <1>2 DEF OpToRel
<1>4. \A j \in Pending : i <= j
  BY <1>1, <1>3
<1> QED
  BY <1>4 DEF NextIrq

\* Arithmetic of a word built from two bytes.
LEMMA QuotientInNat ==
  ASSUME NEW n \in Nat, NEW b \in Nat \ {0}
  PROVE  n \div b \in Nat /\ n % b \in 0..(b - 1)
  OBVIOUS

LEMMA DivisionAlgorithm ==
  ASSUME NEW n \in Nat, NEW b \in Nat \ {0}
  PROVE  n = b * (n \div b) + (n % b)
  OBVIOUS

LEMMA MultMono ==
  ASSUME NEW b \in Nat, NEW x \in Nat, NEW y \in Nat, x <= y
  PROVE  b * x <= b * y
  <1>1. PICK d \in Nat : y = x + d
    <2>1. y - x \in Nat
      OBVIOUS
    <2> QED
      BY <2>1
  <1>2. b * y = b * x + b * d
    BY <1>1
  <1>3. b * d \in Nat /\ b * x \in Nat
    OBVIOUS
  <1> QED
    BY <1>2, <1>3

\* The high byte of a word is recovered by the division of PIT_out and PIT_in.
LEMMA HighByte ==
  ASSUME NEW b \in Nat \ {0}, NEW hi \in Nat, NEW lo \in 0..(b - 1)
  PROVE  (hi * b + lo) \div b = hi
  <1> DEFINE n == hi * b + lo
             q == n \div b
             r == n % b
  <1>1. n \in Nat /\ q \in Nat /\ r \in 0..(b - 1) /\ n = b * q + r
    <2>1. n \in Nat
      OBVIOUS
    <2> HIDE DEF n
    <2> QED
      BY <2>1, DivisionAlgorithm
  <1>2. hi * b = b * hi /\ n = b * hi + lo
    OBVIOUS
  <1> HIDE DEF n, q, r
  <1>3. ASSUME q + 1 <= hi PROVE FALSE
    <2>1. b * (q + 1) <= b * hi
      BY <1>1, <1>3, MultMono
    <2>2. b * (q + 1) = b * q + b
      BY <1>1
    <2>3. b * hi \in Nat /\ b * q \in Nat
      BY <1>1
    <2> QED
      BY <1>1, <1>2, <2>1, <2>2, <2>3
  <1>4. ASSUME hi + 1 <= q PROVE FALSE
    <2>1. b * (hi + 1) <= b * q
      BY <1>1, <1>4, MultMono
    <2>2. b * (hi + 1) = b * hi + b
      OBVIOUS
    <2>3. b * hi \in Nat /\ b * q \in Nat
      BY <1>1
    <2> QED
      BY <1>1, <1>2, <2>1, <2>2, <2>3
  <1>5. q = hi
    BY <1>1, <1>3, <1>4
  <1> QED
    BY <1>5 DEF q, n

LEMMA SmallWord ==
  ASSUME NEW b \in Nat \ {0}, NEW hi \in 0..(b - 1), NEW lo \in 0..(b - 1)
  PROVE  hi * b + lo < b * b /\ hi % b = hi
  <1>1. hi + 1 <= b
    OBVIOUS
  <1>2. b * (hi + 1) <= b * b
    BY <1>1, MultMono
  <1>3. b * (hi + 1) = hi * b + b
    OBVIOUS
  <1>4. hi % b = hi
    OBVIOUS
  <1>5. hi * b \in Nat /\ b * b \in Nat
    OBVIOUS
  <1> QED
    BY <1>2, <1>3, <1>4, <1>5

LEMMA LongerStill ==
  ASSUME NEW x \in Nat, NEW y \in Nat, NEW z \in Nat, x <= y
  PROVE  x <= y + z /\ y + z \in Nat
  OBVIOUS

LEMMA FramesTail ==
  ASSUME NEW s \in Seq(Frames), s # <<>>
  PROVE  /\ Head(s) \in Frames
         /\ Tail(s) \in Seq(Frames)
         /\ Len(Tail(s)) = Len(s) - 1
         /\ \A k \in 1..Len(Tail(s)) : Tail(s)[k] = s[k + 1]
         /\ Head(s) = s[1]
  OBVIOUS

LEMMA FramesPush ==
  ASSUME NEW s \in Seq(Frames), NEW f \in Frames
  PROVE  /\ <<f>> \o s \in Seq(Frames)
         /\ Len(<<f>> \o s) = Len(s) + 1
         /\ (<<f>> \o s)[1] = f
         /\ \A k \in 2..(Len(s) + 1) : (<<f>> \o s)[k] = s[k - 1]
  OBVIOUS

-----------------------------------------------------------------------------
\* The instructions that touch neither the PIC registers nor the history.
LEMMA RunSteps ==
  ASSUME Run
  PROVE  Instruction
  BY DEF Run, GuestWork, GuestHlt, GuestPitIn, GuestIret, GuestFault, GuestSetIF, GuestInt,
         GuestPitOut, InGuest, Int8Callback, Int8User, Int8Cli, RomCallback, RomIret, DosExit

\* The cached polling word is recomputed wherever irr changes.
LEMMA PollStep ==
  ASSUME PollIsExact, [Next]_vars
  PROVE  PollIsExact'
  <1> USE DEF PollIsExact, Pending
  <1>1. CASE Timer
    BY <1>1 DEF Timer, PIT_count, PIT_countFrozen, PIT_countDown, PIT_countExpire, PIC_trigger,
                picVars
  <1>2. CASE GateDeliver
    BY <1>2 DEF GateDeliver, PIC_nextinterrupt
  <1>3. CASE GateSleep \/ GatePass
    BY <1>3 DEF GateSleep, GatePass, picVars
  <1>4. CASE Run
    BY <1>4, RunSteps DEF Instruction, picVars
  <1>5. CASE HostKey
    BY <1>5 DEF HostKey, PIC_trigger
  <1>6. CASE UNCHANGED vars
    BY <1>6 DEF vars, picVars
  <1> QED
    BY <1>1, <1>2, <1>3, <1>4, <1>5, <1>6 DEF Next, exec86, Gone

\* The poll of exec86 is exact in every reachable state.
THEOREM PollAlwaysExact == Spec => []PollIsExact
  <1>1. Init => PollIsExact
    BY DEF Init, PIC_Init, PollIsExact, Pending
  <1> QED
    BY <1>1, PollStep, PTL DEF Spec

-----------------------------------------------------------------------------
LEMMA PushTyped ==
  ASSUME TypeOK, NEW v \in DOMAIN Vectors, NEW ret \in Locations, NEW hw \in BOOLEAN,
         intcall86(v, ret, hw)
  PROVE  frames' \in Seq(Frames) /\ loc' \in Locations /\ ifl' = 0
  <1>1. [ret |-> ret, ifl |-> ifl, hw |-> hw] \in Frames
    BY DEF Frames, TypeOK
  <1>2. Vectors[v] \in Locations
    BY InterruptsAssumption DEF Locations, IntStub, RomStub, GuestCode
  <1> QED
    BY <1>1, <1>2, FramesPush DEF intcall86, TypeOK

LEMMA PopTyped ==
  ASSUME TypeOK, iret
  PROVE  frames' \in Seq(Frames) /\ loc' \in Locations /\ ifl' \in {0, 1}
  BY FramesTail DEF iret, Frames, TypeOK

LEMMA TriggerTyped ==
  ASSUME PicTypeOK, NEW irqnum \in Irqs, PIC_trigger(irqnum)
  PROVE  PicTypeOK'
  BY DEF PIC_trigger, PicTypeOK

LEMMA ExitTyped ==
  ASSUME TypeOK, NEW status \in {0, 1}, exit_or_restart(status)
  PROVE  hltstate' \in {0, 1} /\ ifl' \in {0, 1} /\ exited' \in {"no", "frozen", "gone"}
  BY DEF exit_or_restart, TypeOK

LEMMA TimerTyped ==
  ASSUME TypeOK, Timer
  PROVE  TypeOK'
  <1> USE IrqsAssumption, PitAssumption, InterruptsAssumption
      DEF TypeOK, PitTypeOK
  <1>1. Step \in Int
    BY DEF Step
  <1>2. PicTypeOK' /\ PitTypeOK'
    <2>1. CASE PIT_countExpire
      <3>1. PicTypeOK'
        BY <2>1, TriggerTyped DEF PIT_countExpire
      <3> QED
        BY <2>1, <3>1, <1>1 DEF PIT_countExpire
    <2>2. CASE PIT_countDown
      <3>1. PicTypeOK'
        BY <2>2 DEF PIT_countDown, picVars, PicTypeOK
      <3>2. PitTypeOK'
        BY <2>2, <1>1 DEF PIT_countDown
      <3> QED
        BY <3>1, <3>2
    <2>3. CASE UNCHANGED <<picVars, pitVars>>
      <3>1. PicTypeOK'
        BY <2>3 DEF picVars, PicTypeOK
      <3>2. PitTypeOK'
        BY <2>3 DEF pitVars
      <3> QED
        BY <3>1, <3>2
    <2> QED
      BY <2>1, <2>2, <2>3 DEF Timer, PIT_count, PIT_countFrozen, picVars, pitVars
  <1>3. (count + 1) % CountPeriod \in 0..(CountPeriod - 1)
    <2>1. count + 1 \in Nat /\ CountPeriod \in Nat \ {0}
      OBVIOUS
    <2> QED
      BY <2>1, QuotientInNat
  <1> QED
    BY <1>2, <1>3 DEF Timer

LEMMA GateTyped ==
  ASSUME TypeOK, PollIsExact, GateDeliver
  PROVE  TypeOK'
  <1> USE IrqsAssumption, InterruptsAssumption DEF TypeOK
  <1>1. NextIrq \in Pending
    BY NextIrqIsPending DEF GateDeliver, GateOpen, PollIsExact
  <1>2. NextIrq \in Irqs
    BY <1>1 DEF Pending, PicTypeOK
  <1>3. PicTypeOK' /\ PitTypeOK'
    BY <1>2 DEF GateDeliver, PIC_nextinterrupt, PicTypeOK, PitTypeOK, pitVars
  <1>4. frames' \in Seq(Frames) /\ loc' \in Locations /\ ifl' = 0
    <2>1. 8 + NextIrq \in DOMAIN Vectors
      BY <1>2
    <2> QED
      BY <2>1, PushTyped DEF GateDeliver
  <1>5. timerIrqs' \in 0..(TickWrap - 1)
    <2>1. timerIrqs + 1 \in Nat /\ TickWrap \in Nat \ {0}
      OBVIOUS
    <2>2. (timerIrqs + 1) % TickWrap \in 0..(TickWrap - 1)
      BY <2>1, QuotientInNat
    <2> QED
      BY <2>2 DEF GateDeliver
  <1> QED
    BY <1>3, <1>4, <1>5 DEF GateDeliver

LEMMA PitIoTyped ==
  ASSUME PitTypeOK, PIT_in \/ \E b \in TimerBytes : PIT_out(b)
  PROVE  PitTypeOK'
  <1> USE PitAssumption, InterruptsAssumption DEF PitTypeOK
  <1>1. CASE PIT_in
    BY <1>1 DEF PIT_in
  <1>2. ASSUME NEW b \in TimerBytes, PIT_outLow(b)
        PROVE  PitTypeOK'
    <2> DEFINE high == timerdata0 \div ByteBase
    <2>0. high \in Nat /\ ByteBase \in Nat \ {0}
      BY QuotientInNat
    <2>1. high % ByteBase \in Nat
      <3> HIDE DEF high
      <3> QED
        BY <2>0, QuotientInNat
    <2>2. ((timerdata0 \div ByteBase) % ByteBase) * ByteBase \in Nat
      BY <2>1
    <2>3. b \in Nat
      BY DEF Bytes
    <2> QED
      BY <1>2, <2>2, <2>3 DEF PIT_outLow
  <1>3. ASSUME NEW b \in TimerBytes, PIT_outHigh(b)
        PROVE  PitTypeOK'
    <2>1. timerdata0 % ByteBase \in Nat
      BY QuotientInNat
    <2>2. b * ByteBase \in Nat
      BY DEF Bytes
    <2> QED
      BY <1>3, <2>1, <2>2 DEF PIT_outHigh
  <1> QED
    BY <1>1, <1>2, <1>3 DEF PIT_out

LEMMA RunTyped ==
  ASSUME TypeOK, Run
  PROVE  TypeOK'
  <1> USE InterruptsAssumption
  <1>1. Instruction
    BY RunSteps
  <1>2. PicTypeOK' /\ phase' = "timer" /\ count' = count /\ timerIrqs' = timerIrqs
    BY <1>1 DEF Instruction, TypeOK, PicTypeOK, picVars
  <1>3. CASE GuestWork \/ GuestHlt \/ \E b \in {0, 1} : GuestSetIF(b)
    BY <1>2, <1>3 DEF GuestWork, GuestHlt, GuestSetIF, InGuest, TypeOK, PitTypeOK, pitVars
  <1>4. CASE GuestPitIn \/ \E b \in TimerBytes : GuestPitOut(b)
    <2>1. PitTypeOK'
      BY <1>4, PitIoTyped DEF GuestPitIn, GuestPitOut, TypeOK
    <2> QED
      BY <1>2, <1>4, <2>1 DEF GuestPitIn, GuestPitOut, InGuest, TypeOK
  <1>5. CASE GuestIret \/ RomIret
    <2>1. iret
      BY <1>5 DEF GuestIret, RomIret
    <2> QED
      BY <1>2, <1>5, <2>1, PopTyped DEF GuestIret, RomIret, InGuest, TypeOK, PitTypeOK, pitVars
  <1>6. CASE Int8User \/ \E v \in GuestVectors : GuestInt(v)
    <2>1. frames' \in Seq(Frames) /\ loc' \in Locations /\ ifl' = 0
      <3>1. loc \in Locations /\ "int8_cli" \in Locations
        BY DEF TypeOK, Locations, IntStub
      <3>2. GuestVectors \subseteq DOMAIN Vectors /\ 28 \in DOMAIN Vectors
        OBVIOUS
      <3> QED
        BY <1>6, <3>1, <3>2, PushTyped DEF Int8User, GuestInt
    <2> QED
      BY <1>2, <1>6, <2>1 DEF Int8User, GuestInt, InGuest, TypeOK, PitTypeOK, pitVars
  <1>7. CASE GuestFault \/ \E status \in {0, 1} : DosExit(status)
    <2>1. hltstate' \in {0, 1} /\ ifl' \in {0, 1} /\ exited' \in {"no", "frozen", "gone"}
      BY <1>7, ExitTyped DEF GuestFault, DosExit
    <2> QED
      BY <1>2, <1>7, <2>1
      DEF GuestFault, DosExit, InGuest, TypeOK, PitTypeOK, pitVars, Locations, RomStub
  <1>8. CASE Int8Callback
    <2>1. ticks + 1 \in Nat /\ TickWrap \in Nat \ {0}
      BY DEF TypeOK
    <2>2. (ticks + 1) % TickWrap \in 0..(TickWrap - 1)
      BY <2>1, QuotientInNat
    <2> QED
      BY <1>2, <1>8, <2>2 DEF Int8Callback, TypeOK, PitTypeOK, pitVars, Locations, IntStub
  <1>9. CASE Int8Cli \/ RomCallback
    BY <1>2, <1>9
    DEF Int8Cli, RomCallback, TypeOK, PitTypeOK, pitVars, Locations, IntStub, RomStub
  <1> QED
    BY <1>3, <1>4, <1>5, <1>6, <1>7, <1>8, <1>9 DEF Run

LEMMA TypeOKStep ==
  ASSUME TypeOK, PollIsExact, [Next]_vars
  PROVE  TypeOK'
  <1>1. CASE Timer
    BY <1>1, TimerTyped
  <1>2. CASE GateDeliver
    BY <1>2, GateTyped
  <1>3. CASE GateSleep \/ GatePass
    BY <1>3 DEF GateSleep, GatePass, TypeOK, PicTypeOK, PitTypeOK, picVars, pitVars
  <1>4. CASE Run
    BY <1>4, RunTyped
  <1>5. CASE HostKey
    <2>1. PicTypeOK'
      BY <1>5, TriggerTyped, InterruptsAssumption DEF HostKey, TypeOK
    <2> QED
      BY <1>5, <2>1 DEF HostKey, TypeOK, PitTypeOK, pitVars, cpuVars
  <1>6. CASE UNCHANGED vars
    BY <1>6 DEF vars, picVars, pitVars, cpuVars, TypeOK, PicTypeOK, PitTypeOK
  <1> QED
    BY <1>1, <1>2, <1>3, <1>4, <1>5, <1>6 DEF Next, exec86, Gone

\* Every variable of the interrupt machine keeps its C type and the guest's
\* stack of interrupt frames stays a stack of frames.
THEOREM TypeCorrect == Spec => []TypeOK
  <1>1. Init => TypeOK
    BY PitAssumption, InterruptsAssumption
    DEF Init, PIC_Init, PIT_Init, TypeOK, PicTypeOK, PitTypeOK, Locations, GuestCode
  <1> QED
    BY <1>1, TypeOKStep, PollAlwaysExact, PTL DEF Spec
-----------------------------------------------------------------------------
\* A ROM stub has interrupts off, in each of its activations: the one that runs and
\* those that wait on the stack for INT 1Ch.
StubsMasked ==
  /\ loc \in IntStub \cup RomStub => ifl = 0
  /\ \A k \in 1..Len(frames) :
       frames[k].ret \in IntStub \cup RomStub => frames[k].ifl = 0

StackInv == StubsMasked /\ StubsUninterrupted

LEMMA StackPush ==
  ASSUME TypeOK, StackInv, NEW v \in DOMAIN Vectors, NEW ret \in Locations, NEW hw \in BOOLEAN,
         intcall86(v, ret, hw),
         hw => ret \in GuestCode,
         ret \in IntStub \cup RomStub => ifl = 0
  PROVE  StackInv'
  <1> DEFINE f == [ret |-> ret, ifl |-> ifl, hw |-> hw]
  <1>1. f \in Frames /\ f.ret = ret /\ f.ifl = ifl /\ f.hw = hw
    BY DEF Frames, TypeOK
  <1>2. frames' = <<f>> \o frames /\ ifl' = 0
    BY DEF intcall86
  <1>3. frames \in Seq(Frames)
    BY DEF TypeOK
  <1> HIDE DEF f
  <1>4. /\ Len(frames') = Len(frames) + 1
        /\ frames'[1] = f
        /\ \A k \in 2..(Len(frames) + 1) : frames'[k] = frames[k - 1]
    BY <1>1, <1>2, <1>3, FramesPush
  <1>5. Len(frames) \in Nat
    BY <1>3
  <1>6. ASSUME NEW k \in 1..Len(frames')
        PROVE  /\ frames'[k].hw => frames'[k].ret \in GuestCode
               /\ frames'[k].ret \in IntStub \cup RomStub => frames'[k].ifl = 0
    <2>1. CASE k = 1
      BY <1>1, <1>4, <2>1
    <2>2. CASE k # 1
      <3>1. k \in 2..(Len(frames) + 1) /\ k - 1 \in 1..Len(frames)
        BY <1>4, <1>5, <2>2
      <3> QED
        BY <1>4, <3>1 DEF StackInv, StubsUninterrupted, StubsMasked
    <2> QED
      BY <2>1, <2>2
  <1> QED
    BY <1>2, <1>6 DEF StackInv, StubsUninterrupted, StubsMasked

LEMMA StackPop ==
  ASSUME TypeOK, StackInv, iret
  PROVE  StackInv'
  <1>1. /\ Len(Tail(frames)) = Len(frames) - 1
        /\ \A k \in 1..Len(Tail(frames)) : Tail(frames)[k] = frames[k + 1]
        /\ Head(frames) = frames[1]
        /\ Len(frames) \in Nat \ {0}
    BY FramesTail DEF iret, TypeOK
  <1>2. frames' = Tail(frames) /\ loc' = frames[1].ret /\ ifl' = frames[1].ifl
    BY <1>1 DEF iret
  <1>3. StubsUninterrupted'
    BY <1>1, <1>2 DEF StackInv, StubsUninterrupted
  <1>4. StubsMasked'
    BY <1>1, <1>2 DEF StackInv, StubsMasked
  <1> QED
    BY <1>3, <1>4 DEF StackInv

LEMMA StackSame ==
  ASSUME StackInv, UNCHANGED frames, loc' \in IntStub \cup RomStub => ifl' = 0
  PROVE  StackInv'
  BY DEF StackInv, StubsUninterrupted, StubsMasked

LEMMA StackStep ==
  ASSUME TypeOK, PollIsExact, StackInv, [Next]_vars
  PROVE  StackInv'
  <1> USE InterruptsAssumption
  <1>1. loc \in IntStub \cup RomStub => ifl = 0
    BY DEF StackInv, StubsMasked
  <1>2. CASE Timer \/ GateSleep \/ GatePass \/ HostKey \/ UNCHANGED vars
    BY <1>1, <1>2, StackSame DEF Timer, GateSleep, GatePass, HostKey, vars, cpuVars
  <1>3. CASE GateDeliver
    <2>1. NextIrq \in Irqs
      BY <1>3, NextIrqIsPending DEF GateDeliver, GateOpen, PollIsExact, Pending, TypeOK, PicTypeOK
    <2>2. 8 + NextIrq \in DOMAIN Vectors /\ loc \in Locations
      BY <2>1 DEF TypeOK
    <2>3. ifl = 1 /\ intcall86(8 + NextIrq, loc, TRUE)
      BY <1>3 DEF GateDeliver, GateOpen
    <2>4. loc \in GuestCode
      BY <1>1, <2>2, <2>3 DEF Locations
    <2> QED
      BY <1>1, <2>2, <2>3, <2>4, StackPush
  <1>4. CASE Int8User
    <2>1. intcall86(28, "int8_cli", FALSE) /\ ifl = 0
      BY <1>1, <1>4 DEF Int8User, IntStub
    <2>2. 28 \in DOMAIN Vectors /\ "int8_cli" \in Locations
      BY DEF Locations, IntStub
    <2> QED
      BY <2>1, <2>2, StackPush
  <1>5. ASSUME NEW v \in GuestVectors, GuestInt(v)
        PROVE  StackInv'
    <2>1. intcall86(v, loc, FALSE) /\ v \in DOMAIN Vectors /\ loc \in Locations
      BY <1>5 DEF GuestInt, TypeOK
    <2> QED
      BY <1>1, <2>1, StackPush
  <1>6. CASE GuestIret \/ RomIret
    BY <1>6, StackPop DEF GuestIret, RomIret
  <1>7. CASE GuestFault \/ \E status \in {0, 1} : DosExit(status)
    <2>1. ifl' \in {0, ifl}
      BY <1>7 DEF GuestFault, DosExit, exit_or_restart
    <2>2. UNCHANGED frames /\ (loc \in RomStub \/ loc' = loc)
      BY <1>7 DEF GuestFault, DosExit, RomStub
    <2> QED
      BY <1>1, <2>1, <2>2, StackSame
  <1>8. CASE Int8Callback \/ Int8Cli \/ RomCallback
    BY <1>1, <1>8, StackSame DEF Int8Callback, Int8Cli, RomCallback, IntStub, RomStub
  <1>9. CASE \/ GuestWork \/ GuestHlt \/ GuestPitIn
             \/ \E b \in {0, 1} : GuestSetIF(b)
             \/ \E b \in TimerBytes : GuestPitOut(b)
    BY <1>9, StackSame
    DEF GuestWork, GuestHlt, GuestPitIn, GuestSetIF, GuestPitOut, InGuest, GuestCode, IntStub,
        RomStub
  <1> QED
    BY <1>2, <1>3, <1>4, <1>5, <1>6, <1>7, <1>8, <1>9 DEF Next, exec86, Run, Gone

LEMMA StackInvariant == Spec => []StackInv
  <1>1. Init => StackInv
    BY DEF Init, StackInv, StubsUninterrupted, StubsMasked, IntStub, RomStub
  <1> QED
    BY <1>1, StackStep, TypeCorrect, PollAlwaysExact, PTL DEF Spec

\* Only guest code is interrupted by hardware, however deep INT 1Ch's handlers nest
\* activations of the timer stub.
THEOREM StubsNeverInterrupted == Spec => []StubsUninterrupted
  BY StackInvariant, PTL DEF StackInv
-----------------------------------------------------------------------------
\* The tick callback is reached only as the first instruction of a handler.
TickInv ==
  /\ loc = "int8_callback" => phase = "run"
  /\ \A k \in 1..Len(frames) : frames[k].ret # "int8_callback"
  /\ TicksCountTimerIrqs

LEMMA TickPush ==
  ASSUME TypeOK, NEW v \in DOMAIN Vectors, NEW ret \in Locations, NEW hw \in BOOLEAN,
         intcall86(v, ret, hw), ret # "int8_callback",
         \A k \in 1..Len(frames) : frames[k].ret # "int8_callback"
  PROVE  \A k \in 1..Len(frames') : frames'[k].ret # "int8_callback"
  <1> DEFINE f == [ret |-> ret, ifl |-> ifl, hw |-> hw]
  <1>1. f \in Frames /\ f.ret = ret /\ frames' = <<f>> \o frames /\ frames \in Seq(Frames)
    BY DEF Frames, TypeOK, intcall86
  <1> HIDE DEF f
  <1>2. /\ Len(frames') = Len(frames) + 1
        /\ frames'[1] = f
        /\ \A k \in 2..(Len(frames) + 1) : frames'[k] = frames[k - 1]
        /\ Len(frames) \in Nat
    BY <1>1, FramesPush
  <1> QED
    BY <1>1, <1>2

LEMMA TickStep ==
  ASSUME TypeOK, PollIsExact, TickInv, [Next]_vars
  PROVE  TickInv'
  <1> USE InterruptsAssumption
  <1>1. CASE Timer \/ GateSleep \/ GatePass \/ HostKey \/ UNCHANGED vars
    BY <1>1 DEF Timer, GateSleep, GatePass, HostKey, vars, cpuVars, TickInv, TicksCountTimerIrqs
  <1>2. CASE GateDeliver
    <2>1. NextIrq \in Irqs /\ NextIrq \in Nat
      <3>1. NextIrq \in Irqs
        BY <1>2, NextIrqIsPending
        DEF GateDeliver, GateOpen, PollIsExact, Pending, TypeOK, PicTypeOK
      <3> QED
        BY <3>1, IrqsAssumption
    <2>2. 8 + NextIrq \in DOMAIN Vectors /\ loc \in Locations /\ loc # "int8_callback"
      BY <1>2, <2>1 DEF TypeOK, TickInv, GateDeliver
    <2>3. \A k \in 1..Len(frames') : frames'[k].ret # "int8_callback"
      BY <1>2, <2>2, TickPush DEF GateDeliver, TickInv
    <2>4. loc' = Vectors[8 + NextIrq] /\ (loc' = "int8_callback" => NextIrq = 0)
      BY <1>2, <2>1, <2>2 DEF GateDeliver, intcall86
    <2>5. NextIrq = 0 => loc' = Vectors[8]
      BY <2>4
    <2> QED
      BY <1>2, <2>2, <2>3, <2>4, <2>5 DEF GateDeliver, TickInv, TicksCountTimerIrqs
  <1>3. CASE Run
    <2>1. timerIrqs' = timerIrqs
      BY <1>3, RunSteps DEF Instruction
    <2>2. CASE Int8Callback
      BY <2>1, <2>2 DEF Int8Callback, TickInv, TicksCountTimerIrqs
    <2>3. CASE Int8User
      <3>1. 28 \in DOMAIN Vectors /\ "int8_cli" \in Locations
        BY DEF Locations, IntStub
      <3>2. \A k \in 1..Len(frames') : frames'[k].ret # "int8_callback"
        BY <2>3, <3>1, TickPush DEF Int8User, TickInv
      <3>3. loc' # "int8_callback"
        BY <2>3, <3>1 DEF Int8User, intcall86
      <3> QED
        BY <2>1, <2>3, <3>2, <3>3 DEF Int8User, TickInv, TicksCountTimerIrqs
    <2>4. ASSUME NEW v \in GuestVectors, GuestInt(v)
          PROVE  TickInv'
      <3>1. v \in DOMAIN Vectors /\ v # 8 /\ loc \in Locations /\ loc # "int8_callback"
        BY <2>4 DEF GuestInt, InGuest, GuestCode, TypeOK
      <3>2. \A k \in 1..Len(frames') : frames'[k].ret # "int8_callback"
        BY <2>4, <3>1, TickPush DEF GuestInt, TickInv
      <3>3. loc' # "int8_callback"
        BY <2>4, <3>1 DEF GuestInt, intcall86
      <3> QED
        BY <2>1, <2>4, <3>1, <3>2, <3>3 DEF GuestInt, InGuest, TickInv, TicksCountTimerIrqs
    <2>5. CASE GuestIret \/ RomIret
      <3>1. iret /\ ticks' = ticks /\ loc # "int8_callback"
        BY <2>5 DEF GuestIret, RomIret, InGuest, GuestCode
      <3>2. /\ Len(Tail(frames)) = Len(frames) - 1
            /\ \A k \in 1..Len(Tail(frames)) : Tail(frames)[k] = frames[k + 1]
            /\ Head(frames) = frames[1]
            /\ Len(frames) \in Nat \ {0}
        BY <3>1, FramesTail DEF iret, TypeOK
      <3>3. loc' # "int8_callback"
        BY <3>1, <3>2 DEF iret, TickInv
      <3>4. \A k \in 1..Len(frames') : frames'[k].ret # "int8_callback"
        BY <3>1, <3>2 DEF iret, TickInv
      <3> QED
        BY <2>1, <3>1, <3>3, <3>4 DEF TickInv, TicksCountTimerIrqs
    <2>6. CASE \/ Int8Cli \/ RomCallback \/ GuestFault
               \/ \E status \in {0, 1} : DosExit(status)
      <3>1. loc # "int8_callback" /\ loc' # "int8_callback" /\ UNCHANGED <<frames, ticks>>
        BY <2>6 DEF Int8Cli, RomCallback, GuestFault, DosExit, InGuest, GuestCode
      <3> QED
        BY <2>1, <3>1 DEF TickInv, TicksCountTimerIrqs
    <2>7. CASE \/ GuestWork \/ GuestHlt \/ GuestPitIn
               \/ \E b \in {0, 1} : GuestSetIF(b)
               \/ \E b \in TimerBytes : GuestPitOut(b)
      <3>1. loc # "int8_callback" /\ UNCHANGED <<loc, frames, ticks>>
        BY <2>7 DEF GuestWork, GuestHlt, GuestPitIn, GuestSetIF, GuestPitOut, InGuest, GuestCode
      <3> QED
        BY <2>1, <3>1 DEF TickInv, TicksCountTimerIrqs
    <2> QED
      BY <1>3, <2>2, <2>3, <2>4, <2>5, <2>6, <2>7 DEF Run
  <1> QED
    BY <1>1, <1>2, <1>3 DEF Next, exec86, Gone

\* With the ROM stub on vector 8 no timer interrupt is counted twice or lost.
THEOREM TicksAlwaysCount == Spec => []TicksCountTimerIrqs
  <1>1. Init => TickInv
    BY DEF Init, TickInv, TicksCountTimerIrqs
  <1>2. TickInv => TicksCountTimerIrqs
    BY DEF TickInv
  <1> QED
    BY <1>1, <1>2, TickStep, TypeCorrect, PollAlwaysExact, PTL DEF Spec
-----------------------------------------------------------------------------
\* SetHLTstate leaves a processor that sleeps with interrupts off.
FrozenInv == exited = "frozen" => ifl = 0 /\ hltstate = 1 /\ phase # "run"

LEMMA FrozenStep ==
  ASSUME FrozenInv, [Next]_vars
  PROVE  /\ FrozenInv'
         /\ exited = "frozen" =>
              /\ exited' = "frozen"
              /\ UNCHANGED <<ifl, hltstate, loc, frames, ticks>>
  <1> USE DEF FrozenInv
  <1>1. CASE Timer
    BY <1>1 DEF Timer
  <1>2. CASE GateDeliver
    BY <1>2 DEF GateDeliver, GateOpen
  <1>3. CASE GateSleep \/ GatePass
    BY <1>3 DEF GateSleep, GatePass
  <1>4. CASE Run
    <2>1. phase = "run" /\ phase' = "timer"
      BY <1>4, RunSteps DEF Instruction
    <2>2. exited' = exited \/ (exited' = "gone") \/ (hltstate' = 1 /\ ifl' = 0)
      BY <1>4
      DEF Run, GuestWork, GuestHlt, GuestPitIn, GuestIret, GuestFault, GuestSetIF, GuestInt,
          GuestPitOut, Int8Callback, Int8User, Int8Cli, RomCallback, RomIret, DosExit,
          exit_or_restart
    <2> QED
      BY <2>1, <2>2
  <1>5. CASE HostKey \/ UNCHANGED vars
    BY <1>5 DEF HostKey, vars, cpuVars
  <1> QED
    BY <1>1, <1>2, <1>3, <1>4, <1>5 DEF Next, exec86, Gone

\* Once the program has ended in the wasm build, keys and timer change nothing
\* the guest could see.
THEOREM TerminationAlwaysFinal == Spec => TerminationIsFinal
  <1>1. Init => FrozenInv
    BY DEF Init, FrozenInv
  <1>2. FrozenInv /\ [Next]_vars =>
          [exited = "frozen" =>
             /\ exited' = "frozen"
             /\ UNCHANGED <<ifl, hltstate, loc, frames, ticks>>]_vars
    BY FrozenStep
  <1>3. FrozenInv /\ [Next]_vars => FrozenInv'
    BY FrozenStep
  <1> QED
    BY <1>1, <1>2, <1>3, PTL DEF Spec, TerminationIsFinal

-----------------------------------------------------------------------------
\* Every word that halves of guest writes can leave as the reload value reaches
\* at least one step of the count.
CounterInv ==
  SafeReloads =>
    /\ 0 <= counter0
    /\ counter0 <= PowerOnReload \/ counter0 < ByteBase * ByteBase
    /\ Step <= timerdata0
    /\ timerdata0 <= PowerOnReload \/ timerdata0 < ByteBase * ByteBase
    /\ Step <= ((timerdata0 \div ByteBase) % ByteBase) * ByteBase

LEMMA CounterTimer ==
  ASSUME TypeOK, CounterInv, Timer
  PROVE  CounterInv'
  <1> USE PitAssumption DEF TypeOK, PitTypeOK
  <1>1. SafeReloads' = SafeReloads
    BY DEF SafeReloads, Step
  <1>2. Step \in Nat /\ ByteBase * ByteBase \in Nat
    BY DEF Step
  <1>3. CASE PIT_countExpire
    <2>1. counter0' = (counter0 - Step) + timerdata0 /\ timerdata0' = timerdata0 /\ counter0 - Step < 0
      BY <1>3 DEF PIT_countExpire
    <2> QED
      BY <1>1, <1>2, <2>1 DEF CounterInv
  <1>4. CASE PIT_countDown
    <2>1. counter0' = counter0 - Step /\ timerdata0' = timerdata0 /\ counter0 - Step >= 0
      BY <1>4 DEF PIT_countDown
    <2> QED
      BY <1>1, <1>2, <2>1 DEF CounterInv
  <1>5. CASE UNCHANGED pitVars
    BY <1>1, <1>5 DEF CounterInv, pitVars
  <1> QED
    BY <1>3, <1>4, <1>5 DEF Timer, PIT_count, PIT_countFrozen

LEMMA CounterOut ==
  ASSUME TypeOK, CounterInv, SafeReloads, NEW value \in TimerBytes, PIT_out(value)
  PROVE  CounterInv'
  <1>1. value \in 0..(ByteBase - 1) /\ ByteBase \in Nat \ {0} /\ timerdata0 \in Nat
    BY PitAssumption, InterruptsAssumption DEF Bytes, TypeOK, PitTypeOK
  <1>0. value \in Nat /\ value * ByteBase \in Nat
    BY <1>1
  <1>2. Step \in Nat /\ SafeReloads'
    BY PitAssumption DEF Step, SafeReloads
  <1>3. CASE PIT_outLow(value)
    <2> DEFINE hi == (timerdata0 \div ByteBase) % ByteBase
    <2>1. timerdata0 \div ByteBase \in Nat
      BY <1>1, QuotientInNat
    <2>2. hi \in 0..(ByteBase - 1)
      BY <1>1, <2>1, QuotientInNat
    <2>3. Step <= hi * ByteBase /\ timerdata0' = hi * ByteBase + value /\ counter0' = counter0
      BY <1>3 DEF CounterInv, PIT_outLow
    <2> HIDE DEF hi
    <2>4. hi * ByteBase + value < ByteBase * ByteBase /\ hi % ByteBase = hi
      BY <1>1, <2>2, SmallWord
    <2>5. hi \in Nat /\ hi * ByteBase \in Nat
      BY <1>1, <2>2
    <2>6. (hi * ByteBase + value) \div ByteBase = hi
      BY <1>1, <2>5, HighByte
    <2>7. Step <= hi * ByteBase + value /\ hi * ByteBase + value \in Nat
      BY <1>0, <1>2, <2>3, <2>5, LongerStill
    <2> DEFINE word == hi * ByteBase + value
    <2>8. /\ timerdata0' = word /\ counter0' = counter0 /\ word \in Nat
          /\ Step <= word /\ word < ByteBase * ByteBase
          /\ (word \div ByteBase) % ByteBase = hi
      BY <1>0, <2>3, <2>4, <2>5, <2>6, <2>7
    <2> HIDE DEF word
    <2> QED
      BY <1>2, <2>3, <2>8 DEF CounterInv
  <1>4. CASE PIT_outHigh(value)
    <2> DEFINE lo == timerdata0 % ByteBase
    <2>1. lo \in 0..(ByteBase - 1)
      BY <1>1, QuotientInNat
    <2>2. Step <= value * ByteBase
      BY DEF SafeReloads
    <2>3. timerdata0' = lo + value * ByteBase /\ counter0' = timerdata0'
      BY <1>4 DEF PIT_outHigh
    <2> HIDE DEF lo
    <2>4. lo + value * ByteBase = value * ByteBase + lo /\ value * ByteBase \in Nat
      BY <1>0, <2>1
    <2>5. value * ByteBase + lo < ByteBase * ByteBase /\ value % ByteBase = value
      BY <1>1, <2>1, SmallWord
    <2>6. (value * ByteBase + lo) \div ByteBase = value
      BY <1>0, <1>1, <2>1, HighByte
    <2>7. Step <= value * ByteBase + lo /\ value * ByteBase + lo \in Nat
      BY <1>0, <1>2, <2>1, <2>2, LongerStill
    <2> DEFINE word == value * ByteBase + lo
    <2>8. /\ timerdata0' = word /\ counter0' = word /\ word \in Nat
          /\ Step <= word /\ word < ByteBase * ByteBase
          /\ (word \div ByteBase) % ByteBase = value
      BY <2>1, <2>3, <2>4, <2>5, <2>6, <2>7
    <2> HIDE DEF word
    <2> QED
      BY <1>2, <2>2, <2>8 DEF CounterInv
  <1> QED
    BY <1>3, <1>4 DEF PIT_out

LEMMA CounterStep ==
  ASSUME TypeOK, CounterInv, [Next]_vars
  PROVE  CounterInv'
  <1>1. CASE Timer
    BY <1>1, CounterTimer
  <1>2. ASSUME NEW b \in TimerBytes, GuestPitOut(b)
        PROVE  CounterInv'
    <2>1. CASE SafeReloads
      BY <1>2, <2>1, CounterOut DEF GuestPitOut
    <2>2. CASE ~SafeReloads
      BY <2>2 DEF CounterInv, SafeReloads, Step
    <2> QED
      BY <2>1, <2>2
  <1>3. ASSUME UNCHANGED <<counter0, timerdata0>>
        PROVE  CounterInv'
    BY <1>3 DEF CounterInv, SafeReloads, Step
  <1>4. CASE GateDeliver \/ GateSleep \/ GatePass \/ HostKey \/ UNCHANGED vars
    BY <1>3, <1>4 DEF GateDeliver, GateSleep, GatePass, HostKey, vars, pitVars
  <1>5. CASE Run /\ ~\E b \in TimerBytes : GuestPitOut(b)
    BY <1>3, <1>5
    DEF Run, GuestWork, GuestHlt, GuestPitIn, PIT_in, GuestIret, GuestFault, GuestSetIF, GuestInt,
        Int8Callback, Int8User, Int8Cli, RomCallback, RomIret, DosExit, pitVars
  <1> QED
    BY <1>1, <1>2, <1>4, <1>5 DEF Next, exec86, Gone

\* For every step of the count and every word size: the single reload of
\* PIT_count keeps the counter in range as long as no byte the guest writes can
\* form a reload value below one step.
THEOREM CounterAlwaysInRange == Spec => []CounterInRange
  <1>1. Init => CounterInv
    BY PitAssumption DEF Init, PIT_Init, CounterInv, SafeReloads
  <1>2. CounterInv => CounterInRange
    BY DEF CounterInv, CounterInRange
  <1> QED
    BY <1>1, <1>2, CounterStep, TypeCorrect, PTL DEF Spec
-----------------------------------------------------------------------------
\* The interrupt flags of the frames, as IrqContract sees them.
LEMMA FlagsOfFrames ==
  ASSUME NEW s \in Seq(Frames)
  PROVE  /\ [k \in 1..Len(s) |-> s[k].ifl] \in Seq({0, 1})
         /\ Len([k \in 1..Len(s) |-> s[k].ifl]) = Len(s)
         /\ Len(s) \in Nat
  <1>1. Len(s) \in Nat /\ \A k \in 1..Len(s) : s[k] \in Frames
    OBVIOUS
  <1>2. \A k \in 1..Len(s) : s[k].ifl \in {0, 1}
    BY <1>1 DEF Frames
  <1>3. [k \in 1..Len(s) |-> s[k].ifl] \in [1..Len(s) -> {0, 1}]
    BY <1>2
  <1> QED
    BY <1>1, <1>3

LEMMA SavedPush ==
  ASSUME NEW s \in Seq(Frames), NEW f \in Frames
  PROVE  [k \in 1..Len(<<f>> \o s) |-> (<<f>> \o s)[k].ifl]
           = <<f.ifl>> \o [k \in 1..Len(s) |-> s[k].ifl]
  <1> DEFINE t == <<f>> \o s
             flags == [k \in 1..Len(s) |-> s[k].ifl]
             pushed == <<f.ifl>> \o flags
  <1>1. /\ t \in Seq(Frames) /\ Len(t) = Len(s) + 1 /\ t[1] = f
        /\ \A k \in 2..(Len(s) + 1) : t[k] = s[k - 1]
        /\ Len(s) \in Nat
    BY FramesPush
  <1>2. f.ifl \in {0, 1}
    BY DEF Frames
  <1>3. flags \in Seq({0, 1}) /\ Len(flags) = Len(s)
    BY FlagsOfFrames
  <1> HIDE DEF flags
  <1>4. /\ pushed \in Seq({0, 1}) /\ Len(pushed) = Len(s) + 1
        /\ pushed[1] = f.ifl
        /\ \A k \in 2..(Len(s) + 1) : pushed[k] = flags[k - 1]
    BY <1>1, <1>2, <1>3
  <1> HIDE DEF t, pushed
  <1>5. [k \in 1..Len(t) |-> t[k].ifl] = [k \in 1..Len(pushed) |-> pushed[k]]
    <2>1. ASSUME NEW k \in 1..Len(t)
          PROVE  t[k].ifl = pushed[k]
      <3>1. CASE k = 1
        BY <1>1, <1>4, <3>1
      <3>2. CASE k # 1
        <4>1. k \in 2..(Len(s) + 1) /\ k - 1 \in 1..Len(s)
          BY <1>1, <3>2
        <4>2. t[k] = s[k - 1] /\ pushed[k] = flags[k - 1]
          BY <1>1, <1>4, <4>1
        <4> QED
          BY <4>1, <4>2 DEF flags
      <3> QED
        BY <3>1, <3>2
    <2> QED
      BY <1>1, <1>4, <2>1
  <1>6. pushed = [k \in 1..Len(pushed) |-> pushed[k]]
    BY <1>4
  <1> QED
    BY <1>5, <1>6 DEF t, pushed, flags

LEMMA FlagsAreFunction ==
  ASSUME NEW t \in Seq({0, 1})
  PROVE  t = [k \in 1..Len(t) |-> t[k]]
  OBVIOUS

LEMMA FlagsTail ==
  ASSUME NEW t \in Seq({0, 1}), t # <<>>
  PROVE  /\ Tail(t) \in Seq({0, 1})
         /\ Len(Tail(t)) = Len(t) - 1
         /\ \A k \in 1..Len(Tail(t)) : Tail(t)[k] = t[k + 1]
  OBVIOUS

LEMMA SavedPop ==
  ASSUME NEW s \in Seq(Frames), s # <<>>
  PROVE  /\ [k \in 1..Len(Tail(s)) |-> Tail(s)[k].ifl] = Tail([k \in 1..Len(s) |-> s[k].ifl])
         /\ Head(s).ifl = Head([k \in 1..Len(s) |-> s[k].ifl])
         /\ [k \in 1..Len(s) |-> s[k].ifl] # <<>>
  <1> DEFINE flags == [k \in 1..Len(s) |-> s[k].ifl]
  <1>1. /\ Len(Tail(s)) = Len(s) - 1
        /\ \A k \in 1..Len(Tail(s)) : Tail(s)[k] = s[k + 1]
        /\ Head(s) = s[1]
        /\ Len(s) \in Nat \ {0}
    BY FramesTail
  <1>2. flags \in Seq({0, 1}) /\ Len(flags) = Len(s)
    BY FlagsOfFrames
  <1>3. \A k \in 1..Len(s) : flags[k] = s[k].ifl
    OBVIOUS
  <1> HIDE DEF flags
  <1>4. /\ Tail(flags) = [k \in 1..(Len(s) - 1) |-> flags[k + 1]]
        /\ Head(flags) = flags[1] /\ flags # <<>>
    <2>1. flags # <<>>
      BY <1>1, <1>2
    <2>2. /\ Tail(flags) \in Seq({0, 1}) /\ Len(Tail(flags)) = Len(s) - 1
          /\ \A k \in 1..(Len(s) - 1) : Tail(flags)[k] = flags[k + 1]
      <3>1. /\ Tail(flags) \in Seq({0, 1}) /\ Len(Tail(flags)) = Len(flags) - 1
            /\ \A k \in 1..Len(Tail(flags)) : Tail(flags)[k] = flags[k + 1]
        BY <1>2, <2>1, FlagsTail
      <3> QED
        BY <1>2, <3>1
    <2>3. Tail(flags) = [k \in 1..Len(Tail(flags)) |-> Tail(flags)[k]]
      BY <2>2, FlagsAreFunction
    <2>4. Tail(flags) = [k \in 1..(Len(s) - 1) |-> flags[k + 1]]
      BY <2>2, <2>3
    <2>5. Head(flags) = flags[1]
      BY <1>2, <2>1
    <2> QED
      BY <2>1, <2>4, <2>5
  <1>5. \A k \in 1..(Len(s) - 1) : Tail(s)[k].ifl = flags[k + 1]
    BY <1>1, <1>3
  <1>6. [k \in 1..Len(Tail(s)) |-> Tail(s)[k].ifl] = Tail(flags)
    BY <1>1, <1>4, <1>5
  <1>7. Head(s).ifl = Head(flags)
    BY <1>1, <1>3, <1>4
  <1> QED
    BY <1>4, <1>6, <1>7 DEF flags

\* What one step of the machine is to a guest: a step of the contract or none.
LEMMA ContractPush ==
  ASSUME TypeOK, NEW v \in DOMAIN Vectors, NEW ret \in Locations, NEW hw \in BOOLEAN,
         intcall86(v, ret, hw)
  PROVE  SavedFlags' = <<ifl>> \o SavedFlags /\ ifl' = 0
  <1> DEFINE f == [ret |-> ret, ifl |-> ifl, hw |-> hw]
  <1>1. f \in Frames /\ f.ifl = ifl /\ frames' = <<f>> \o frames /\ ifl' = 0
        /\ frames \in Seq(Frames)
    BY DEF Frames, TypeOK, intcall86
  <1> HIDE DEF f
  <1> QED
    BY <1>1, SavedPush DEF SavedFlags

LEMMA ContractPop ==
  ASSUME TypeOK, iret
  PROVE  SavedFlags # <<>> /\ ifl' = Head(SavedFlags) /\ SavedFlags' = Tail(SavedFlags)
  <1>1. frames \in Seq(Frames) /\ frames # <<>>
        /\ frames' = Tail(frames) /\ ifl' = Head(frames).ifl
    BY DEF TypeOK, iret
  <1> QED
    BY <1>1, SavedPop DEF SavedFlags

\* Instructions are executed only by a processor that is awake.
AwakeInRun == phase = "run" => hltstate = 0

LEMMA AwakeStep ==
  ASSUME AwakeInRun, [Next]_vars
  PROVE  AwakeInRun'
  <1>1. CASE Run
    BY <1>1, RunSteps DEF Instruction, AwakeInRun
  <1> QED
    BY <1>1
    DEF Next, exec86, Timer, GateDeliver, GateSleep, GatePass, HostKey, Gone, vars, cpuVars, AwakeInRun

\* The step lemma of the refinement, one step per action of the machine.
LEMMA ContractStep ==
  ASSUME TypeOK, PollIsExact, AwakeInRun, [Next]_vars
  PROVE  [Contract!Next]_(Contract!contractVars)
  <1> USE InterruptsAssumption
  <1> DEFINE Stutter == UNCHANGED <<Pending, ifl, hltstate = 1, SavedFlags>>
  <1>0. ASSUME Stutter
        PROVE  [Contract!Next]_(Contract!contractVars)
    BY <1>0 DEF Contract!contractVars
  <1>1. ASSUME UNCHANGED <<picVars, ifl, hltstate, frames>>
        PROVE  Stutter
    BY <1>1 DEF picVars, Pending, SavedFlags
  <1>2. ASSUME NEW i \in Irqs, PIC_trigger(i), UNCHANGED <<ifl, hltstate, frames>>
        PROVE  [Contract!Next]_(Contract!contractVars)
    <2>1. CASE i \in imr
      <3>1. Stutter
        BY <1>2, <2>1 DEF PIC_trigger, Pending, SavedFlags
      <3> QED
        BY <1>0, <3>1
    <2>2. CASE i \notin imr
      <3>1. Contract!Request(i)
        BY <1>2, <2>2 DEF PIC_trigger, Pending, SavedFlags, Contract!Request
      <3> QED
        BY <3>1 DEF Contract!Next
    <2> QED
      BY <2>1, <2>2
  <1>3. CASE Timer
    <2>1. CASE PIT_countExpire
      BY <1>2, <1>3, <2>1 DEF Timer, PIT_countExpire
    <2>2. CASE UNCHANGED picVars
      BY <1>0, <1>1, <1>3, <2>2 DEF Timer
    <2> QED
      BY <1>3, <2>1, <2>2
      DEF Timer, PIT_count, PIT_countFrozen, PIT_countDown, picVars
  <1>4. CASE GateDeliver
    <2>1. NextIrq \in Pending /\ \A j \in Pending : NextIrq <= j
      BY <1>4, NextIrqIsPending DEF GateDeliver, GateOpen, PollIsExact, TypeOK
    <2>2. NextIrq \in Irqs /\ 8 + NextIrq \in DOMAIN Vectors /\ loc \in Locations
      BY <2>1 DEF Pending, TypeOK, PicTypeOK
    <2>3. SavedFlags' = <<ifl>> \o SavedFlags /\ ifl' = 0
      BY <1>4, <2>2, ContractPush DEF GateDeliver
    <2>4. Pending' = Pending \ {NextIrq}
      BY <1>4 DEF GateDeliver, PIC_nextinterrupt, Pending
    <2>5. ifl = 1 /\ hltstate' = 0
      BY <1>4 DEF GateDeliver, GateOpen
    <2>6. Contract!Deliver(NextIrq)
      BY <2>1, <2>3, <2>4, <2>5 DEF Contract!Deliver
    <2> QED
      BY <2>2, <2>6 DEF Contract!Next
  <1>5. CASE GateSleep \/ GatePass
    BY <1>0, <1>1, <1>5 DEF GateSleep, GatePass
  <1>6. CASE HostKey
    BY <1>2, <1>6 DEF HostKey, cpuVars
  <1>7. CASE UNCHANGED vars
    BY <1>0, <1>1, <1>7 DEF vars, cpuVars
  <1>8. CASE Run
    <2>1. UNCHANGED picVars /\ hltstate = 0
      BY <1>8, RunSteps DEF Instruction, AwakeInRun
    <2>2. Pending' = Pending
      BY <2>1 DEF picVars, Pending
    <2>3. CASE \/ GuestWork \/ GuestPitIn \/ Int8Callback \/ RomCallback
               \/ \E b \in TimerBytes : GuestPitOut(b)
      BY <1>0, <1>1, <2>1, <2>3
      DEF GuestWork, GuestPitIn, Int8Callback, RomCallback, GuestPitOut
    <2>4. CASE Int8Cli \/ \E b \in {0, 1} : GuestSetIF(b)
      <3>1. \E b \in {0, 1} : ifl' = b
        BY <2>4 DEF Int8Cli, GuestSetIF
      <3>2. UNCHANGED <<frames, hltstate>>
        BY <2>4 DEF Int8Cli, GuestSetIF
      <3>3. \E b \in {0, 1} : Contract!Enable(b)
        BY <2>1, <2>2, <3>1, <3>2 DEF Contract!Enable, SavedFlags
      <3> QED
        BY <3>3 DEF Contract!Next
    <2>5. CASE GuestHlt
      <3>1. Contract!Sleep
        BY <2>1, <2>2, <2>5 DEF GuestHlt, Contract!Sleep, SavedFlags
      <3> QED
        BY <3>1 DEF Contract!Next
    <2>6. CASE Int8User \/ \E v \in GuestVectors : GuestInt(v)
      <3>1. PICK v \in DOMAIN Vectors, ret \in Locations : intcall86(v, ret, FALSE)
        <4>1. 28 \in DOMAIN Vectors /\ "int8_cli" \in Locations /\ loc \in Locations
          BY DEF TypeOK, Locations, IntStub
        <4> QED
          BY <2>6, <4>1 DEF Int8User, GuestInt
      <3>2. SavedFlags' = <<ifl>> \o SavedFlags /\ ifl' = 0
        BY <3>1, ContractPush
      <3>3. UNCHANGED hltstate
        BY <2>6 DEF Int8User, GuestInt
      <3>4. Contract!Call
        BY <2>1, <2>2, <3>2, <3>3 DEF Contract!Call
      <3> QED
        BY <3>4 DEF Contract!Next
    <2>7. CASE GuestIret \/ RomIret
      <3>1. iret /\ UNCHANGED hltstate
        BY <2>7 DEF GuestIret, RomIret
      <3>2. SavedFlags # <<>> /\ ifl' = Head(SavedFlags) /\ SavedFlags' = Tail(SavedFlags)
        BY <3>1, ContractPop
      <3>3. Contract!Return
        BY <2>1, <2>2, <3>1, <3>2 DEF Contract!Return
      <3> QED
        BY <3>3 DEF Contract!Next
    <2>8. CASE GuestFault \/ \E status \in {0, 1} : DosExit(status)
      <3>1. UNCHANGED frames /\ \E status \in {0, 1} : exit_or_restart(status)
        BY <2>8 DEF GuestFault, DosExit
      <3>2. CASE UNCHANGED <<hltstate, ifl>>
        BY <1>0, <1>1, <2>1, <3>1, <3>2
      <3>3. CASE hltstate' = 1 /\ ifl' = 0
        <4>1. Contract!SwitchOff
          BY <2>1, <2>2, <3>1, <3>3 DEF Contract!SwitchOff, SavedFlags
        <4> QED
          BY <4>1 DEF Contract!Next
      <3> QED
        BY <3>1, <3>2, <3>3 DEF exit_or_restart
    <2> QED
      BY <1>8, <2>3, <2>4, <2>5, <2>6, <2>7, <2>8 DEF Run
  <1> QED
    BY <1>3, <1>4, <1>5, <1>6, <1>7, <1>8 DEF Next, exec86, Gone
\* The loop of exec86, the PIC registers, the polling word, the stubs and the
\* halt of a terminated program together implement the contract of IrqContract.
THEOREM ImplementsContract == Spec => ContractSpec
  <1>1. Init => Contract!Init
    BY DEF Init, PIC_Init, Contract!Init, Pending, SavedFlags
  <1>2. Init => AwakeInRun
    BY DEF Init, AwakeInRun
  <1>3. Spec => []AwakeInRun
    BY <1>2, AwakeStep, PTL DEF Spec
  <1> QED
    BY <1>1, <1>3, ContractStep, TypeCorrect, PollAlwaysExact, PTL
    DEF Spec, ContractSpec, Contract!Spec

=============================================================================
