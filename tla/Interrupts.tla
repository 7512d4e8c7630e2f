----------------------------- MODULE Interrupts -----------------------------
(***************************************************************************)
(* The interrupt side of the processor: the loop of exec86                 *)
(* (src/src/cpu/cpu.c) with the timer tick, the poll of PIC_triggered, HLT *)
(* and one instruction per turn; INT, IRET, CLI/STI/POPF; the ROM stubs    *)
(* that rom.c plants; exit_or_restart; and the host events (a key raises   *)
(* IRQ 1) that arrive between two calls of exec86.                         *)
(*                                                                         *)
(* Guest code is arbitrary except for its stack: a handler's IRET finds    *)
(* the frame its call pushed.  ip and cs are one location: "guest" is the  *)
(* main program, "hook" a handler the guest installed, the others are the  *)
(* instructions of the ROM stubs.                                          *)
(***************************************************************************)
EXTENDS Pit, Sequences

CONSTANTS
  Vectors,           \* the interrupt vector table: where a vector leads
  GuestVectors,      \* the vectors guest code calls with INT
  TimerBytes,        \* the bytes guest code writes to port 40h
  CountPeriod,       \* 256: exec86 ticks the timer when count & 0xFF is 0
  TickWrap,          \* 65536: the BIOS tick counter is a 16-bit word
  MaxFrames,         \* bound: no guest executes INT or STI in a deeper handler
  Wasm               \* the __wasm__ build

HostIrq == 1
IntStub == {"int8_callback", "int8_int1c", "int8_cli", "int8_iret"}
RomStub == {"rom_callback", "dos_callback", "rom_iret"}
GuestCode == {"guest", "hook"}
Locations == IntStub \cup RomStub \cup GuestCode

ASSUME InterruptsAssumption ==
  /\ {0, HostIrq} \subseteq Irqs
  /\ Vectors \in [DOMAIN Vectors -> {"int8_callback", "rom_callback", "dos_callback", "hook"}]
  /\ \A i \in Irqs : 8 + i \in DOMAIN Vectors /\ Vectors[8 + i] # "dos_callback"
  /\ 28 \in DOMAIN Vectors /\ Vectors[28] # "dos_callback"
  /\ \A v \in DOMAIN Vectors : Vectors[v] = "int8_callback" => v = 8
  /\ GuestVectors \subseteq DOMAIN Vectors \ {8}
  /\ TimerBytes \subseteq Bytes
  /\ CountPeriod \in Nat \ {0}
  /\ TickWrap \in Nat \ {0}
  /\ MaxFrames \in Nat
  /\ Wasm \in BOOLEAN

VARIABLES
  phase,             \* where in its loop body exec86 is
  count,             \* the turns of the loop, modulo CountPeriod
  ifl,               \* the interrupt flag
  hltstate,          \* 1: skip the instruction
  loc,               \* cs:ip
  frames,            \* the interrupt frames on the guest's stack, newest first
  exited,            \* "no", "frozen" (exit status 0 in wasm) or "gone"
  ticks,             \* the BIOS tick counter, the word at 0040:006C
  timerIrqs          \* history: deliveries of IRQ 0, modulo TickWrap

cpuVars == <<phase, count, ifl, hltstate, loc, frames, exited, ticks, timerIrqs>>
vars == <<picVars, pitVars, cpuVars>>

Frames == [ret : Locations, ifl : {0, 1}, hw : BOOLEAN]

TypeOK ==
  /\ PicTypeOK
  /\ PitTypeOK
  /\ phase \in {"timer", "gate", "run"}
  /\ count \in 0..(CountPeriod - 1)
  /\ ifl \in {0, 1}
  /\ hltstate \in {0, 1}
  /\ loc \in Locations
  /\ frames \in Seq(Frames)
  /\ exited \in {"no", "frozen", "gone"}
  /\ ticks \in 0..(TickWrap - 1)
  /\ timerIrqs \in 0..(TickWrap - 1)

Init ==
  /\ PIC_Init
  /\ PIT_Init
  /\ phase = "timer"
  /\ count = 0
  /\ ifl = 1
  /\ hltstate = 0
  /\ loc = "guest"
  /\ frames = <<>>
  /\ exited = "no"
  /\ ticks = 0
  /\ timerIrqs = 0

-----------------------------------------------------------------------------
\* intcall86: push flags, cs and ip, enter the vector with interrupts off.
Bug_intcall86(intnum, ret, hw) ==
  /\ frames' = <<[ret |-> ret, ifl |-> ifl, hw |-> hw]>> \o frames
  /\ loc' = Vectors[intnum]
  /\ UNCHANGED ifl

intcall86(intnum, ret, hw) ==
  /\ frames' = <<[ret |-> ret, ifl |-> ifl, hw |-> hw]>> \o frames
  /\ loc' = Vectors[intnum]
  /\ ifl' = 0

\* The head of the loop: every CountPeriod turns the timer counts down.
Timer ==
  /\ phase = "timer" /\ exited # "gone"
  /\ IF count = 0 THEN PIT_count ELSE UNCHANGED <<picVars, pitVars>>
  /\ count' = (count + 1) % CountPeriod
  /\ phase' = "gate"
  /\ UNCHANGED <<ifl, hltstate, loc, frames, exited, ticks, timerIrqs>>

\* if (ifl && PIC_triggered): leave HLT, enter the handler of the next request.
GateOpen == ifl = 1 /\ PIC_triggered # {}

Bug_GateDeliver ==
  /\ phase = "gate"
  /\ GateOpen
  /\ PIC_nextinterrupt
  /\ intcall86(8 + NextIrq, loc, TRUE)
  /\ timerIrqs' = IF NextIrq = 0 THEN (timerIrqs + 1) % TickWrap ELSE timerIrqs
  /\ phase' = "run"
  /\ UNCHANGED <<pitVars, count, hltstate, exited, ticks>>

GateDeliver ==
  /\ phase = "gate"
  /\ GateOpen
  /\ hltstate' = 0
  /\ PIC_nextinterrupt
  /\ intcall86(8 + NextIrq, loc, TRUE)
  /\ timerIrqs' = IF NextIrq = 0 THEN (timerIrqs + 1) % TickWrap ELSE timerIrqs
  /\ phase' = "run"
  /\ UNCHANGED <<pitVars, count, exited, ticks>>

\* if (hltstate) continue;
GateSleep ==
  /\ phase = "gate"
  /\ ~GateOpen
  /\ hltstate = 1
  /\ phase' = "timer"
  /\ UNCHANGED <<picVars, pitVars, count, ifl, hltstate, loc, frames, exited, ticks, timerIrqs>>

GatePass ==
  /\ phase = "gate"
  /\ ~GateOpen
  /\ hltstate = 0
  /\ phase' = "run"
  /\ UNCHANGED <<picVars, pitVars, count, ifl, hltstate, loc, frames, exited, ticks, timerIrqs>>

-----------------------------------------------------------------------------
\* What every instruction of the run phase leaves alone.
Instruction ==
  /\ phase = "run"
  /\ phase' = "timer"
  /\ UNCHANGED <<picVars, count, timerIrqs>>

\* IRET: ip, cs and flags from the newest frame.
iret ==
  /\ frames # <<>>
  /\ loc' = Head(frames).ret
  /\ ifl' = Head(frames).ifl
  /\ frames' = Tail(frames)

\* exit_or_restart: the wasm build only halts when the status is 0; every
\* other exit ends the process (wasm: the instance).
Bug_exit_or_restart(status) ==
  IF Wasm /\ status = 0
  THEN ifl' = 0 /\ exited' = "frozen" /\ UNCHANGED hltstate
  ELSE exited' = "gone" /\ UNCHANGED <<hltstate, ifl>>

exit_or_restart(status) ==
  IF Wasm /\ status = 0
  THEN hltstate' = 1 /\ ifl' = 0 /\ exited' = "frozen"
  ELSE exited' = "gone" /\ UNCHANGED <<hltstate, ifl>>

InGuest == Instruction /\ loc \in GuestCode /\ UNCHANGED ticks

\* Any instruction that has nothing to do with interrupts.
GuestWork ==
  /\ InGuest
  /\ UNCHANGED <<pitVars, ifl, hltstate, loc, frames, exited>>

\* CLI, STI, POPF.
GuestSetIF(b) ==
  /\ InGuest
  /\ ifl' = b
  /\ UNCHANGED <<pitVars, hltstate, loc, frames, exited>>

\* HLT: ip already points behind it.
GuestHlt ==
  /\ InGuest
  /\ hltstate' = 1
  /\ UNCHANGED <<pitVars, ifl, loc, frames, exited>>

\* INT Ib.
GuestInt(v) ==
  /\ InGuest
  /\ intcall86(v, loc, FALSE)
  /\ UNCHANGED <<pitVars, hltstate, exited>>

\* IN AL,40h and OUT 40h,AL.
GuestPitIn ==
  /\ InGuest
  /\ PIT_in
  /\ UNCHANGED <<ifl, hltstate, loc, frames, exited>>

GuestPitOut(value) ==
  /\ InGuest
  /\ PIT_out(value)
  /\ UNCHANGED <<ifl, hltstate, loc, frames, exited>>

\* The IRET of a handler the guest installed.
GuestIret ==
  /\ InGuest
  /\ loc = "hook"
  /\ iret
  /\ UNCHANGED <<pitVars, hltstate, exited>>

\* An illegal opcode, an unknown port: exit_or_restart(1).
GuestFault ==
  /\ InGuest
  /\ exit_or_restart(1)
  /\ UNCHANGED <<pitVars, loc, frames>>

Bug_Int8CallbackNoWrap ==
  /\ Instruction
  /\ loc = "int8_callback"
  /\ ticks' = ticks + 1
  /\ loc' = "int8_int1c"
  /\ UNCHANGED <<pitVars, ifl, hltstate, frames, exited>>

\* ROMExec(8): count the tick; the pushes and pops of the stub are left out.
Bug_Int8Callback ==
  /\ Instruction
  /\ loc = "int8_callback"
  /\ ticks' = (ticks + 1) % TickWrap
  /\ UNCHANGED <<pitVars, loc, ifl, hltstate, frames, exited>>

Int8Callback ==
  /\ Instruction
  /\ loc = "int8_callback"
  /\ ticks' = (ticks + 1) % TickWrap
  /\ loc' = "int8_int1c"
  /\ UNCHANGED <<pitVars, ifl, hltstate, frames, exited>>

Int8User ==
  /\ Instruction
  /\ loc = "int8_int1c"
  /\ intcall86(28, "int8_cli", FALSE)
  /\ UNCHANGED <<pitVars, hltstate, exited, ticks>>

Int8Cli ==
  /\ Instruction
  /\ loc = "int8_cli"
  /\ ifl' = 0
  /\ loc' = "int8_iret"
  /\ UNCHANGED <<pitVars, hltstate, frames, exited, ticks>>

\* The default stub of a vector: the callback, then IRET.
RomCallback ==
  /\ Instruction
  /\ loc \in {"rom_callback", "dos_callback"}
  /\ loc' = "rom_iret"
  /\ UNCHANGED <<pitVars, ifl, hltstate, frames, exited, ticks>>

\* A DOS or BIOS service that ends the program (20h, 21h/4Ch) or gives up.
DosExit(status) ==
  /\ Instruction
  /\ loc = "dos_callback"
  /\ exit_or_restart(status)
  /\ loc' = "rom_iret"
  /\ UNCHANGED <<pitVars, frames, ticks>>

RomIret ==
  /\ Instruction
  /\ loc \in {"int8_iret", "rom_iret"}
  /\ iret
  /\ UNCHANGED <<pitVars, hltstate, exited, ticks>>

-----------------------------------------------------------------------------
\* KeyDown and KeyUp of the host, between two calls of exec86.
HostKey ==
  /\ phase = "timer" /\ exited # "gone"
  /\ PIC_trigger(HostIrq)
  /\ UNCHANGED <<pitVars, cpuVars>>

Gone == exited = "gone" /\ UNCHANGED vars

\* The bound is one of the guest, whose stack is finite, not of the instructions.
MayNest == Len(frames) < MaxFrames

Run ==
  \/ GuestWork \/ GuestHlt \/ GuestPitIn \/ GuestIret \/ GuestFault
  \/ GuestSetIF(0)
  \/ MayNest /\ GuestSetIF(1)
  \/ MayNest /\ \E v \in GuestVectors : GuestInt(v)
  \/ \E b \in TimerBytes : GuestPitOut(b)
  \/ Int8Callback \/ Int8User \/ Int8Cli \/ RomCallback \/ RomIret
  \/ \E status \in {0, 1} : DosExit(status)

exec86 == Timer \/ GateDeliver \/ GateSleep \/ GatePass \/ Run

Next == exec86 \/ HostKey \/ Gone

Spec == Init /\ [][Next]_vars

\* The host calls Run forever (main.c, requestAnimationFrame in dos.js).
FairSpec == Spec /\ WF_vars(exec86)

-----------------------------------------------------------------------------
\* PIC_triggered is a copy of irr & ~imr taken at every change of irr.  The
\* copy is never stale, so the poll of exec86 never calls PIC_nextinterrupt
\* with nothing to take (its exit_or_restart(1), pic.c:55).
PollIsExact == PIC_triggered = Pending

\* No reload value that halves of writes can leave in timerdata0 is shorter
\* than one step of the count (a guest that writes 0 for 65536 is outside).
SafeReloads ==
  /\ Step <= PowerOnReload
  /\ Step <= ((PowerOnReload \div ByteBase) % ByteBase) * ByteBase
  /\ \A b \in TimerBytes : Step <= b * ByteBase

\* The counter never leaves 0 .. the largest reload value, whatever halves of
\* reads and writes of port 40h handlers and main program interleave: the
\* single reload of PIT_count is enough and the int32_t cannot run away.
CounterInRange ==
  SafeReloads =>
    /\ 0 <= counter0
    /\ counter0 <= PowerOnReload \/ counter0 < ByteBase * ByteBase

\* Hardware interrupts only guest code, never a ROM stub between two of its
\* instructions.  The controller knows no end of interrupt, so a handler of INT
\* 1Ch that executes STI lets the next timer interrupt enter the stub a second
\* time before its IRET, and so on; even then each activation does its count, its
\* CLI and its pops as one, because INT, IRET and CLI of all the activations and
\* handlers in between leave the flag off whenever control is in a stub.
StubsUninterrupted ==
  \A k \in 1..Len(frames) : frames[k].hw => frames[k].ret \in GuestCode

\* With the ROM stub on vector 8, the BIOS tick counter counts each delivered
\* timer interrupt exactly once, nested handlers and HLT included, and also when
\* the hook of INT 1Ch enables interrupts and the stub is entered again inside it.
TicksCountTimerIrqs ==
  Vectors[8] = "int8_callback" =>
    timerIrqs = IF loc = "int8_callback" THEN (ticks + 1) % TickWrap ELSE ticks

\* After the program has terminated in the wasm build (SetHLTstate) no key and
\* no timer interrupt makes the processor execute an instruction again.
TerminationIsFinal ==
  [][exited = "frozen" =>
       /\ exited' = "frozen"
       /\ UNCHANGED <<ifl, hltstate, loc, frames, ticks>>]_vars

\* The interrupt flags in the frames, newest first.
SavedFlags == [k \in 1..Len(frames) |-> frames[k].ifl]

\* The loop of exec86 with its polling word, registers and stubs implements
\* the contract a guest relies on.
Contract == INSTANCE IrqContract WITH
  Lines <- Irqs,
  pending <- Pending,
  enabled <- ifl,
  asleep <- hltstate = 1,
  saved <- SavedFlags

ContractSpec == Contract!Spec

\* HLT with interrupts on ends, as long as no half access of port 40h has
\* stopped the timer.
HaltEnds == (hltstate = 1 /\ ifl = 1 /\ io_hi_lo = 0) ~> (hltstate = 0)

\* A latched timer interrupt is taken if the guest has interrupts on at the
\* poll again and again.
TimerIrqTaken ==
  ([]<>(phase = "gate" /\ ifl = 1)) => (0 \in irr ~> 0 \notin irr)

=============================================================================
