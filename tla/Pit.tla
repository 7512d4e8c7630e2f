-------------------------------- MODULE Pit --------------------------------
(***************************************************************************)
(* Channel 0 of the interval timer, src/src/devices/pit.c.  A byte is a    *)
(* number below ByteBase (256 in the code), so that a word is a pair of    *)
(* bytes.  io_hi_lo is the one flip-flop that reads and writes of the data *)
(* port share; the counter stands still while it is 1.                     *)
(***************************************************************************)
EXTENDS Pic

CONSTANTS
  ByteBase,          \* 256
  PowerOnReload,     \* 100000, the reload value of PIT_Init
  TickInstructions   \* 0x100, the argument exec86 passes to PIT_count

ASSUME PitAssumption ==
  /\ ByteBase \in Nat \ {0, 1}
  /\ PowerOnReload \in Nat
  /\ TickInstructions \in Nat

VARIABLES
  io_hi_lo,          \* 1: half of a two-byte access has been made
  counter0,          \* int32_t, counts down
  timerdata0         \* int32_t, the reload value

pitVars == <<io_hi_lo, counter0, timerdata0>>

Bytes == 0..(ByteBase - 1)
Step == TickInstructions \div 3

PitTypeOK ==
  /\ io_hi_lo \in {0, 1}
  /\ counter0 \in Int
  /\ timerdata0 \in Nat

PIT_Init ==
  /\ io_hi_lo = 0
  /\ timerdata0 = PowerOnReload
  /\ counter0 = PowerOnReload

\* Frozen: return before the subtraction.
PIT_countFrozen ==
  /\ io_hi_lo = 1
  /\ UNCHANGED <<pitVars, picVars>>

PIT_countDown ==
  /\ io_hi_lo = 0
  /\ counter0 - Step >= 0
  /\ counter0' = counter0 - Step
  /\ UNCHANGED <<io_hi_lo, timerdata0, picVars>>

\* Below zero: one request, one reload, whatever the reload value is.
Bug_PIT_countExpire ==
  /\ io_hi_lo = 0
  /\ counter0 - Step < 0
  /\ PIC_trigger(0)
  /\ counter0' = counter0 - Step
  /\ UNCHANGED <<io_hi_lo, timerdata0>>

PIT_countExpire ==
  /\ io_hi_lo = 0
  /\ counter0 - Step < 0
  /\ PIC_trigger(0)
  /\ counter0' = (counter0 - Step) + timerdata0
  /\ UNCHANGED <<io_hi_lo, timerdata0>>

PIT_count == PIT_countFrozen \/ PIT_countDown \/ PIT_countExpire

\* A read of port 40h: low byte, then high byte; only the flip-flop changes.
PIT_in ==
  /\ io_hi_lo' = 1 - io_hi_lo
  /\ UNCHANGED <<counter0, timerdata0>>

\* A write of port 40h.  The low byte replaces bits 0-7 and clears the bits
\* above 15; the high byte replaces bits 8-15, drops the rest and reloads.
PIT_outLow(value) ==
  /\ io_hi_lo = 0
  /\ io_hi_lo' = 1
  /\ timerdata0' = (((timerdata0 \div ByteBase) % ByteBase) * ByteBase) + value
  /\ UNCHANGED counter0

PIT_outHigh(value) ==
  /\ io_hi_lo = 1
  /\ io_hi_lo' = 0
  /\ timerdata0' = (timerdata0 % ByteBase) + value * ByteBase
  /\ counter0' = timerdata0'

PIT_out(value) == PIT_outLow(value) \/ PIT_outHigh(value)

\* Ports 42h (speaker) and 43h (mode) are accepted and ignored; for the others
\* PIT_out, and for every port but 40h PIT_in, is exit_or_restart(1).
PIT_KnownOut(portnum) == portnum \in {0, 2, 3}
PIT_KnownIn(portnum) == portnum = 0

============================================================================
