-------------------------------- MODULE Pic --------------------------------
(***************************************************************************)
(* The interrupt controller of src/src/devices/pic.c.  The three 8-bit     *)
(* registers are sets of bit numbers; PIC_triggered is the cached word     *)
(* irr & ~imr that the CPU loop polls before every instruction.  An        *)
(* operator below is the effect of one C function on these variables; the  *)
(* modules that own the callers (Pit, Interrupts, Keyb) compose them.      *)
(***************************************************************************)
EXTENDS Integers

CONSTANT Irqs        \* the bit numbers of the 8-bit registers that are used

ASSUME IrqsAssumption == Irqs \subseteq 0..7

VARIABLES
  irr,               \* interrupt request register
  imr,               \* interrupt mask register
  isr,               \* interrupt service register
  PIC_triggered      \* what the CPU loop tests

picVars == <<irr, imr, isr, PIC_triggered>>

PicTypeOK ==
  /\ irr \subseteq Irqs
  /\ imr \subseteq Irqs
  /\ isr \subseteq Irqs
  /\ PIC_triggered \subseteq Irqs

PIC_Init ==
  /\ PIC_triggered = {}
  /\ imr = {}
  /\ irr = {}
  /\ isr = {}

PIC_trigger(irqnum) ==
  /\ irr' = irr \cup {irqnum}
  /\ PIC_triggered' = (irr \cup {irqnum}) \ imr
  /\ UNCHANGED <<imr, isr>>

\* The scan of PIC_nextinterrupt: bit 0 first.
Pending == irr \ imr
Bug_NextIrq == CHOOSE i \in Pending : \A j \in Pending : i >= j
NextIrq == CHOOSE i \in Pending : \A j \in Pending : i <= j

\* PIC_nextinterrupt when the scan finds a bit; its caller enters vector 8 + NextIrq.
Bug_PIC_nextinterrupt ==
  /\ irr' = irr \ {NextIrq}
  /\ isr' = isr \cup {NextIrq}
  /\ UNCHANGED <<imr, PIC_triggered>>

PIC_nextinterrupt ==
  /\ irr' = irr \ {NextIrq}
  /\ isr' = isr \cup {NextIrq}
  /\ PIC_triggered' = (irr \ {NextIrq}) \ imr
  /\ UNCHANGED imr

\* Ports 20h and 21h are accepted and ignored: an EOI does not clear isr, a
\* mask is not stored.  Any other port is exit_or_restart(1) (Interrupts!Exit).
PIC_KnownPort(portnum) == portnum \in {0, 1}

============================================================================
