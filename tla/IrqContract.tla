---------------------------- MODULE IrqContract ----------------------------
(***************************************************************************)
(* What the processor promises a guest about interrupts, without the PIC   *)
(* registers, the polling word, the instruction loop or the timer: a       *)
(* request is latched until it is taken, the lowest line is taken first,   *)
(* only while interrupts are enabled, a handler starts with interrupts     *)
(* disabled and its return restores what its caller had, and a sleeping    *)
(* processor does nothing but wake up to take a request.                   *)
(***************************************************************************)
EXTENDS Integers, Sequences

CONSTANT Lines

VARIABLES
  pending,           \* the lines with a latched request
  enabled,           \* 1: interrupts are accepted
  asleep,            \* no instruction is executed
  saved              \* what enabled was when each active handler was entered

contractVars == <<pending, enabled, asleep, saved>>

Init ==
  /\ pending = {}
  /\ enabled = 1
  /\ asleep = FALSE
  /\ saved = <<>>

Request(i) ==
  /\ pending' = pending \cup {i}
  /\ UNCHANGED <<enabled, asleep, saved>>

Deliver(i) ==
  /\ enabled = 1
  /\ i \in pending
  /\ \A j \in pending : i <= j
  /\ pending' = pending \ {i}
  /\ saved' = <<1>> \o saved
  /\ enabled' = 0
  /\ asleep' = FALSE

Call ==
  /\ ~asleep
  /\ saved' = <<enabled>> \o saved
  /\ enabled' = 0
  /\ UNCHANGED <<pending, asleep>>

Return ==
  /\ ~asleep
  /\ saved # <<>>
  /\ enabled' = Head(saved)
  /\ saved' = Tail(saved)
  /\ UNCHANGED <<pending, asleep>>

Enable(b) ==
  /\ ~asleep
  /\ enabled' = b
  /\ UNCHANGED <<pending, asleep, saved>>

Sleep ==
  /\ ~asleep
  /\ asleep' = TRUE
  /\ UNCHANGED <<pending, enabled, saved>>

SwitchOff ==
  /\ ~asleep
  /\ asleep' = TRUE
  /\ enabled' = 0
  /\ UNCHANGED <<pending, saved>>

Next ==
  \/ \E i \in Lines : Request(i) \/ Deliver(i)
  \/ Call \/ Return \/ Sleep \/ SwitchOff
  \/ \E b \in {0, 1} : Enable(b)

Spec == Init /\ [][Next]_contractVars

============================================================================
