----------------------------- MODULE MCKeyboard -----------------------------
(***************************************************************************)
(* Three kinds of guests: one that takes keys from port 60h, one that uses *)
(* the BIOS under a fast typist, one that uses both under a slow one.      *)
(***************************************************************************)
EXTENDS KeyboardSession

NativeTable == ConvertScanCode
BrowserTable == getScancode

PortGuest == [rollover |-> TRUE, usesPort |-> TRUE, usesBios |-> FALSE, asksFirst |-> FALSE]
BiosGuest == [rollover |-> TRUE, usesPort |-> FALSE, usesBios |-> TRUE, asksFirst |-> TRUE]
BothGuest == [rollover |-> FALSE, usesPort |-> TRUE, usesBios |-> TRUE, asksFirst |-> TRUE]
MCSessions == {PortGuest, BiosGuest, BothGuest}

=============================================================================
