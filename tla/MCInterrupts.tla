---------------------------- MODULE MCInterrupts ----------------------------
EXTENDS Interrupts, TLC

\* Vector 8 is the ROM stub, 1Ch and 9 lead to guest handlers, 21h to DOS.
MCVectors == 8 :> "int8_callback" @@ 9 :> "hook" @@ 28 :> "hook" @@ 33 :> "dos_callback"

\* The guest has taken over the timer vector as well.
MCHookedVectors == 8 :> "hook" @@ 9 :> "hook" @@ 28 :> "rom_callback" @@ 33 :> "dos_callback"

=============================================================================
