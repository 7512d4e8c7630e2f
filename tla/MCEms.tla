------------------------------- MODULE MCEms -------------------------------
EXTENDS Ems, TLC

CONSTANTS d1, d2, none

MCData == {d1, d2}

=============================================================================
