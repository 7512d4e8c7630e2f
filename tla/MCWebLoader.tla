---------------------------- MODULE MCWebLoader ----------------------------
EXTENDS WebLoader

AllSettings == [patient : BOOLEAN, faulty : BOOLEAN, offline : BOOLEAN]

\* Nothing goes wrong but that the user presses a second button during a load.
HastyUser == {[patient |-> FALSE, faulty |-> FALSE, offline |-> FALSE]}

=============================================================================
