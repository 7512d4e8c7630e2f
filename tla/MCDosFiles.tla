----------------------------- MODULE MCDosFiles -----------------------------
EXTENDS FileSearch

MCMounted == <<[name |-> "a", data |-> <<0>>], [name |-> "b", data |-> <<1>>]>>
MCChunks == {<<1>>, <<1, 1>>}

=============================================================================
