-------------------------------- MODULE MCChat --------------------------------
EXTENDS ChatSession, TLC

CONSTANTS d1, d2, s1, s2

TwoDocs == {d1, d2}
TwoSlots == {s1, s2}

Symmetry == Permutations(TwoDocs) \cup Permutations(TwoSlots)
=============================================================================
