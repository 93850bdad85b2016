-------------------------------- MODULE MCHub --------------------------------
EXTENDS StatusHub

CONSTANTS d1, d2, c1, c2

OneDoc == {d1}
TwoDocs == {d1, d2}
TwoSockets == {c1, c2}
=============================================================================
