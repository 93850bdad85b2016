------------------------------ MODULE MCStartup ------------------------------
EXTENDS Startup, TLC

CONSTANTS d1, r1, r2, a1, a2, b1, w1

OneDoc == {d1}
TwoRows == {r1, r2}
OneOwner == [r \in Rows |-> d1]
OneApi == {a1}
TwoApis == {a1, a2}
OneBinary == {b1}
OneWriter == {w1}
AllSessions == {a1, a2, b1, w1}
AllFaults == {"crash", "db", "connection"}
=============================================================================
