------------------------------- MODULE MCChat -------------------------------
EXTENDS ChatProperties, TLC

CONSTANTS r1, c1, t1, f1

OwnLedger == [r \in Callers |-> r]
Costs == {2}
=============================================================================
