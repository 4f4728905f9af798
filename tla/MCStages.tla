------------------------------ MODULE MCStages ------------------------------
EXTENDS StageProperties, TLC

CONSTANTS s1, s2, c1, c2, run

OneLedger == [s \in Callers |-> run]
Costs == {1, 3}
=============================================================================
