------------------------------ MODULE MCMemory ------------------------------
EXTENDS MemoryProperties

CONSTANTS a, b, r1, r2, r3, w1, w2, f1, f2

\* r1 and r2 survey the same snapshot, r3 a later one.
Surveys == [r \in Runs |-> IF r = r3 THEN b ELSE a]
\* w1 sends two requests.
Patience == [w \in Reviewers |-> IF w = w1 THEN 2 ELSE 1]

\* Two roots, found together, or one after the other.
Together == {{f1, f2}}
InTurn == {{f1}, {f1, f2}}
=============================================================================
