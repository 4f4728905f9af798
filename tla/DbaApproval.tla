---------------------------- MODULE DbaApproval ----------------------------
(***************************************************************************)
(* What the approval protocol promises for planned schema changes: a change *)
(* reaches the database at most once, only through an operation that every *)
(* required role has voted for, and a refused operation stays refused.     *)
(***************************************************************************)
EXTENDS Naturals

CONSTANTS
  Operation,
  Role,                      \* the roles a vote can stand for
  Statement                  \* what an operation does to the database

VARIABLES
  phase,                     \* where each operation stands
  needs,                     \* the roles whose vote it needs
  does,                      \* its statement
  votes,                     \* the roles that have voted for it
  applied                    \* how often a statement was applied

vars == <<phase, needs, does, votes, applied>>

Init ==
  /\ phase = [o \in Operation |-> "none"]
  /\ needs \in [Operation -> SUBSET Role]
  /\ does \in [Operation -> Statement]
  /\ votes = [o \in Operation |-> {}]
  /\ applied = [s \in Statement |-> 0]

(* A plan is put up for approval or refused at once. *)
Plan(o) ==
  /\ phase[o] = "none"
  /\ \E p \in {"waiting", "refused"} : phase' = [phase EXCEPT ![o] = p]
  /\ \E n \in (SUBSET Role) \ {{}} : needs' = [needs EXCEPT ![o] = n]
  /\ \E s \in Statement : does' = [does EXCEPT ![o] = s]
  /\ UNCHANGED <<votes, applied>>

Vote(o) ==
  /\ phase[o] # "none"
  /\ \E r \in needs[o] : votes' = [votes EXCEPT ![o] = @ \cup {r}]
  /\ UNCHANGED <<phase, needs, does, applied>>

Move(o, from, to) ==
  /\ phase[o] = from
  /\ phase' = [phase EXCEPT ![o] = to]
  /\ UNCHANGED <<needs, does, votes, applied>>

Refuse(o) == Move(o, "waiting", "refused")
Grant(o) == needs[o] \subseteq votes[o] /\ Move(o, "waiting", "granted")
Begin(o) == Move(o, "granted", "executing")
Finish(o) == Move(o, "executing", "over")

Apply(o) ==
  /\ phase[o] = "executing"
  /\ applied[does[o]] = 0
  /\ applied' = [applied EXCEPT ![does[o]] = 1]
  /\ UNCHANGED <<phase, needs, does, votes>>

Next == \E o \in Operation :
  \/ Plan(o) \/ Vote(o) \/ Refuse(o) \/ Grant(o) \/ Begin(o) \/ Apply(o) \/ Finish(o)

Spec == Init /\ [][Next]_vars
=============================================================================
