------------------------------- MODULE MCDba -------------------------------
(***************************************************************************)
(* Instances of DbaProperties for TLC.                                     *)
(***************************************************************************)
EXTENDS DbaProperties, TLC

CONSTANTS alice, bob, carol, k1, k2, x1, x2

People == {alice, bob, carol}
Offices == alice :> {"analyst"} @@ bob :> {"dba_approver", "admin"}
           @@ carol :> {"security_approver"}

CreateTable == [kind |-> "CREATE", protected |-> FALSE, env |-> "dev"]
DropInProduction == [kind |-> "DROP", protected |-> FALSE, env |-> "production"]

OnePlan == {CreateTable}
SomePlans == {CreateTable, DropInProduction}
TwoCallers == {k1, k2}
TwoExecutors == {x1, x2}
Interchangeable == Permutations(TwoCallers) \cup Permutations(TwoExecutors)
=============================================================================
