--------------------------- MODULE DbaProperties ---------------------------
(***************************************************************************)
(* What the approval and execution of schema changes must guarantee.       *)
(***************************************************************************)
EXTENDS DbaOperations

(* Every variable keeps to its domain. *)
TypeOK ==
  /\ op \in [Operation -> [status : OpStatus, plan : Plans, by : Actor]]
  /\ decisions \subseteq Decision
  /\ attempt \in [Plans -> [op : Operation,
                            st : {"none", "executing", "executed", "failed", "uncertain"}]]
  /\ pc \in [Caller -> {"idle", "expire", "append", "refuse", "count", "grant"}]
  /\ asks \in [Caller -> Decision]
  /\ xpc \in [Executor -> {"idle", "begin", "record", "call", "failed", "uncertain",
                           "close_failed", "close_uncertain", "executed", "verify",
                           "complete"}]
  /\ xop \in [Executor -> Operation]
  /\ lapsed \subseteq Operation
  /\ acked \subseteq Operation
  /\ applied \in [Plans -> Nat]
  /\ calls \in Nat /\ crashes \in Nat

(* An operation has gone past its approval. *)
Past(o) == op[o].status \in {"approved", "executing"} \cup Over

(* Every role its plan requires has approved it, by an actor who holds the *)
(* role and did not ask for it.                                            *)
Granted(o) ==
  \A r \in Required(op[o].plan) :
    \E d \in decisions : /\ d.op = o /\ d.verdict = "approve" /\ d.role = r
                         /\ r \in Holds[d.actor] /\ d.actor # op[o].by

(* Separation of duties: nothing is approved, and nothing is executed,     *)
(* without the approval of every required role by somebody else, and never *)
(* a plan the policy denies, however decisions, retries and crashes mix.   *)
OnlyGranted == \A o \in Operation : Past(o) =>
  Granted(o) /\ ~Denied(op[o].plan, op[o].by)

(* The database sees a plan at most once, whichever operations ask for it, *)
(* and only when one of them was granted.                                  *)
AppliedOnce == \A p \in Plans :
  /\ applied[p] <= 1
  /\ applied[p] = 1 => \E o \in Operation :
       /\ op[o].plan = p /\ Granted(o)
       /\ op[o].status \in {"executing"} \cup Over

Told(o) == LET p == op[o].plan IN
  /\ op[o].status \in {"executed", "succeeded", "executed_verification_failed"} =>
       applied[p] = 1 /\ attempt[p].op = o /\ attempt[p].st \in {"executing", "executed"}
  /\ op[o].status = "execution_failed" =>
       applied[p] = 0 /\ attempt[p] = [op |-> o, st |-> "failed"]
  /\ op[o].status = "uncertain" => attempt[p] = [op |-> o, st |-> "uncertain"]

(* The status tells what happened to the database: what is said to have    *)
(* been executed was applied by this operation's own attempt, what is said *)
(* to have failed was not, and its attempt says the same.                  *)
OutcomeIsTold == \A o \in Operation : Told(o)

(* A request decides once, even when it is delivered twice at a time.      *)
OneDecisionPerRequest ==
  \A d, e \in decisions : d.op = e.op /\ d.req = e.req => d = e

(* The operations implement the approval protocol. *)
Phase(s) ==
  CASE s = "none" -> "none"
    [] s = "awaiting_approval" -> "waiting"
    [] s = "approved" -> "granted"
    [] s = "executing" -> "executing"
    [] s \in Refused -> "refused"
    [] s \in Over -> "over"
Approval == INSTANCE DbaApproval
  WITH Statement <- Plans,
       phase <- [o \in Operation |-> Phase(op[o].status)],
       needs <- [o \in Operation |-> Required(op[o].plan)],
       does <- [o \in Operation |-> op[o].plan],
       votes <- [o \in Operation |-> Approvals(o)]
ApprovalSpec == Approval!Spec

-----------------------------------------------------------------------------
(* A rejection that was answered with success has refused the operation,   *)
(* or the call that will refuse it is still under way.                     *)
AckedRejectionRefuses ==
  \A o \in acked : \/ op[o].status \in Refused
                    \/ \E c \in Caller : pc[c] = "refuse" /\ asks[c].op = o

(* An operation that says executing has an attempt of its own, or an       *)
(* executor about to make one.                                             *)
ExecutingIsAttempted ==
  \A o \in Operation : op[o].status = "executing" =>
    \/ attempt[op[o].plan].op = o /\ attempt[op[o].plan].st # "none"
    \/ \E x \in Executor : xpc[x] = "record" /\ xop[x] = o
=============================================================================
