--------------------------- MODULE DbaOperations ---------------------------
(***************************************************************************)
(* Planned schema changes (agent/dba): service.py plans, approves and      *)
(* executes them over the tables of operation_store.py.  Every action is   *)
(* one transaction of the store or one call of the privileged adapter, so  *)
(* that any number of requests, threads or processes may interleave and    *)
(* die between two of them.  A version is never changed after version 1,    *)
(* and a wrong hash or version only raises: both are left out.             *)
(***************************************************************************)
EXTENDS Naturals, FiniteSets

CONSTANTS
  Operation, RequestId,      \* client requests carry an id and may repeat it
  Actor,
  Holds,                     \* the roles an actor holds
  ProductionPlanner,         \* the actors who may plan in production
  Plans,                     \* what may be asked for; its hash is the key
  Caller, Executor,          \* calls of resolve and of execute_approved
  MaxCalls, MaxCrashes       \* bounds of an instance: calls of resolve, and deaths

Role == {"dba_approver", "security_approver"}
PlanRole == {"analyst", "dba_approver", "admin"}
Plan == [kind : {"CREATE", "ALTER", "DROP"}, protected : BOOLEAN,
         env : {"dev", "production"}]

ASSUME DbaAssumption ==
  /\ Plans \subseteq Plan /\ Plans # {}
  /\ Holds \in [Actor -> SUBSET (Role \cup PlanRole)]
  /\ Actor # {} /\ Operation # {} /\ RequestId # {}
  /\ ProductionPlanner \subseteq Actor
  /\ MaxCalls \in Nat /\ MaxCrashes \in Nat

VARIABLES
  op,                        \* dba_operations
  decisions,                 \* dba_approval_decisions
  attempt,                   \* dba_execution_attempts, by idempotency key
  pc, asks,                  \* the calls of resolve and what they ask for
  xpc, xop,                  \* the calls of execute_approved
  lapsed,                    \* operations past expires_at
  acked,                     \* history: whose rejection a caller was told is done
  applied,                   \* history: how often the adapter applied a plan
  calls, crashes

tables == <<op, decisions, attempt>>
resolving == <<pc, asks>>
executing == <<xpc, xop>>
vars == <<tables, resolving, executing, lapsed, acked, applied, calls, crashes>>

-----------------------------------------------------------------------------
(* policy.py *)

(* The risk of a plan's gravest statement ... *)
BaseRisk(p) ==
  CASE p.kind = "DROP"   -> IF p.env = "production" THEN "critical" ELSE "high"
    [] p.kind = "ALTER"  -> IF p.env = "production" THEN "high" ELSE "medium"
    [] p.kind = "CREATE" -> IF p.protected THEN "critical" ELSE "low"

(* ... one level up, because no provider offers a dry run. *)
Risk(p) ==
  [low |-> "medium", medium |-> "high", high |-> "critical",
   critical |-> "critical"][BaseRisk(p)]

(* mutant: a role nobody can sign for *)
RequiredByAdmin(p) == {"dba_approver", "admin"}

Required(p) ==
  {"dba_approver"} \cup (IF Risk(p) = "critical" THEN {"security_approver"} ELSE {})

Denied(p, a) == p.protected \/ (p.env = "production" /\ a \notin ProductionPlanner)

-----------------------------------------------------------------------------
(* contracts.py and the rows *)

Refused == {"policy_blocked", "rejected", "superseded", "expired"}
Over == {"executed", "succeeded", "executed_verification_failed",
         "execution_failed", "uncertain"}
OpStatus == {"none", "awaiting_approval", "approved", "executing"} \cup Refused \cup Over
Verdict == {"approve", "reject", "request_changes"}
Decision == [op : Operation, req : RequestId, verdict : Verdict, actor : Actor,
             role : Role]
NoPlan == CHOOSE p \in Plans : TRUE
NoActor == CHOOSE a \in Actor : TRUE
NoOperation == CHOOSE o \in Operation : TRUE
NoAttempt == [op |-> NoOperation, st |-> "none"]
NoAsk == [op |-> NoOperation, req |-> CHOOSE q \in RequestId : TRUE,
          verdict |-> "approve", actor |-> NoActor, role |-> "dba_approver"]

Init ==
  /\ op = [o \in Operation |-> [status |-> "none", plan |-> NoPlan, by |-> NoActor]]
  /\ decisions = {}
  /\ attempt = [p \in Plans |-> NoAttempt]
  /\ pc = [c \in Caller |-> "idle"]
  /\ asks = [c \in Caller |-> NoAsk]
  /\ xpc = [x \in Executor |-> "idle"]
  /\ xop = [x \in Executor |-> NoOperation]
  /\ lapsed = {} /\ acked = {}
  /\ applied = [p \in Plans |-> 0]
  /\ calls = 0 /\ crashes = 0

(* mutant: the update does not test the status *)
TransitionBlind(o, from, to) ==
  /\ op[o].status # "none"
  /\ op' = [op EXCEPT ![o].status = to]

(* OperationStore.transition: it succeeds from the statuses given, and the *)
(* update itself tests the status again.                                   *)
Transition(o, from, to) ==
  /\ op[o].status \in from
  /\ op' = [op EXCEPT ![o].status = to]

Called == calls < MaxCalls /\ calls' = calls + 1
Goto(c, p) == pc' = [pc EXCEPT ![c] = p] /\ UNCHANGED asks
XGoto(x, p) == xpc' = [xpc EXCEPT ![x] = p] /\ UNCHANGED xop

(* A call ends: it returns, raises or dies. *)
Leave(c) == pc' = [pc EXCEPT ![c] = "idle"] /\ asks' = [asks EXCEPT ![c] = NoAsk]
XLeave(x) == xpc' = [xpc EXCEPT ![x] = "idle"] /\ xop' = [xop EXCEPT ![x] = NoOperation]

(* The caller is told its decision is done. *)
Acknowledge(d) ==
  acked' = IF d.verdict = "reject" THEN acked \cup {d.op} ELSE acked

-----------------------------------------------------------------------------
(* create_operation *)

Create(o) ==
  /\ op[o].status = "none"
  /\ \E p \in Plans, a \in {b \in Actor : Holds[b] \cap PlanRole # {}} :
       op' = [op EXCEPT ![o] =
                [status |-> IF Denied(p, a) THEN "policy_blocked" ELSE "awaiting_approval",
                 plan |-> p, by |-> a]]
  /\ UNCHANGED <<decisions, attempt, resolving, executing, lapsed, acked, applied,
                 calls, crashes>>

-----------------------------------------------------------------------------
(* resolve *)

(* mutant: a second delivery is not recognised *)
PriorNone(o, q) == {}

Prior(o, q) == {d \in decisions : d.op = o /\ d.req = q}

(* The checks of resolve.  A request that was seen before is answered with *)
(* the operation as it is.                                                 *)
Resolve(c) ==
  /\ pc[c] = "idle" /\ Called
  /\ \E o \in Operation, q \in RequestId, v \in Verdict, a \in Actor :
     /\ op[o].status # "none"
     /\ \/ /\ \E d \in Prior(o, q) : d.verdict = v /\ Acknowledge(d)
           /\ UNCHANGED resolving
        \/ /\ Prior(o, q) = {} /\ o \in lapsed
           /\ pc' = [pc EXCEPT ![c] = "expire"]
           /\ asks' = [asks EXCEPT ![c].op = o]
           /\ UNCHANGED acked
        \/ /\ Prior(o, q) = {} /\ o \notin lapsed /\ a # op[o].by
           /\ \E r \in Holds[a] \cap Required(op[o].plan) :
                asks' = [asks EXCEPT ![c] = [op |-> o, req |-> q, verdict |-> v,
                                             actor |-> a, role |-> r]]
           /\ pc' = [pc EXCEPT ![c] = "append"]
           /\ UNCHANGED acked
  /\ UNCHANGED <<tables, executing, lapsed, applied, crashes>>

Expire(c) ==
  /\ pc[c] = "expire"
  /\ \/ Transition(asks[c].op, {"awaiting_approval"}, "expired")
     \/ op[asks[c].op].status # "awaiting_approval" /\ UNCHANGED op
  /\ Leave(c)
  /\ UNCHANGED <<decisions, attempt, executing, lapsed, acked, applied, calls,
                 crashes>>

(* append_decision, unless the same request has got there first. *)
AppendDecision(c) ==
  /\ pc[c] = "append"
  /\ LET d == asks[c]
         prior == Prior(d.op, d.req)
     IN /\ decisions' = IF prior = {} THEN decisions \cup {d} ELSE decisions
        /\ \/ (\E e \in prior : e.verdict # d.verdict) /\ Leave(c)
           \/ /\ \A e \in prior : e.verdict = d.verdict
              /\ Goto(c, IF d.verdict = "approve" THEN "count" ELSE "refuse")
  /\ UNCHANGED <<op, attempt, executing, lapsed, acked, applied, calls, crashes>>

(* A rejection, or a request for changes, ends the operation.              *)
Refuse(c) ==
  /\ pc[c] = "refuse"
  /\ LET d == asks[c] IN
     \/ /\ Transition(d.op, {"awaiting_approval"},
                      IF d.verdict = "reject" THEN "rejected" ELSE "superseded")
        /\ Acknowledge(d)
     \/ /\ op[d.op].status # "awaiting_approval"
        /\ UNCHANGED <<op, acked>>
  /\ Leave(c)
  /\ UNCHANGED <<decisions, attempt, executing, lapsed, applied, calls, crashes>>

Approvals(o) == {d.role : d \in {e \in decisions : e.op = o /\ e.verdict = "approve"}}

(* mutant: any one of the approvals will do *)
EnoughAny(o) == Required(op[o].plan) \cap Approvals(o) # {}

Enough(o) == Required(op[o].plan) \subseteq Approvals(o)

(* Are all required roles on record? *)
Count(c) ==
  /\ pc[c] = "count"
  /\ \/ /\ Enough(asks[c].op)
        /\ Goto(c, "grant")
        /\ UNCHANGED acked
     \/ /\ ~Enough(asks[c].op)
        /\ Leave(c)
        /\ Acknowledge(asks[c])
  /\ UNCHANGED <<tables, executing, lapsed, applied, calls, crashes>>

Grant(c) ==
  /\ pc[c] = "grant"
  /\ \/ /\ Transition(asks[c].op, {"awaiting_approval"}, "approved")
        /\ Acknowledge(asks[c])
     \/ /\ op[asks[c].op].status # "awaiting_approval"
        /\ UNCHANGED <<op, acked>>
  /\ Leave(c)
  /\ UNCHANGED <<decisions, attempt, executing, lapsed, applied, calls, crashes>>

-----------------------------------------------------------------------------
(* execute_approved *)

Key(x) == op[xop[x]].plan
XRest == <<decisions, resolving, lapsed, acked, calls, crashes>>

(* The checks; the row is read once and not again. *)
Execute(x) ==
  /\ xpc[x] = "idle"
  /\ \E o \in Operation \ lapsed :
       /\ op[o].status = "approved"
       /\ xop' = [xop EXCEPT ![x] = o]
  /\ xpc' = [xpc EXCEPT ![x] = "begin"]
  /\ UNCHANGED <<tables, resolving, lapsed, acked, applied, calls, crashes>>

(* One of several executors wins the operation. *)
Begin(x) ==
  /\ xpc[x] = "begin"
  /\ \/ Transition(xop[x], {"approved"}, "executing") /\ XGoto(x, "record")
     \/ op[xop[x]].status # "approved" /\ UNCHANGED op /\ XLeave(x)
  /\ UNCHANGED <<attempt, applied, XRest>>

(* mutant: the attempt is keyed by its operation and never found *)
RecordByOperation(x) ==
  /\ xpc[x] = "record"
  /\ attempt' = [attempt EXCEPT ![Key(x)] = [op |-> xop[x], st |-> "executing"]]
  /\ XGoto(x, "call")
  /\ UNCHANGED <<op, applied, XRest>>

(* append_execution: the key is unique over all operations of a plan.      *)
Record(x) ==
  /\ xpc[x] = "record"
  /\ \/ /\ attempt[Key(x)].st = "none"
        /\ attempt' = [attempt EXCEPT ![Key(x)] = [op |-> xop[x], st |-> "executing"]]
        /\ XGoto(x, "call")
     \/ /\ attempt[Key(x)].st # "none"
        /\ XLeave(x)
        /\ UNCHANGED attempt
  /\ UNCHANGED <<op, applied, XRest>>

(* The adapter.  Whoever gets no clear answer cannot know whether the plan *)
(* was applied; an exception leaves row and attempt as they are.           *)
Call(x) ==
  /\ xpc[x] = "call"
  /\ \E answer \in {"success", "failed", "uncertain", "raised"} :
       /\ \/ answer = "raised" /\ XLeave(x)
          \/ answer = "success" /\ XGoto(x, "executed")
          \/ answer \in {"failed", "uncertain"} /\ XGoto(x, answer)
       /\ \E n \in (CASE answer = "success" -> {1} [] answer = "failed" -> {0}
                      [] OTHER -> {0, 1}) :
            applied' = [applied EXCEPT ![Key(x)] = @ + n]
  /\ UNCHANGED <<tables, XRest>>

(* mutant: the status is written before the attempt *)
NoteLate(x) ==
  /\ xpc[x] \in {"failed", "uncertain"}
  /\ Transition(xop[x], {"executing"},
                IF xpc[x] = "failed" THEN "execution_failed" ELSE "uncertain")
  /\ XLeave(x)
  /\ UNCHANGED <<attempt, applied, XRest>>

(* update_execution, for a failure or an uncertain outcome, ... *)
NoteFailure(x) ==
  /\ xpc[x] \in {"failed", "uncertain"}
  /\ attempt[Key(x)] = [op |-> xop[x], st |-> "executing"]
  /\ attempt' = [attempt EXCEPT ![Key(x)].st = xpc[x]]
  /\ XGoto(x, IF xpc[x] = "failed" THEN "close_failed" ELSE "close_uncertain")
  /\ UNCHANGED <<op, applied, XRest>>

(* ... then the status of the operation. *)
CloseFailure(x) ==
  /\ \/ xpc[x] = "close_failed" /\ Transition(xop[x], {"executing"}, "execution_failed")
     \/ xpc[x] = "close_uncertain" /\ Transition(xop[x], {"executing"}, "uncertain")
  /\ XLeave(x)
  /\ UNCHANGED <<attempt, applied, XRest>>

(* Success goes the other way round: the status first, the verification,   *)
(* the status again, the attempt last.                                     *)
MarkExecuted(x) ==
  /\ xpc[x] = "executed"
  /\ Transition(xop[x], {"executing"}, "executed")
  /\ XGoto(x, "verify")
  /\ UNCHANGED <<attempt, applied, XRest>>

(* verify, append_verification and the status that follows from it; the    *)
(* adapter may raise here, too.                                            *)
Verify(x) ==
  /\ xpc[x] = "verify"
  /\ \/ /\ \E s \in {"succeeded", "executed_verification_failed"} :
             Transition(xop[x], {"executed"}, s)
        /\ XGoto(x, "complete")
     \/ /\ XLeave(x)
        /\ UNCHANGED op
  /\ UNCHANGED <<attempt, applied, XRest>>

Complete(x) ==
  /\ xpc[x] = "complete"
  /\ attempt[Key(x)] = [op |-> xop[x], st |-> "executing"]
  /\ attempt' = [attempt EXCEPT ![Key(x)].st = "executed"]
  /\ XLeave(x)
  /\ UNCHANGED <<op, applied, XRest>>

-----------------------------------------------------------------------------
(* The world around it *)

Lapse(o) ==
  /\ op[o].status # "none" /\ o \notin lapsed
  /\ lapsed' = lapsed \cup {o}
  /\ UNCHANGED <<tables, resolving, executing, acked, applied, calls, crashes>>

(* A process dies in the middle of a call. *)
CrashResolve(c) ==
  /\ pc[c] # "idle" /\ crashes < MaxCrashes
  /\ Leave(c)
  /\ crashes' = crashes + 1
  /\ UNCHANGED <<tables, executing, lapsed, acked, applied, calls>>

CrashExecute(x) ==
  /\ xpc[x] # "idle" /\ crashes < MaxCrashes
  /\ XLeave(x)
  /\ crashes' = crashes + 1
  /\ UNCHANGED <<tables, resolving, lapsed, acked, applied, calls>>

ResolveStep(c) ==
  \/ Resolve(c) \/ Expire(c) \/ AppendDecision(c) \/ Refuse(c) \/ Count(c) \/ Grant(c)
  \/ CrashResolve(c)

ExecuteStep(x) ==
  \/ Execute(x) \/ Begin(x) \/ Record(x) \/ Call(x) \/ NoteFailure(x) \/ CloseFailure(x)
  \/ MarkExecuted(x) \/ Verify(x) \/ Complete(x) \/ CrashExecute(x)

Next ==
  \/ \E o \in Operation : Create(o) \/ Lapse(o)
  \/ \E c \in Caller : ResolveStep(c)
  \/ \E x \in Executor : ExecuteStep(x)

Spec == Init /\ [][Next]_vars
=============================================================================
