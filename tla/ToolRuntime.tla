----------------------------- MODULE ToolRuntime -----------------------------
(* One tool call per caller (agent/runtime/tool_runtime.py, execute):       *)
(* authorisation, validation, attempts under the budget, time-outs, large   *)
(* results put into the artifact store. A call never raises.                *)
EXTENDS ModelGateway

CONSTANTS Enforced     \* TOOL_RUNTIME_ENFORCEMENT is "enforce", not "observe"

ASSUME ToolAssumption == Enforced \in BOOLEAN

VARIABLES tool         \* caller -> its tool call

ToolSpec(effect, idempotent, retries, policy, ready) ==
  [effect |-> effect, idempotent |-> idempotent, retries |-> retries,
   policy |-> policy, ready |-> ready]

\* The specification of the catalog and evidence queries.
ReadOnly == ToolSpec("read", TRUE, 1, "never", TRUE)

Requests == [spec: {ReadOnly}, allowed: BOOLEAN, approved: {FALSE}, operation: {FALSE}]

\* Why a call may not run; legacy calls skip the first two tests.
Denied(q, legacy) ==
  \/ ~legacy /\ (~q.spec.ready \/ ~q.allowed)
  \/ q.spec.effect \in {"write", "ddl"} /\ ~(q.approved /\ q.operation)
  \/ q.spec.policy = "always" /\ ~q.approved
  \/ q.spec.policy = "conditional" /\ q.spec.effect # "none" /\ ~q.approved

Attempts(spec) ==
  IF spec.idempotent /\ spec.effect \in {"none", "read"} THEN spec.retries + 1 ELSE 1

ToolCall ==
  [st: {"idle", "ready", "running", "storing", "backoff", "done"}, attempt: 0..2,
   result: {"none", "success", "error", "cancelled"},
   data: {"none", "whole", "summary"}]

NoTool == [st |-> "idle", attempt |-> 0, result |-> "none", data |-> "none"]

ToolInit == tool = [c \in Callers |-> NoTool]

ToolEnded(c, result, data) ==
  tool' = [tool EXCEPT ![c].st = "done", ![c].result = result, ![c].data = data]

toolFrame == <<model, stopped>>

\* Identity, lookup, authorisation and validation of the arguments.
Refuse(c) == \E q \in Requests, valid \in BOOLEAN:
  /\ tool[c].st = "ready" /\ tool[c].attempt = 0
  /\ Ledger[c] \notin stopped
  /\ \/ ~valid
     \/ Denied(q, FALSE) /\ (Enforced \/ q.spec.effect \in {"write", "ddl"})
  /\ ToolEnded(c, "error", "none")
  /\ UNCHANGED <<warned, toolFrame, budgetVars>>

\* One attempt starts: cancellation, then the budget, then the executor.
Invoke(c) ==
  LET l == Ledger[c] IN
  /\ tool[c].st = "ready"
  /\ IF l \in stopped
     THEN ToolEnded(c, "cancelled", "none") /\ UNCHANGED usage
     ELSE IF ~ToolFits(l)
     THEN ToolEnded(c, "error", "none") /\ UNCHANGED usage
     ELSE /\ ReserveTool(l)
          /\ tool' = [tool EXCEPT ![c].st = "running", ![c].attempt = @ + 1]
  /\ UNCHANGED <<warned, toolFrame, late>>

\* The executor returns: an output its model does not accept is an error at
\* once; a large output goes to the artifact store and the caller gets a
\* summary in its place.
Returns(c) == \E output \in {"invalid", "small", "large"}:
  /\ tool[c].st = "running"
  /\ CASE output = "invalid" -> ToolEnded(c, "error", "none")
       [] output = "small" -> ToolEnded(c, "success", "whole")
       [] output = "large" -> tool' = [tool EXCEPT ![c].st = "storing"]
  /\ UNCHANGED <<warned, toolFrame, budgetVars>>

Stores(c) ==
  /\ tool[c].st = "storing"
  /\ ToolEnded(c, "success", "summary")
  /\ UNCHANGED <<warned, toolFrame, budgetVars>>

\* The executor raises or its time is up, or the artifact store raises: the
\* next attempt starts after a pause, while there is one.
Fails(c) ==
  /\ tool[c].st \in {"running", "storing"}
  /\ IF tool[c].attempt < Attempts(ReadOnly)
     THEN tool' = [tool EXCEPT ![c].st = "backoff"]
     ELSE ToolEnded(c, "error", "none")
  /\ UNCHANGED <<warned, toolFrame, budgetVars>>

Again(c) ==
  /\ tool[c].st = "backoff"
  /\ tool' = [tool EXCEPT ![c].st = "ready"]
  /\ UNCHANGED <<toolFrame, warned, budgetVars>>

ToolStep(c) ==
  \/ Refuse(c)
  \/ Invoke(c)
  \/ Returns(c)
  \/ Stores(c)
  \/ Fails(c)
  \/ Again(c)
=============================================================================
