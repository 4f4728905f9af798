---------------------------- MODULE ModelGateway ----------------------------
(* One structured model call per caller (agent/runtime/model_gateway.py,    *)
(* generate_structured): attempts with retries and back-off, one repair of  *)
(* an invalid answer, one fallback profile. A call never raises: whatever   *)
(* happens it returns a result, cancellation and an empty budget included.  *)
EXTENDS RunBudget

CONSTANTS Callers,          \* agents that call models, one call at a time
          Ledger,           \* caller -> the ledger its context shares
          MaxRetries,       \* ModelProfile.max_retries
          RepairEnabled,    \* STRUCTURED_OUTPUT_REPAIR_ENABLED
          WithFallback,     \* callers whose requests name another fallback_profile
          Estimate,         \* tokens reserved for one attempt
          Actual            \* tokens an answer may really cost

ASSUME GatewayAssumption ==
  /\ Ledger \in [Callers -> Ledgers]
  /\ MaxRetries \in Nat
  /\ RepairEnabled \in BOOLEAN /\ WithFallback \subseteq Callers
  /\ Estimate \in Nat /\ Actual \subseteq Nat

VARIABLES model,     \* caller -> its model call
          stopped,   \* ledgers (run contexts) whose cancellation token is set
          warned     \* run contexts with a runtime_event_sink_unavailable warning

gatewayVars == <<model, stopped, warned>>

Phase == {"first", "repair", "fallback"}
ModelCall ==
  [st: {"idle", "ready", "asked", "backoff", "done"}, phase: Phase,
   attempt: 0..MaxRetries + 1,
   result: {"none", "success", "degraded", "cancelled", "error"}]

NoCall == [st |-> "idle", phase |-> "first", attempt |-> 0, result |-> "none"]

GatewayInit ==
  /\ model = [c \in Callers |-> NoCall]
  /\ stopped = {} /\ warned = {}

\* The call with its first attempt due.
Called == [NoCall EXCEPT !.st = "ready"]

Ended(c, result) ==
  model' = [model EXCEPT ![c].st = "done", ![c].result = result]

\* A phase that produced nothing is followed by the next one; after the last
\* the invalid answer of the first phase is the error of the call. An error
\* of the first phase itself ends the call: only an invalid answer is
\* repaired or asked of the fallback profile.
NextPhase(c, first) ==
  LET go(p) == model' = [model EXCEPT ![c] = [Called EXCEPT !.phase = p]] IN
  IF model[c].phase = "fallback" \/ (model[c].phase = "first" /\ first = "error")
  THEN Ended(c, "error")
  ELSE IF model[c].phase = "first" /\ RepairEnabled THEN go("repair")
  ELSE IF c \in WithFallback THEN go("fallback") ELSE Ended(c, "error")

\* The event sink is out of order when a call emits something: the context
\* carries a warning from then on.
SinkFails(c) ==
  /\ Ledger[c] \notin warned
  /\ warned' = warned \cup {Ledger[c]}
  /\ UNCHANGED <<model, stopped, budgetVars>>

\* A profile that is unavailable, a prompt or a schema that does not match.
Misconfigured(c) ==
  /\ model[c].st = "ready" /\ model[c].attempt = 0 /\ model[c].phase # "repair"
  /\ model[c].phase = "first" => Ledger[c] \notin stopped
  /\ Ended(c, "error")
  /\ UNCHANGED <<warned, stopped, budgetVars>>

\* _invoke, up to the provider: cancellation, reservation, request.
Send(c) ==
  LET l == Ledger[c] IN
  /\ model[c].st = "ready"
  /\ IF l \in stopped
     THEN Ended(c, "cancelled") /\ UNCHANGED usage
     ELSE IF ModelFits(l, Estimate)
     THEN /\ ReserveModel(l, Estimate)
          /\ model' = [model EXCEPT ![c].st = "asked", ![c].attempt = @ + 1]
     ELSE NextPhase(c, "error") /\ UNCHANGED usage
  /\ UNCHANGED <<warned, stopped, late>>

\* The answer of a fallback profile, of a profile that lacks a capability and
\* of a context with a warning is a degraded one.
Completed(c, lacking) ==
  Ended(c, IF model[c].phase = "fallback" \/ Ledger[c] \in warned
              \/ lacking
           THEN "degraded" ELSE "success")

\* A defect to test with: the answer is settled whatever it cost.
AnswerUnsettled(c) == \E actual \in Actual, valid, lacking \in BOOLEAN:
  LET l == Ledger[c] IN
  /\ model[c].st = "asked"
  /\ SettleModel(l, Estimate, actual)
  /\ IF valid THEN Completed(c, lacking) ELSE NextPhase(c, "invalid")
  /\ UNCHANGED <<warned, stopped, late>>

\* The provider answers in time; the answer is settled, then parsed.
Answer(c) == \E actual \in Actual, valid, lacking \in BOOLEAN:
  LET l == Ledger[c] IN
  /\ model[c].st = "asked"
  /\ IF ~AnswerFits(l, Estimate, actual)
     THEN NextPhase(c, "error") /\ UNCHANGED usage
     ELSE /\ SettleModel(l, Estimate, actual)
          /\ IF valid THEN Completed(c, lacking) ELSE NextPhase(c, "invalid")
  /\ UNCHANGED <<warned, stopped, late>>

\* The provider times out or fails. What was reserved stays counted.
ProviderFails(c) == \E retryable \in BOOLEAN:
  /\ model[c].st = "asked"
  /\ IF retryable /\ model[c].attempt < MaxRetries + 1
     THEN model' = [model EXCEPT ![c].st = "backoff"]
     ELSE NextPhase(c, "error")
  /\ UNCHANGED <<warned, stopped, budgetVars>>

WakesUp(c) ==
  /\ model[c].st = "backoff"
  /\ model' = [model EXCEPT ![c].st = "ready"]
  /\ UNCHANGED <<stopped, warned, budgetVars>>

\* The task of the call is cancelled while it waits (a stage's time is up):
\* the gateway turns even that into a result.
TaskCancelled(c) ==
  /\ model[c].st \in {"asked", "backoff"}
  /\ Ended(c, "cancelled")
  /\ UNCHANGED <<warned, stopped, budgetVars>>

GatewayStep(c) ==
  \/ Misconfigured(c)
  \/ Send(c)
  \/ Answer(c)
  \/ ProviderFails(c)
  \/ WakesUp(c)
=============================================================================
