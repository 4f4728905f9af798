---------------------------- MODULE LegacyAnalysis ----------------------------
(* One analysis of the legacy engines: the orchestrator's own loop           *)
(* (agent/orchestrator.py) or the LangGraph of worker nodes (langgraph/),    *)
(* from the request to the run record, with the three places that keep its   *)
(* outcome: memory, the monitor's database and the in-process run store.     *)
EXTENDS Integers, FiniteSets

CONSTANTS Verdicts,    \* worker -> what its hybrid stage may say
          Engines,     \* engines a process may be configured for
          MaxCrashes   \* bound on restarts of the process

Required == {"survey", "column", "name", "code", "merge"}
Workers == Required \cup {"orm"}
WorkerStatus == {"success", "partial", "degraded", "blocked", "error", "cancelled"}
Kept == {"success", "partial", "degraded"}
Priority == [completed |-> 0, partial |-> 1, degraded |-> 2, blocked |-> 3, failed |-> 4,
             canceled |-> 5]
RunStatus == DOMAIN Priority
Good == {"completed", "partial", "degraded"}

ASSUME LegacyAssumption ==
  /\ Verdicts \in [Workers -> SUBSET WorkerStatus] /\ MaxCrashes \in Nat
  /\ Engines \subseteq {"manual", "graph"}

VARIABLES request,  \* "none", "call" (POST /api/analyze) or "stream"
          engine,   \* what runs it
          at,       \* where the handler is
          steps,    \* worker -> status of its step
          status,   \* the final status, as far as it is known
          memory,   \* what of the result is in schema memory
          record,   \* status in the monitor's database
          store,    \* the run's row in the run store
          crashes

serverVars == <<request, engine, at, steps, status, memory, record, store, crashes>>

NoRow == [status |-> "none", result |-> FALSE]
LegacyInit ==
  /\ request = "none" /\ engine = "manual" /\ at = "idle" /\ crashes = 0
  /\ steps = [w \in Workers |-> "none"] /\ status = "running"
  /\ memory = "none" /\ record = "none" /\ store = NoRow

\* ------------------------------------------------------------------ statuses
Canonical(s) ==
  CASE s = "success" -> "completed" [] s = "error" -> "failed" [] s = "cancelled" -> "canceled"
    [] OTHER -> s
Combined(S) == CHOOSE s \in S: \A t \in S: Priority[t] <= Priority[s]

\* reduce_run_status of the required steps and of the ORM step.
Reduced ==
  LET required == {steps[w]: w \in Required}
      all == required \cup {steps["orm"]} IN
  IF "none" \in required THEN "failed"
  ELSE IF "cancelled" \in all THEN "canceled"
  ELSE IF "error" \in required THEN "failed"
  ELSE IF "blocked" \in required THEN "blocked"
  ELSE IF "degraded" \in all THEN "degraded"
  ELSE IF "partial" \in all \/ steps["orm"] \in {"error", "blocked"} THEN "partial"
  ELSE "completed"
\* The graph also folds the status of every worker into its state.
Folded == {Canonical(steps[w]): w \in {v \in Workers: steps[v] \in WorkerStatus}}
Outcome == IF engine = "manual" THEN Reduced ELSE Combined({Reduced} \cup Folded)

\* ------------------------------------------------------------------- workers
\* A stage that fails is replaced by the legacy worker, whatever that one finds
\* is called degraded; the step is an error only when the worker raises.
Fallback == {"degraded", "error"}
\* The legacy merge raises in the graph, whose state has a null for a result
\* that is missing; the orchestrator's context has no key.
MergeFallback ==
  IF engine = "graph" /\ \E w \in {"column", "name", "code"}: steps[w] \notin Kept
    THEN {"error"} ELSE Fallback
MayEnd(w) ==
  (Verdicts[w] \ {"error"})
    \cup (IF "error" \notin Verdicts[w] THEN {} ELSE IF w = "merge" THEN MergeFallback ELSE Fallback)

\* What has to be over before a worker starts.
Before(w) ==
  CASE w = "survey" -> {}
    [] w = "column" -> {"survey"}
    [] w = "name" -> {IF engine = "manual" THEN "column" ELSE "survey"}
    [] w = "code" -> {"column", "name"}
    [] w = "orm" -> {"code"}
    [] w = "merge" -> {"orm"}
\* Without a survey there is nothing to analyze. The orchestrator goes on after
\* any survey but an error; route_after_survey asks for its result.
SurveyFailed ==
  steps["survey"] \in (IF engine = "manual" THEN {"error"} ELSE WorkerStatus \ Kept)
Ready(w) == /\ at = "working" /\ steps[w] = "none" /\ ~SurveyFailed
            /\ \A b \in Before(w): steps[b] # "none"

Begin(how, which) ==
  /\ request = "none" /\ at = "idle"
  /\ request' = how /\ engine' = which /\ at' = "working"
  /\ store' = [status |-> "running", result |-> FALSE]
  /\ UNCHANGED <<steps, status, memory, record, crashes>>

Work(w) ==
  /\ Ready(w)
  /\ \E s \in MayEnd(w): steps' = [steps EXCEPT ![w] = s]
  /\ UNCHANGED <<request, engine, at, status, memory, record, store, crashes>>

SkipOrm ==
  /\ Ready("orm") /\ steps' = [steps EXCEPT !["orm"] = "skipped"]
  /\ UNCHANGED <<request, engine, at, status, memory, record, store, crashes>>

\* ------------------------------------------------------------------- outcome
Over == SurveyFailed \/ steps["merge"] # "none"

Reduce ==
  /\ at = "working" /\ Over
  /\ status' = Outcome /\ at' = "remember"
  /\ UNCHANGED <<request, engine, steps, memory, record, store, crashes>>

\* The graph raises: the steps so far and a failed run are recorded.
Break ==
  /\ engine = "graph" /\ at = "working" /\ ~Over
  /\ status' = "failed" /\ at' = "remember"
  /\ UNCHANGED <<request, engine, steps, memory, record, store, crashes>>

Worth == steps["merge"] \in Kept /\ status \in Good
\* Relations and history are saved by two transactions, the first of which may
\* be all that happens; then the run is partial at best.
\* A bug to look for: the status does not say that memory failed.
RememberQuietly ==
  /\ at = "remember" /\ at' = "record"
  /\ IF Worth THEN memory' \in {"none", "relations", "history"} ELSE UNCHANGED memory
  /\ UNCHANGED <<request, engine, steps, status, record, store, crashes>>
Remember ==
  /\ at = "remember" /\ at' = "record"
  /\ IF Worth
       THEN /\ memory' \in {"none", "relations", "history"}
            /\ status' = IF memory' = "history" THEN status ELSE Combined({status, "partial"})
       ELSE UNCHANGED <<memory, status>>
  /\ UNCHANGED <<request, engine, steps, record, store, crashes>>

\* A bug to look for: the merge's own word for its status is recorded.
RecordRaw ==
  /\ at = "record" /\ at' = "complete" /\ record' = steps["merge"]
  /\ UNCHANGED <<request, engine, steps, status, memory, store, crashes>>
Record ==
  /\ at = "record" /\ at' = "complete"
  /\ \/ record' = status /\ UNCHANGED status
     \/ status' = Combined({status, "partial"}) /\ UNCHANGED record
  /\ UNCHANGED <<request, engine, steps, memory, store, crashes>>

\* The orchestrator raises on an ending that needs an error where no required
\* step has one: a blocked or cancelled worker gives none.
Explained == status \in Good \/ \E w \in Required: steps[w] = "error"
\* A bug to look for: the run store gets the status that memory and record had.
CompleteReduced ==
  /\ at = "complete" /\ at' = "done" /\ store' = [status |-> Outcome, result |-> TRUE]
  /\ UNCHANGED <<request, engine, steps, status, memory, record, crashes>>
Complete ==
  /\ at = "complete"
  /\ IF engine = "manual" /\ ~Explained
       THEN at' = "raised" /\ UNCHANGED store
       ELSE at' = "done" /\ store' = [status |-> status, result |-> TRUE]
  /\ UNCHANGED <<request, engine, steps, status, memory, record, crashes>>

\* The process dies: the run store is in its memory.
Crash ==
  /\ crashes < MaxCrashes /\ crashes' = crashes + 1
  /\ store' = NoRow /\ at' = IF at \in {"idle", "done", "raised"} THEN at ELSE "gone"
  /\ UNCHANGED <<request, engine, steps, status, memory, record>>
=============================================================================
