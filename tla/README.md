# Schema recovery agent: a TLA+ verification development

`schema-recovery-agent` recovers the schema of a database (tables, columns,
relations, a domain model) with a workflow of *stages*. A recovery **run** is a
row in a database. An HTTP request starts it, an engine drives it through
survey, a fan-out of parallel stages, a human review, a merge and a critic loop;
other requests review, cancel or watch it; the process may die at any point and
a second engine may take the run over. Around it stand a chat with a tool-using
agent, a protocol for approved schema changes, stores of evidence, relations and
memories that runs and reviewers write at the same time, and the earlier
("legacy") analysis with its streaming browser tab. What these parts have in
common is that several actors write the same rows and nothing but a version, a
unique key or one transaction keeps them apart. That is what a unit test reaches
least, and what this development is about.

Source paths below are relative to `src/backend/` unless they start with `src/`.

## 1. Inventory

### Components, state and operations

| Component | State it keeps | Operations | Correct when | Modelled in |
|---|---|---|---|---|
| Recovery run service (`services/recovery_run_service.py`, `api/run_routes.py`) | none of its own; the row, the controls, the event log | `create_run`, `execute`, `resume`, `cancel`, `_fail_execution`, `_block_incompatible`, `_settled_state` | a run always comes to rest; an answered cancellation has ended the run; a review counts once; the event stream tells the row's story | `RecoveryRun` |
| Workflow contracts (`workflow/state_machine.py`, `workflow/reducer.py`) | none (pure) | `transition`, `terminal_for`, `merge_patches`, `apply_patch` | terminal is final; "completed" hides nothing; the order in which parallel patches arrive does not matter | `RunStateMachine`, `RecoveryState` |
| Manual engine (`engines/manual.py`) | a copy of the row per call | `run`, `_run_group`, `_execute_stage`, `_commit`, `_pause_for_approval`, `_finish_stopped` | a node is replayed only where the row lacks it; a side effect happens once | `RecoveryEngine`, `HybridStages` |
| LangGraph engine (`engines/langgraph_engine.py`) | a copy of the row, the graph's checkpoint | one method per node, routes, `start`, `resume` | as above, and it leaves a row the manual engine can continue | `RecoveryEngine` |
| Takeover (`engines/fallback.py`, `engines/registry.py`) | `engine`, `fallback_count` of the row | `takeover` | happens at most once, between stages, with nobody else driving | `RecoveryRun` |
| Run repository, event log (`persistence/`) | tables: runs, controls, stage_executions, checkpoints, artifacts, events | `save` (compare and swap), `reserve_execution`, `complete_execution`, `append_control`, `append`, `replay` | no save overwrites a write it has not seen; one reservation per idempotency key | `RecoveryState` |
| Stage registry, adapters, collectors, reasoner, verifier (`agent/workers/hybrid_stage.py`, `agent/collectors/`, `agent/reasoners/`, `agent/verifiers/`) | an attempt per stage, a cancellation token | collect, reason, verify, write, report usage | a relation rests on evidence; the run's usage is counted; a status is honest | `HybridStages` |
| Critic, evidence policy (`agent/critics/`) | rounds in the row | review, authorise requests | the loop ends, what was asked for was collected | `RecoveryEngine` |
| DBA operations (`agent/dba/`) | operations, decisions, executions, verifications | create, resolve, execute_approved | no execution without the required approvals, at most once | `DbaOperations`, `DbaApproval` |
| Chat threads (`chat/`, `api/v2/threads.py`, `src/frontend/src/chat/store.ts`) | threads, chat runs, messages, events; the browser's cursor | start_run, execute, complete_run, request_cancel, poll | row, messages and events agree on one end; a follower sees it | `ChatRuns` |
| QA agent (`agent/qa/`) | a pipeline per chat run | plan, tools, facts, synthesis, verification | an answer cites only facts tools returned; it always comes to a result | `QaAgent` |
| Run budget (`agent/runtime/budget.py`) | used calls, tokens, cost | reserve, settle, restore | the limits hold with concurrent callers | `RunBudget` |
| Model gateway (`agent/runtime/model_gateway.py`) | attempts, phase | `generate_structured`: retry, repair, fallback | never raises; stops when told | `ModelGateway` |
| Tool runtime (`agent/runtime/tool_runtime.py`) | attempts | `execute` with retries and time-outs | a mutating tool is not retried; never raises | `ToolRuntime` |
| Evidence ledger (`evidence/ledger.py`, `evidence/repository.py`) | append-only rows | append | one content per identifier | `HybridStages` |
| Versioned relations, fusion, review (`evidence/`, `api/evidence_routes.py`) | evidence items, versions, feedback | append, fuse, judge | history is kept; a confirmed decision is about what was shown | `RelationVersions` |
| Agent memory (`agent/memory/`, `api/memory_routes.py`) | thread row, memory versions, global patterns, proposals | sync, retrieve, verify, consolidate, forget, promote, resolve | what is remembered was accepted; one answer per proposal | `RelationMemory`, `GlobalMemory` |
| Legacy orchestrator and graph (`agent/orchestrator.py`, `langgraph/`, `core/`) | steps, run record in three places | `run_full_analysis`, nodes, `_persist_and_record` | "completed" means all of it; the three records agree | `LegacyAnalysis` |
| Analysis stream and tab (`main.py`, `src/frontend/src/hooks/useAnalysis.ts`) | lines of a response, what the tab shows | stream, read, fetch | the user gets relations or an error, and the right ones | `AnalysisTab` |
| Evaluation (`eval_v2/`), DBA planning, MCP tools, parsers, snapshots, identity, tracing, simulation | see section 10 | | | not modelled |

### How they interact

* `POST /runs` creates the row and then *awaits* `execute` for the whole run.
  `execute` builds an engine, awaits it, reads the row again, and decides from
  what it reads: answer, take over, or fail the run.
* `POST /runs/{id}/resume` (a review) and `/cancel` are other requests. Each
  records a *control* under its request id, works on its own copy of the row, and
  acknowledges the control at the end. A client may retry with the same id.
* An engine keeps a copy of the row over many awaits and writes it back with
  `UPDATE ... WHERE version = ?`. A lost race raises `OptimisticLockError`.
* Parallel stages run as coroutines under `gather`. Each one reserves its
  idempotency key in `stage_executions`, works, and completes the reservation;
  their statuses and patches reach the row in one commit after the join.
* Inside, a stage collects facts with tools, asks a model through the gateway
  under the budget ledger it shares with its siblings, verifies what came back,
  and writes evidence and relations row by row. The merge stage fuses them into
  versions of relations, which reviewers judge at the same time, and the memory
  stages retrieve, verify and consolidate what earlier runs left.
* A chat post creates a row and a *background task*; the task drives the QA agent
  with tools and two model calls under a ledger of its own. The browser polls
  pages of events, and a cancellation reaches the task by a token, if it has one.
* A legacy analysis runs in a thread of the server and is called or streamed; a
  tab whose response breaks asks once for the stored run.
* On one event loop a step between two awaits is atomic. The shipped image
  (`src/backend/Dockerfile`) starts one uvicorn process; the database, though, is
  shared and versioned as if there were several, so both cases are modelled
  for recovery runs.

### What is hard

Interleavings of engine, reviewers and cancel requests at every await; stale
copies and stale reads after an await; crashes between a reservation, its
completion and the commit of its result, or between two transactions of one
request; retries of half-done requests; an engine that fails in the middle of a
node another engine then replays; loops bounded in two places; several writers of
one terminal event; parallel callers of one budget at its limit; a time-out the
called code swallows; versions that runs and reviewers append to one relation;
a response that ends at any line. `PROJECT.json` lists each at its line with the
properties that watch it, and says of the five without a property why.

## 2. Plan and what is left of it

The plan was worked off in this order; each step is a module group with its
properties, its instance for TLC and its proofs.

1. Recovery run: row, engines, service, takeover, crashes; the abstract life
   cycle and its refinement (sections 3 to 5).
2. Planned schema changes with the abstract approval protocol (section 6).
3. The runtime: budget, gateway, tools; the chat with its agent and browser on top
   of them (section 7).
4. Hybrid stages over the same runtime, with evidence (section 7).
5. Relations and memories written by runs and reviewers (section 8).
6. The legacy analysis with its tab (section 8).

Every safety property that a run checks is also a theorem. Left for later: the
evaluation service, whose row is versioned like those that are modelled; a
second chat run and a second browser at a time, which with liveness is beyond
a few minutes of TLC; the composition of `HybridStages` into `RecoveryEngine`,
whose stages are one step.

How the modules are composed:

    RunStateMachine <- RecoveryState <- RecoveryEngine <- RecoveryRun <- RecoveryRunProperties -> RunLifecycle
    DbaOperations <- DbaProperties -> DbaApproval
    RunBudget <- ModelGateway <- ToolRuntime <- QaAgent <- ChatRuns <- ChatProperties
                 ModelGateway <- HybridStages <- StageProperties
    RelationVersions <- RelationMemory <- GlobalMemory <- MemoryProperties
    LegacyAnalysis <- AnalysisTab <- LegacyProperties

`A <- B` reads "B extends A"; `->` is an `INSTANCE` with a refinement mapping. Each
`...Properties` has an `MC...` module and its `.cfg` files, and proof modules
that extend it.

## 3. Recovery run: modules

| Module | Stands for |
|---|---|
| `RunStateMachine` | `workflow/state_machine.py`: statuses, the graph `_ALLOWED`, `transition`, terminal statuses |
| `RecoveryState` | the row and its `save`, units and their results, the reducer's merge, the verdict, the tables around the row |
| `RecoveryEngine` | both engines node by node, and the coroutines of their stages |
| `RecoveryRun` | the run service: `execute`, `resume`, `cancel`, failure handler, takeover, crashes; `Init`, `Next`, `Spec`, `FairSpec` |
| `RunLifecycle` | the abstract promise: one status that walks the graph, a set of decisions that each end a review, a cancellation flag |
| `RecoveryRunProperties` | all properties of the complete model, and the refinement mapping to `RunLifecycle` |
| `MCRecoveryRun`, `RecoveryRun_*.cfg` | instances for TLC |
| `RecoveryRunProofs`, `RecoveryRunTheorems`, `RecoveryRunOutcomes` | lemmas and theorems for TLAPS |

State and code:

* `run` is the row; `run.version` its lock. `mem[t]` is the copy held by the task
  `t`, `pc[t]` where that task stands between two awaits, `why[t]` the exception it
  carries. Tasks are `"exec"` (the POST), the reviewers `Resumer` and the cancel
  requests `Canceller`.
* `ctl` is the table of controls: the interrupt's own (`"review"`) and one per
  request id. `exec` is `stage_executions`, `log` the terminal events.
* `node[t]` is the engine node whose stages a task awaits. `call` holds the stage
  coroutines alive, each named by its task, its unit (a stage and its round) and
  whether the task still awaits it. Two tasks that drive the run may have a
  coroutine each for one unit; `exec[u]` is all they share.
* `token` is the process's cancellation token, `compatible` whether the row's
  workflow version is the one running, `lapsed` whether the review is overdue.
* `wins` is history: how often the stage of a unit did its work successfully,
  recorded or not. No action reads it.

Every `Save` tests the version and either writes the row and bumps it or raises
the lock error, exactly as `run_repository.py:58-74`. An action ends where the
code awaits something another task can get between; assignments that follow each
other without such an await are one action.

With `OneLoop` the tasks share one event loop, and a task keeps it until it awaits
(`Awaits`). The synchronous nodes of the graph (`plan_work`, `validate_join`, `critic`,
`human_interrupt`, `finalize`) are the exception: LangGraph runs them in a thread of
the loop's executor, so that their steps (`InThread`) come between any two
transactions of a request that has the loop. `MayStep` says both.

Abstractions, all of them:

* One run. Runs share no state but the process, whose end is modelled.
* Saves that follow each other with no await in between count as one version
  step (the engines' state and event saves; the flag and its event in `cancel`; the
  takeover's two saves; the get and save of `_fail_execution`). A writer in another
  process or in the graph's thread comes before or after all of them.
  `_fail_execution` tries its save twice; where somebody else may write between
  (`Rivals`), both may be lost, and the caller has the exception and a run as it was.
* Stage events, checkpoint contents, error texts, usage counters and evidence
  identifiers are left out: no modelled operation decides anything from them.
* A stage ends in one step with any status of `Faults`, or completed, or, if its
  token is set, canceled. What happens inside one is the subject of `HybridStages`;
  semaphores are left out.
* The deterministic scheduler (a configuration that is off by default) and
  `resume_from_latest_checkpoint` (called by tests only) are left out.
* No HTTP route executes an existing run again. `Execute` on a run that is already
  running stands for an operator who calls `service.execute` after a restart, and
  is enabled only when no request drives the run.
* The LangGraph library is modelled by how the engine uses it: `interrupt` and a
  second resume replay the interrupt node over the row as it then is. There is one
  interrupt per run, as in the engines.
* A request id is used by one request at a time.
* Of the coroutines a task has left behind for one unit, the oldest is kept.
* A critic request is an authorised one; its target worker is the column worker
  in every case, as `evidence_request_policy.py` and the engines have it. A critic
  of the graph whose requests are all refused (round counted, no units) is left out.
* A memory stage may fail and the run still be `completed`: the engines skip such
  failures in the verdict. A degraded one shows.
* An expired review publishes `approval.expired` and no `run.expired`: `Note` appends
  nothing to the log then, which is what the code does.

## 4. Recovery run: what is checked

`RecoveryRunProperties` states each property with the behaviour it is about. In
short:

* `CopiesAreTheRow`, `NothingLost`: optimistic locking does its job. No
  cancellation, decision, finished unit or takeover ever disappears.
* `LifecycleSpec`: refinement of `RunLifecycle`. With the manual engine there is one
  review and one decision (`OneReview`). The graph replays its interrupt node for a
  late resume request and puts a decided run to review again; as long as nobody
  takes over only the request that decided before can decide then (`OneVoice`), and
  after a takeover another one may.
* `CompletedIsEarned`: a run that says completed has a complete body of results.
* `AckedIsDone`: an answered cancel request has ended the run, an acknowledged
  review has a decision on record.
* `CancelledNeverCompletes`, `CancelEnds`: cancellation. A recorded cancellation ends
  the run, but for one case the property names: the run was put to review, or
  decided, while `cancel` was between its two saves. The request is then refused
  and its control stays pending (section 9).
* `StreamIsTruthful`: the terminal events and the row agree, and on one loop there
  is one of them.
* `SuccessIsReplayed`: a unit with a success on record is neither run again nor
  overwritten, whoever replays its node.
* `ExecuteSettles`: the POST answers, and leaves a run that rests or is driven.
* `TakeoverIsQuiet`: no coroutine is at work when the run changes engines, but one
  that repeats a failed stage: `has_inflight_execution` looks for reservations, and
  that one's record is still the failure (section 9).
* `UninterruptedEvidenceCollected`: in one process, without a crash and a takeover,
  the critic's requests are served before the end, in the last round as in the
  first. In several processes, an execution that fails while others take both of
  its saves leaves a running run with a round begun, and the next execution goes on
  after it.

| Run | Instance | Properties | Distinct states |
|---|---|---|---|
| `manual` | manual engine with memory stages, one loop, reviewer and cancel request with two tries each, one restart, degraded and failed stages | `TypeOK`, `CompletedIsEarned`, `CancelledNeverCompletes`, `SuccessIsReplayed` | 3.3 million |
| `graph` | LangGraph first, takeover allowed, one stage in the fan-out, two reviewers, one cancel, one restart, failed stages | `AckedIsDone`, `StreamIsTruthful`, `NothingLost` | 1.7 million |
| `processes` | manual engine, several processes (`OneLoop = FALSE`), two reviewers and a cancel request; one process may die and another, perhaps of another workflow version, execute the run again | `CopiesAreTheRow`, `LifecycleSpec` | 2.1 million |
| `settle` | LangGraph, takeover and memory stages, two parallel stages, a reviewer and a cancel request with two tries each, blocked stages, the real limit of two critic rounds, no restart, `FairSpec` | `UninterruptedEvidenceCollected`, `TakeoverIsQuiet`, `ExecuteSettles`, `CancelEnds` | 219 thousand |
| `conflict` | the smallest takeover after a merge | `NoSelfConflict`, violated (section 9) | |

Bounds and why they are enough:

* `FanOut` has two of the four parallel stages in `settle`, a required and an
  optional one, which show every order of two coroutines, a raise beside a running
  sibling and both roles in the verdict; one where the fan-out is not the point.
* `MaxRounds = 1`, and 2 (the code's limit) in `settle`. One round already contains
  the loop's entry, its guard and its exit.
* `Faults` names which imperfect statuses stages return. `manual` has those that
  end in different verdicts, `settle` has "blocked", which takes the path of
  "failed"; the proofs hold for every choice.
* `MaxCrashes = 1`, `MaxExecutes = 2`: one crash anywhere, and the operator's
  execution after it.
* `MaxTries = 2` where retries matter: a first try that dies half-way, and its
  retry. `MaxFallbacks = 1` is the code's own limit (`fallback.py`).
* Two reviewers are the smallest competition; one cancel request suffices
  because a second one writes the same thing.
* `CHECK_DEADLOCK FALSE` everywhere: a run that has ended, or that waits for a
  reviewer who never comes, rightly stops. The same holds of every other
  instance: an operation decided, a chat at rest, an analysis that was shown.

Fairness (`settle` only): `WF` on each request's steps and on those of its coroutines. An
asyncio loop runs every ready task, and a stage call is wrapped in a timeout, so
it ends. Nothing is assumed of clients, reviewers, crashes, engine failures or the
clock.

Properties that are *not* claimed where the code does not give them:
`CancelledNeverCompletes` is not a property of `graph`, and evidence is claimed only
for an uninterrupted engine (section 9).

## 5. Recovery run: what is proved

For every value of the constants: any sets of requests, any number of crashes,
tries and rounds, either engine, one loop or many processes.

* `TypeCorrect`: `Spec => []TypeOK`. `TypeOK` is not inductive: `Deepen` increments the
  round and must know that it is below the limit, which is known one step earlier
  at `Join`. `IInv == TypeOK /\ DeepensInBounds` carries that over.
* `CopiesCorrect`: `Spec => []CopiesAreTheRow`.
* `NothingIsLost`: `Spec => NothingLost`.
* `TerminalStays`: the status moves along the graph in every step and a terminal
  one is never left.
* `RecordedSuccessFinal`: `Spec => SuccessIsReplayed`.

The argument. Every action is first reduced to its *shape* by one lemma
(`EnterShape`, `SaveShape`, `FlagShape` ...): it keeps `IInv`, it changes the row not at
all or to a copy with the row's version, bumped, that keeps what must not be lost
(`RowStep`), and it gives a task either the new row or a copy no newer than the old
one (`CopyStep`). `StepShape` collects them over `Next`. From shapes alone,
`CopiesAreTheRow` with `run.version >= 1` is inductive: a save needs a copy whose
version is the row's, which *is* the row by the invariant, so what the task
derived from its copy it derived from the row; and a bump leaves every other copy
behind. `NothingLost` and the status walk then follow step by step.

`SuccessIsReplayed` needs two more facts about every state, inductive on top of
`IInv`. `OneRunner`: a stage at work has an execution that is no success, and while
that execution is still its reservation the stage is alone at work on its unit.
`RecordsAgree`: a finished execution has the status of its stored result. Together
they say that a late second attempt can only store what is already there (else
`put_artifact` refuses it), so it cannot turn a success, or a failure, into
something else.

Seven theorems tell what a run comes to (`RecoveryRunOutcomes`), each with an
invariant of its own on top of the shapes:

* `AckedCorrect`: `Spec => []AckedIsDone`, by `AcksEarned`: a cancel request is past
  its acknowledgement only when the row has ended, a resume request only when a
  decision is on record; `EndsAgree` says that a copy of an ended run shows the end
  the row has.
* `StreamCorrect`: `Spec => []StreamIsTruthful`, by `StreamInv`. A task *owes* an event
  between its terminal save and its note. `StandsRight` says that one who owes holds
  a terminal copy, `EventsAgree` that each event in the log has the row's status,
  and `OneDebtor` that on one loop there is at most one event or one debtor.
* `CompletedCorrect`: `Spec => []CompletedIsEarned`, by `VerdictInv`: the row and every
  copy are *whole* (no result of a later node without the earlier ones, no
  completed verdict over a bad result), and each task stands at a node that is
  *in order* for its copy.
* `CancelCorrect`: with the manual engine, `Spec => []CancelledNeverCompletes`, by
  `CancelInv`: no row with a cancellation on record has succeeded, and no engine
  works on a copy that has one. The assumption names the engine because the
  graph does not have the property.
* `TakeoverQuiet`: `Spec => TakeoverIsQuiet`. A takeover is one action that reads
  `exec`, and by `OneRunner` a stage at work whose execution is not its reservation
  repeats what is on record as a failure.
* `LifecycleKept`: `Spec => LifecycleSpec`, the refinement. Each step of a task *lives*
  (`Lives`): it leaves the status, follows the graph out of a state without a
  review, or is the save of a resume request, which is `Decide`. `ReviewInv` says
  what makes the last one so: a request on its way to the decision holds a copy
  that waits or has ended, as every row and copy with an open interrupt does
  (`Reviewed`), and where the graph is alone (`GraphKeeps`: no takeover can come) a
  request about to save is the only one that decided. `OneReviewInv`, for the manual
  engine: a run waits only with a merge and without a decision, and once a decision
  is on record the merge is there, which the engine then skips, so that nothing
  asks again.
* `EvidenceCollected`: `Spec => []UninterruptedEvidenceCollected`, by `CollectInv`. In one
  process `execute` has the row to itself after it failed, but for the graph's thread,
  which only works for a reviewer then (`OwnSteps`, `AloneStep`). While
  neither a crash nor a takeover has come, a round that has begun and whose evidence
  is not in the row is *owed* (`Owing`): `execute` is then at the evidence node or on
  its way to fail the run, all earlier rounds are collected and nobody resumes the
  run (`Unresumed`). A run that was resumed asks for no more rounds (`AsksNoMore`).
  `EngineFirst` says that without a takeover each copy names the engine the run
  was created for.

`RecoveryRunProofs` holds the operator and engine lemmas, `RecoveryRunTheorems` the
service lemmas and the theorems about the row. The only assumptions are those of
the constants (`ConstantsAssumption` in `RecoveryState`), which TLC evaluates in
every run.

Only model-checked: liveness (`ExecuteSettles`, `CancelEnds`), which with `ENABLED` is out
of this prover's reach. The proofs cover what `processes` and `settle` do not: the
lifecycle of runs of the graph, of several processes with takeover, and any number
of critic rounds.

## 6. Planned schema changes

| Module | Stands for |
|---|---|
| `DbaOperations` | `create_operation`, `resolve` and `execute_approved` of `agent/dba/service.py`, transaction by transaction, over the tables of `operation_store.py`; the policy of `policy.py` |
| `DbaApproval` | the abstract protocol: vote, grant or refuse, begin, apply, finish |
| `DbaProperties` | the properties and the refinement mapping |
| `MCDba`, `Dba.cfg`, `Dba_halfway.cfg` | instances for TLC |
| `DbaTheorems` | theorems and proofs |

State and code: `op` is the table `dba_operations`, `decisions` the table
`dba_approval_decisions`, `attempt` the table `dba_execution_attempts` by its unique key.
`pc[c]` and `asks[c]` are where a call of `resolve` stands and what it asks for,
`xpc[x]` and `xop[x]` the same for a call of `execute_approved`. `lapsed` holds the
operations past `expires_at`. `applied` counts what the adapter did to the
database, which the service cannot see, and `acked` whose rejection a caller was
told is done; no action reads either. Each method of the store is one SQLite
transaction; an action is one of them, or one call of the adapter, with the
code around it. Calls interleave freely between actions and may die there.

Abstractions:

* An operation's version never changes after version 1 (nothing appends a
  second one), and a wrong version or hash makes `resolve` raise before it has
  written anything: both checks are left out, as is the schema snapshot's.
* An idempotency key stands for tenant, project and plan hash; a plan is its own
  hash. Plans differ in the gravest statement, protection and environment,
  which is all the policy reads once the statements are parsed.
* A request signs for one role its actor holds and the plan requires. The code
  has `count` and `separation_from_requester` in `ApprovalRequirement` and reads
  neither: one actor with two roles may sign for both, and no property claims
  distinct approvers.
* A caller of `execute_approved` is not checked for a role by the code, so that
  executors have none. The route is off by default and the repository has no
  implementation of the adapter: `Call` returns what the service can handle, and an
  adapter that succeeds has applied the plan, one that fails has not, and
  everything else is unknown.
* The audit table only grows and is never read.

The run `dba` has two operations that may share a plan (a plain one, or one that
asks for two roles), a requester and two approvers, two calls of `resolve` that
may deliver the same request, two executors, a deadline and a crash: 391 thousand
states up to symmetry. It checks `TypeOK`, `OnlyGranted`, `OutcomeIsTold`,
`OneDecisionPerRequest`, `AppliedOnce` and the refinement `ApprovalSpec`.
`dba_halfway` is the disagreement of section 9.

Bounds: `MaxCalls` counts the calls of `resolve`, two of which may be under way at a
time and show every race between two transactions; an executor
may begin only with an operation that is approved. Callers and executors are symmetric: no
definition tells one from another. There is no liveness to check: a call that
dies is retried by people, and nothing in the code resumes one.

Proved, for any number of operations, requests, actors, plans, calls and crashes:
`TypeCorrect` (of `DbaTheorems`), `GrantedCorrect` (`OnlyGranted`), `AppliedAtMostOnce` (`AppliedOnce`),
`OutcomeCorrect` (`OutcomeIsTold`), `DecidedOnce` (`OneDecisionPerRequest`) and
`ApprovalImplemented` (`Spec => ApprovalSpec`). The assumptions are `DbaAssumption`.

The argument. `IInv` adds two halves to `TypeOK`. `DecideInv`: decisions, and the
one a call is about to append, are signed by another actor with a required role;
a call about to grant has all roles on record, which stays so because decisions
are only added; a waiting operation is not denied. `ExecuteInv`: an executor past
its first transition owns an operation whose status says so (`OneExecutor` is
what the tested update buys), its plan's attempt names the operation, and a plan
whose attempt does not exist was not applied. Steps of one half frame the other
(`DecideFrame`, `ExecuteFrame`); among executors, `OthersOK` shows that a step
disturbs neither another executor nor another plan. `DecidedOnce` needs none of
this: it is inductive by itself. The refinement maps each step to one step of
`DbaApproval` or to none, with `IInv` giving the votes and the fresh plan.

## 7. Runtime, chat and stages

| Module | Stands for |
|---|---|
| `RunBudget` | the ledger of `agent/runtime/budget.py`: reserve, settle, restore, deadline |
| `ModelGateway` | `generate_structured` of `agent/runtime/model_gateway.py`, one call per caller |
| `ToolRuntime` | `execute` of `agent/runtime/tool_runtime.py`, one call per caller |
| `QaAgent` | the pipeline of `agent/qa/` from question to verified answer |
| `ChatRuns` | threads, runs, messages and events of `chat/`, the routes of `api/v2/threads.py`, the browser's store |
| `HybridStages` | the stages of `agent/workers/hybrid_stage.py` with collectors, reasoner, verifier, the engine's attempts and time-outs, the evidence store |
| `ChatProperties`, `StageProperties` | the properties |
| `MCChat` with `Chat.cfg`, `MCStages` with `Stages.cfg` | instances |
| `ChatTheorems`, `StageTheorems` | theorems and proofs |

State and code. `usage[l]` is `_usage` of the ledger `l`, `late` the ledgers past
`deadline_at`. `model[c]` is the gateway call of a caller: its phase (first answer,
repair, fallback profile), attempt and reservation. `stopped` holds the contexts
whose cancellation token is set, `warned` those with a warning of a failed event
sink. `tool[c]` is the tool call, `qa[r]` the pipeline of a chat run: the tables it
may be about, the facts its tools returned, what its answer cites. `row`, `log`
and `said` are the tables of runs, events and assistant messages; `row[r].task`
says what became of the background task; `client[c]` is a browser's store.

In `HybridStages` a caller is a stage; `stage[s]` is its attempt (where it stands,
the evidence it is about to write, the usage before it began), `evidence` and
`relations` the two append-only tables, `spent` the usage the row has added up when
the group is joined. `lowered` is history: the ledgers whose count an answer
cheaper than its reservation has lowered. What the stages have told of a dimension
(`Told`) is the sum of their `sum`, written as the number of units told so that it
needs no recursion.

Two callers of one ledger meet only between two actions: every operation of the
ledger holds its lock, and everything between two awaits of one task is one
action. The gateway keeps a reservation whose call failed, as the code does.

Abstractions: one number stands for tokens and cost; back-off is a state without
a length; a profile's answers differ in what validation and verification tell
apart; one tool call stands for the profiles of a collector; `stream_text`,
`reserve_loop` and `release` have no callers and are left out; texts of messages
are left out. The browser sends a fresh key with every message (`store.ts:102`), so
each post has a run of its own; a post of another caller under a used key returns
the stored run, starts no task (`api/v2/threads.py:39`) and changes nothing. The claim of an evidence row stands for its whole content
except for the rejection and for the profile that may be missing.

| Run | Instance | Properties | Distinct states |
|---|---|---|---|
| `chat` | a thread, one run, a browser with pages of two events that posts, follows, gives up and reloads, a cancellation, a task that dies, one restart; three model calls, two tool calls, repair and a fallback profile allowed; `FairSpec` | `ChatTypeOK`, `OneEnd`, `AnswersAreGrounded`, `CancelStopsWork`, `EveryRunEnds`, `ClientIsAnswered` | 143 thousand |
| `stages` | two stages over one ledger at its limit, answers that cost less or more than the reservation, one tolerant of a missing profile and one that only observes; two attempts, time-outs, failing store, cancellation, deadline, a restart | `StageTypeOK`, `LimitsHold`, `RelationsRest`, `SpentCoversUse` | 6.6 million |

* `OneEnd`: the row, the messages and the stream agree on the one end of a run.
* `AnswersAreGrounded`: an answer cites only facts its own tools returned.
* `CancelStopsWork`: once the token is set, no provider and no tool is asked any
  more; a cancellation before the task or before its evidence leaves no answer.
* `EveryRunEnds`, `ClientIsAnswered`: unless its task died, an accepted run comes to an
  end, and a browser that posted it sees the end, however much of the stream there
  is between the cursor it has and the answer to its post. A task dies with its
  process, or when the store or the runtime raises outside the pipeline
  (`TaskFails`: `chat/service.py:61`, `:71`, `:103`, `:125`); its row then stays `running`.
* `LimitsHold`: no ledger counts more than its limits. Answers that cost more than
  their estimate are settled up to the limit and refused beyond.
* `RelationsRest`: a relation in the store rests on stored evidence nobody rejected.
* `SpentCoversUse`: when every attempt told its usage, the row has counted all calls
  of the ledger, and all tokens of a ledger that no cheap answer has lowered
  (section 9).

Bounds: the limits are set so that each is met: a repair and a fallback spend the
third model call, the catalog and one evidence query both tool calls, and `Costs`
lie on both sides of `Estimate` (1 and 3 against 2) in `stages`, where three tokens
let one stage begin while the reservation of the other is counted. Two stages show
every race for the last call. The chat has one run and one browser: the thread of
a run is told from other runs' by its events only, and two runs with liveness take
more than a few minutes.

Fairness (`chat` only): `WF` on the task of each run, which an event loop gives a
ready task, and whose provider and tool calls have time-outs; `WF` on the answer to a
browser's post and on its polling, which is a loop with a timer; a request that
fails instead ends the wait (`GiveUp`). Users, cancellations, reloads, failures of the
store, event sinks and crashes are not fair.

Proved of the chat, for any runs, tables, facts, limits, retries, clients and
crashes: `AnswersGrounded` (`Spec => []AnswersAreGrounded`), by `PipelinesHonest`: a
pipeline cites nothing before it has published, and then only what it has learned.
`ChatTypes` (`[]ChatTypeOK`), `EndedOnce` (`[]OneEnd`) and `CancelHonoured`
(`Spec => CancelStopsWork`), by `ChatSound`, which adds to that: what a call or a
pipeline holds at each of its phases (`CallsSound`, `PipelinesTyped`: a call about to
ask has an attempt left, one that asked has its reservation counted, a pipeline
that finished has a result) and what rows, events and messages say of each other
(`RowsSound`): a task that is due or works belongs to a running row, a recorded
cancellation whose task works has set the token, every event is of a run that was
started, and `OneEnd` itself, which is inductive with those. `ChatAssumption` says
that each run has a ledger of its own (`new_context` in `chat/service.py`):
with a shared one a cancellation would stop a neighbour's work.

Proved of the stages:
`LimitsAlwaysHold` (`[]LimitsHold`), for any number of stages over any ledgers, by
`LedgerSound`: while nothing is joined the row has spent nothing, so that a restart
begins within the limits, and the reservations under way (`Asking`) are all counted
(`ReservationsCounted`), so that a settlement never takes a count below zero.
`RelationsAlwaysRest` (`[]RelationsRest`), by
`EvidenceSound`: an identifier has one content, and what a stage is about to
relate is backed by what it is about to write or has written.
`UseIsCovered` (`[]SpentCoversUse`), by `CoverSound`. Before the join a count may be
ahead of what was told, but then a stage is at work that began no higher than what
was told (`AllCovered`), and its difference will make up for the rest when it ends;
`BeganBelow` says that the others' reservations never take a count below where a
stage began, which is what a cheap answer would break. When all are done nothing
is left to make up for, and the row has taken in the sum (`RowTold`). `StageTypes`
(`[]StageTypeOK`) follows with `AttemptsTyped`, which ties a stage's phase to its call
of the model. Sums are cardinalities of finite sets, by the theorems of the library.

The assumptions are those of the modules (`LimitsAssumption`, `GatewayAssumption`,
`StagesAssumption` and so on). Only model-checked: liveness (`EveryRunEnds`,
`ClientIsAnswered`).

## 8. Relations, memories and the legacy analysis

### Relations and memories

| Module | Stands for |
|---|---|
| `RelationVersions` | `evidence/versioned_repository.py` with its two writers: `_fuse_versioned` of the merge stage and `relation_feedback` of `api/evidence_routes.py` |
| `RelationMemory` | layer L2 of `agent/memory/` and the row of the thread (L1): retrieve, verify, consolidate, forget |
| `GlobalMemory` | layer L3: a pattern, its proposal and the answers to it |
| `MemoryProperties`, `MCMemory`, `Memory.cfg`, `Memory_stale.cfg` | properties and instances |
| `MemoryTheorems` | theorems and proofs |

There is one claim, with a relation of it in each snapshot of the database.
`ledger[s]` holds the facts collectors found, `items[s]` the rows of `evidence_items`,
`versions[s]` the versions of the relation, `memory[s]` those of its memory, `shown[s]`
the status column of its `memory_items` row, `global` the versions of one pattern
and `proposal` its row. `run[r]` says where a run is in its stages, `review[w]`
where a reviewer's request is. Every method of a store is one transaction and one
action; requests die between two of them (`Retry`, `Lost`), and a run may stop
anywhere, for nothing forces it on. Scores are real numbers in the code: fusion is
modelled by the rows that count, the rule that a single root is not enough, and a
comparison of weights. Corrections of target and cardinality, and the functions
without a caller (`expire_due`, `mark_stale`, `tombstone_evidence`), are left out.

A memory is verified against the snapshot of the run at hand: `Gone`, `Retyped` and
`Keyless` are the snapshots without a table or column of the claim, with another
type of one, and without the candidate key the claim needs (`Outcome`). Of the four
outcomes TLC meets "stale": the others take another run of the same snapshot
or snapshots of each kind, which is beyond a few minutes; the theorems below
hold for all of them.

The run `memory` has a run of one snapshot and a run of a later one in which a
table is gone, two reviewers of whom one may activate patterns, retries and a
request to forget: 1.2 million states. It checks `MemoryTypeOK`,
`DecisionIsOnWhatWasSeen` (a confirmed decision is the version next to the one the
reviewer was shown), `EvidenceCanBeRead` (a version cites only stored evidence),
`MemoryIsEarned` (what is remembered as accepted was an accepted version),
`ActiveIsApproved` (a pattern is active by one answer, in time, of somebody with
authority) and `HistoryKept` (no version is rewritten or lost). Two writers of a relation
suffice for every lost race, since an append compares one number; two requests of a
reviewer show a retry. Two roots are found together, so that a merge accepts the
relation; in `memory_stale` they may also be found in turn, and it is proposed
first. `memory_stale` is a disagreement (section 9). There is no
fairness: people and stages may stop for good.

All six are proved for any snapshots, roots, runs, reviewers and requests
(`MemoryTypeCorrect`, `DecisionHolds`, `EvidenceIsThere`, `MemoryEarned`, `ActiveApproved`,
`HistoryIsKept`). The invariant (`MemoryInvariant`) adds what a request or a stage
carries from one transaction to the next: the version a reviewer judges is there
(`JudgedIsThere`), what a merge has read is still stored (`SeenIsStored`), what a
stage still has to look at exists (`PendingCanBeRead`), and a proposal goes from
nothing to a candidate once and to one answer (`OneProposal`). Sequences only
grow, which is the lemma every part uses.

### Legacy analysis

| Module | Stands for |
|---|---|
| `LegacyAnalysis` | one analysis by `agent/orchestrator.py` or by the nodes of `langgraph/`, the reduction of statuses, the three places that keep the outcome |
| `AnalysisTab` | the response of `main.py` line by line, a cut connection, and the hook `useAnalysis.ts` |
| `LegacyProperties`, `MCLegacy`, `Legacy.cfg` | properties and instance |
| `LegacyTheorems` | theorems and proofs |

`steps[w]` is the status of a worker's step, `status` the reduced one, `memory` how
much of the result is in schema memory (two transactions), `record` the row of the
monitor's database, `store` the row of the in-process run store, `lines` and `wire`
the response, `tab` and `seen` what the user sees. How a worker ends is a choice
among `Verdicts`; a stage that fails is replaced by its legacy worker, as in
`hybrid_stage.py`.

The run `legacy` has both engines, a called or a streamed request, every worker
with each status its place tells apart, failing memory and monitor, a response
that ends anywhere, and a restart. It checks `LegacyTypeOK`, `SuccessIsWhole`
("completed" means every worker did its work and both keepers have the run),
`KeptOutcomesAgree` (memory, monitor and run store agree), `TabShowsTheOutcome` and
`TabIsAnswered` (the user gets relations or an error). Fairness: the server's
thread goes on, and so does the tab's reading loop. A single analysis suffices,
because two share no row but the caches that are left out.

Proved, for any `Verdicts`, engines and number of restarts: `SuccessWhole`
(`Spec => []SuccessIsWhole`) and `KeptAgree` (`Spec => []KeptOutcomesAgree`), by `StepsSound`
(no required step is skipped, a merge has an ORM step before it) and
`OutcomeSound` (what is known of the outcome when). The lemmas about the priority
of statuses say that a combined status is no better than any of its parts.
`LegacyTypes` (`[]LegacyTypeOK`) and `TabTellsTheOutcome` (`[]TabShowsTheOutcome`) rest on
`TabSound`: every line that the tab has not read yet tells what is still so (the
step of its worker, or the end of a run that is done), for a step that has ended and
a run that is done never change. Only model-checked: `TabIsAnswered`.

## 9. Disagreements between the code and what it says

Each of the first three is a run in which TLC finds the stated property violated.

* `conflict`: a stage's input hash covers every output reference of the row, later
  ones included. A takeover or restart after the merge repeats the merge with a
  different hash under the same key and blocks the run on its own reservation.
* `dba_halfway`: a rejection is recorded in one transaction and applied in the
  next. If the call dies in between, its retry is answered as done, and the
  operation can still be granted and executed.
* `memory_stale`: a run marks the memory of a relation stale because its table is
  gone, and its consolidation, which lists the relations of all snapshots, appends
  an accepted version to it again.

Observed, stated where a property is named, and not made into runs. To see one,
name the property in a `.cfg` of its module.

* Recovery run. A stage that failed is run again under its old reservation and
  cannot store its success (`run_repository.py:158`, `manual.py:314`;
  `StageSucceedsOnce`). `resume` awaits the engine without a failure handler
  (`recovery_run_service.py:269`; `ResumeLeavesItSettled`). The critic's round is
  committed before its units are planned (`langgraph_engine.py:226`;
  `RequestedEvidenceCollected`). A cancel request that dies after it recorded its
  flag while the run waits, followed by a review, lets the graph complete
  (`CancelledNeverCompletes` with the constants of `graph`). The interrupt node, in its
  thread, may commit `waiting_approval` after `cancel` has saved its flag
  (`recovery_run_service.py:294`) and before it saves `canceled` (`:309`): `cancel` raises
  `OptimisticLockError`, and the run waits for review with its cancellation on
  record until somebody reviews it or cancels again (`run.cancelReq ~> run.status \in
  Terminal` fails with the constants of `settle`). `execute` reads the row
  after the graph has returned, so a quick reviewer makes the run look abandoned
  (`recovery_run_service.py:357`; the version keeps the row whole). The request
  that loses to another reviewer is acknowledged later although its decision was
  not applied (`recovery_run_service.py:184-189`). A crash between the
  acknowledgement of a cancellation and its event leaves a stream without an end.
  A stage that raises leaves its siblings under `gather` running (`manual.py:256`)
  and its reservation `running`, so that a takeover is refused. A stage that repeats
  a failed one works under a record that says `failed`: a takeover does not see it
  (`run_repository.py:147`, used at `recovery_run_service.py:120`) and goes over the
  same unit beside it. A late resume request of the graph replays the interrupt node
  over a row whose interrupt is resolved, which writes `waiting_approval` again
  (`langgraph_engine.py:266-273`): a decided run asks for a second decision, after a
  takeover perhaps of somebody else.
* Schema changes. A second operation with the plan of the first is moved to
  `executing`, finds the first one's attempt and stays (`service.py:98`;
  `ExecutingIsAttempted`). One actor with two roles may sign for both.
* Stages. Flags a model supplies make a claim rejected in one attempt and accepted
  in the next, under the same evidence identifier: the retry of a stage whose
  retries are called safe is blocked (`hybrid_stage.py:304`; `RetryIsSafe`). Parallel
  stages each count what the others used of the shared ledger, and the sum can be
  more than `restore` accepts (`budget.py:40-58`; `SpentIsReal`). The sum can also be
  less than what was used: a stage that begins while a sibling's reservation is
  counted takes that count as its beginning (`hybrid_stage.py:330`); when the sibling's
  answer costs less, the ledger is lowered (`budget.py:93-111`), and what the stage then
  uses is told as the difference to the higher count, cut off at zero
  (`hybrid_stage.py:429-437`). Those tokens are in the ledger and never in the row, and
  a ledger restored from it begins too low. The gateway turns the
  cancellation of a timed-out stage into a result, and the stage goes on. An
  attempt that times out or raises loses its usage.
* Chat. A run whose task died, with its process or by an exception outside the
  pipeline, stays `running`, and a post under its key is answered with it. A cancellation received by another process never reaches the
  token. A catalog larger than the limit of a tool result becomes a summary, in
  which the pipeline finds no tables. Reservations of failed attempts are kept.
* Relations and memories. A forgotten memory is shown again by the next version
  appended to it. A reviewer's rejection is replaced by the next merge of the same
  snapshot. A reviewer's second judgement of a claim, and the retry of one that died
  half-way, meet the rows of the first. A candidate pattern whose request died has no proposal,
  and its retry conflicts.
* Legacy. An ORM worker that fails leaves the graph's run `failed`, because the
  graph folds every worker's status into its own (`langgraph/state.py:87-111`), where the
  orchestrator says partial, as `test_phase0_contracts.py:42` expects
  (`OptionalErrorIsPartial`). A blocked or cancelled required worker makes the
  orchestrator raise after the monitor has the run, whose row in the run store
  stays `running`. A client that goes away drops the stream at a yield, and nothing
  records the run. After a restart `get_run` has a row without a result, and the tab
  shows an error for a run that succeeded.

## 10. Not modelled, and why

* DBA planning and its graph facade: text to DDL and SQL parsing; the facade
  forwards to the service that is modelled.
* MCP tools and their registry, parsers, catalog queries: read-only queries and text
  parsing; the stages and the chat see them as tool calls.
* Snapshot registry, identifiers: content-addressed and written once; distinct
  model values stand for them.
* Redaction, tracing, metrics, provider clients, settings, simulation data and
  scripts: I/O and formatting.
* Evaluation (`eval_v2/`): a runner off-line whose row is saved under a sequence
  number; the same pattern as the modelled rows, left for later.
* The analysis stream of the default settings (`_analysis_stream_v2`, `main.py:499`): it
  forwards the events of `RecoveryRun`'s log as lines in the format of the legacy one.
  `AnalysisTab` with `TabShowsTheOutcome` and `TabIsAnswered` is about the legacy stream
  (`_analysis_stream`) only.
* Of components that are modelled in part, `PROJECT.json` says for each what is left
  out: the heuristics of workers over schema text, the caches of the earlier
  memories and chat, the views of the frontend, the deterministic scheduler, the
  inside of the LangGraph library.

Out of the prover's reach, and model-checked only: liveness under fairness
(`ExecuteSettles`, `CancelEnds`, `EveryRunEnds`, `ClientIsAnswered`, `TabIsAnswered`).

## 11. Running it

Every definition whose comment calls it a mutant, a defect to test with or a bug to
look for is a plausible mistake in the operation beside it. No specification
uses it; with it in the place of that operation, the property it is paired with in
`PROJECT.json` fails.

    tlasany RecoveryRun.tla
    tlc -workers 2 -config RecoveryRun_manual.cfg MCRecoveryRun.tla
    tlc -workers 2 -config Dba.cfg MCDba.tla
    tlc -workers 2 -config Chat.cfg MCChat.tla
    tlc -workers 2 -config Stages.cfg MCStages.tla
    tlc -workers 2 -config Memory.cfg MCMemory.tla
    tlc -workers 2 -config Legacy.cfg MCLegacy.tla
    tlapm RecoveryRunProofs.tla
    tlapm RecoveryRunTheorems.tla
    tlapm RecoveryRunOutcomes.tla
    tlapm DbaTheorems.tla
    tlapm ChatTheorems.tla
    tlapm StageTheorems.tla
    tlapm MemoryTheorems.tla
    tlapm LegacyTheorems.tla
