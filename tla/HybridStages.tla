---------------------------- MODULE HybridStages ----------------------------
(* The hybrid stages of a recovery run (agent/workers/hybrid_stage.py and    *)
(* its collectors, reasoner and verifier, evidence/repository.py). Stages    *)
(* run in parallel as tasks of one process, share the run's budget ledger    *)
(* and write into one append-only evidence store. A caller is a stage; one   *)
(* tool call, a step here, stands for the profiles its collector asks for.   *)
EXTENDS ModelGateway, FiniteSets

CONSTANTS Claims,        \* candidate facts the collectors find in the catalog
          Invented,      \* a claim no collector made
          Wrong,         \* claims the catalog contradicts
          Tolerant,      \* stages whose collector goes on without a profile (column)
          Observing,     \* stages that record nothing (shadow mode, merge)
          MaxAttempts,   \* attempts the engine gives a stage
          MaxRestarts    \* bound on restarts of the process

ASSUME StagesAssumption ==
  /\ Invented \notin Claims /\ Wrong \subseteq Claims
  /\ Tolerant \subseteq Callers /\ Observing \subseteq Callers
  /\ MaxAttempts \in Nat \ {0} /\ MaxRestarts \in Nat
  /\ IsFiniteSet(Callers)

VARIABLES stage,       \* stage -> its attempt
          evidence,    \* rows of evidence_ledger
          relations,   \* rows of relation_candidate_events
          spent,       \* the usage the run's row has added up
          joined,      \* the row has taken in the results of the group
          restarts,
          lowered      \* history: ledgers an answer cheaper than its reservation lowered

\* An identifier is made of stage, claim and artifact; the artifact's own is a
\* hash of its content, which is whole or lacks the profile.
EvidenceId == [by: Callers, claim: Claims, partial: BOOLEAN]
EvidenceRow == [id: EvidenceId, rejected: BOOLEAN]
Candidates == [claim: Claims \cup {Invented}, flagged: BOOLEAN]

Outcomes == {"completed", "degraded", "blocked", "failed", "canceled", "raised"}
Attempt ==
  [at: {"due", "collect", "reason", "write", "done"}, attempt: 1..MaxAttempts,
   before: Usage, sum: Usage, missing: BOOLEAN, degraded: BOOLEAN, timed: BOOLEAN, uncounted: BOOLEAN,
   items: SUBSET EvidenceRow, accepted: SUBSET EvidenceId, status: {"none"} \cup Outcomes]

FirstAttempt ==
  [at |-> "due", attempt |-> 1, before |-> NoUsage, sum |-> NoUsage, missing |-> FALSE,
   degraded |-> FALSE, timed |-> FALSE, uncounted |-> FALSE,
   items |-> {}, accepted |-> {}, status |-> "none"]

storeVars == <<evidence, relations>>
callVars == <<gatewayVars, budgetVars>>
rowVars == <<spent, joined, restarts, lowered>>
vars == <<callVars, stage, storeVars, rowVars>>

Init ==
  /\ BudgetInit /\ GatewayInit
  /\ stage = [s \in Callers |-> FirstAttempt]
  /\ evidence = {} /\ relations = {}
  /\ spent = NoUsage /\ joined = FALSE /\ restarts = 0 /\ lowered = {}

\* --------------------------------------------------------------- endings
\* The usage of an attempt: what the shared ledger has counted meanwhile.
Dimensions == {"model", "tool", "tokens"}
Delta(s) == [d \in Dimensions |->
  IF usage'[Ledger[s]][d] > stage[s].before[d]
  THEN usage'[Ledger[s]][d] - stage[s].before[d] ELSE 0]

Added(u, v) == [model |-> u.model + v.model, tool |-> u.tool + v.tool,
                tokens |-> u.tokens + v.tokens]

\* An attempt ends: one that failed is followed by another while there is one,
\* and the usage the attempts report is added up.
Over(s, status, used, lost) ==
  stage' = [stage EXCEPT ![s] =
    LET next == [FirstAttempt EXCEPT !.sum = Added(stage[s].sum, used),
                                     !.uncounted = stage[s].uncounted \/ lost]
    IN IF status = "failed" /\ @.attempt < MaxAttempts
       THEN [next EXCEPT !.attempt = stage[s].attempt + 1]
       ELSE [next EXCEPT !.attempt = stage[s].attempt, !.at = "done", !.status = status]]

\* The stage returns a result, with the usage of its time.
Returned(s, status) == Over(s, status, Delta(s), FALSE)

\* The engine gives the attempt up: it knows of no usage.
TimedOut(s) == Over(s, "failed", NoUsage, TRUE)

\* The stage raises: the engine stops there and the run fails.
Raised(s) == Over(s, "raised", NoUsage, TRUE)

\* ----------------------------------------------------------------- stage
\* Cancellation is looked at here and nowhere else.
Enter(s) ==
  /\ stage[s].at = "due"
  /\ UNCHANGED <<callVars, storeVars, rowVars>>
  /\ IF Ledger[s] \in stopped
     THEN Over(s, "canceled", NoUsage, FALSE)
     ELSE stage' = [stage EXCEPT ![s].at = "collect", ![s].before = usage[Ledger[s]]]

\* A defect to test with: the usage of the collector is not in the difference.
GatheredUncounted(s, profiled) ==
  IF profiled \/ s \in Tolerant
  THEN /\ stage' = [stage EXCEPT ![s].at = "reason", ![s].missing = ~profiled,
                                 ![s].before = usage'[Ledger[s]]]
       /\ model' = [model EXCEPT ![s] = Called]
  ELSE Returned(s, "failed") /\ UNCHANGED model

\* The facts are collected and their artifact written; a collector that cannot
\* do without its profile raises, and the stage returns a failure.
Gathered(s, profiled) ==
  IF profiled \/ s \in Tolerant
  THEN /\ stage' = [stage EXCEPT ![s].at = "reason", ![s].missing = ~profiled]
       /\ model' = [model EXCEPT ![s] = Called]
  ELSE Returned(s, "failed") /\ UNCHANGED model

\* The tool runtime answers the collector, or fails it, or tries once more.
Profile(s) ==
  /\ stage[s].at = "collect"
  /\ UNCHANGED <<stopped, warned, late, storeVars, rowVars>>
  /\ IF Ledger[s] \in stopped \/ ~ToolFits(Ledger[s])
     THEN UNCHANGED usage /\ Gathered(s, FALSE)
     ELSE /\ ReserveTool(Ledger[s])
          /\ \/ \E profiled \in BOOLEAN: Gathered(s, profiled)
             \/ UNCHANGED <<stage, model>>

\* Without an answer of the model every fact is a candidate.
Baseline == {[claim |-> c, flagged |-> FALSE] : c \in Claims}

Id(s, claim) == [by |-> s, claim |-> claim, partial |-> stage[s].missing]

\* The verifier: a candidate is rejected if it is flagged, by the model or by
\* the catalog, or if no fact is behind it; a rejected one still leaves
\* evidence against it when there is a fact.
Rejected(c) == c.flagged \/ c.claim \in Wrong \/ c.claim = Invented
Items(s, proposal) ==
  {[id |-> Id(s, c.claim), rejected |-> Rejected(c)] : c \in {c \in proposal : c.claim # Invented}}
Accepted(s, proposal) == {Id(s, c.claim) : c \in {c \in proposal : ~Rejected(c)}}

Verified(s, proposal, degraded) ==
  [stage[s] EXCEPT !.at = "write", !.degraded = degraded,
     !.items = IF s \in Observing THEN {} ELSE Items(s, proposal),
     !.accepted = IF s \in Observing THEN {} ELSE Accepted(s, proposal)]

\* A defect to test with: the call is not given up once it has its result.
ReasonedAgain(s) ==
  /\ stage[s].at = "reason" /\ model[s].st = "done"
  /\ stage' = [stage EXCEPT ![s] = Verified(s, Baseline, TRUE)]
  /\ UNCHANGED <<gatewayVars, budgetVars, storeVars, rowVars>>

Reasoned(s) ==
  LET answered == model[s].result \in {"success", "degraded"} IN
  /\ stage[s].at = "reason" /\ model[s].st = "done"
  /\ \E next \in
       (IF answered
        THEN {Verified(s, p, model[s].result = "degraded") : p \in SUBSET Candidates}
        ELSE {Verified(s, Baseline, TRUE)}):
       stage' = [stage EXCEPT ![s] = next]
  /\ model' = [model EXCEPT ![s] = NoCall]
  /\ UNCHANGED <<stopped, warned, budgetVars, storeVars, rowVars>>

\* ----------------------------------------------------------------- store
Clashes(row) == \E e \in evidence : e.id = row.id /\ e.rejected # row.rejected

\* One row at a time; the same identifier with another content blocks the stage.
WriteEvidence(s) == \E row \in stage[s].items :
  /\ stage[s].at = "write"
  /\ UNCHANGED <<callVars, relations, rowVars>>
  /\ IF Clashes(row)
     THEN Returned(s, "blocked") /\ UNCHANGED evidence
     ELSE /\ evidence' = evidence \cup {row}
          /\ stage' = [stage EXCEPT ![s].items = @ \ {row}]

\* A defect to test with: relations do not wait for the evidence.
WriteRelationEarly(s) == \E id \in stage[s].accepted :
  /\ stage[s].at = "write"
  /\ relations' = relations \cup {id}
  /\ stage' = [stage EXCEPT ![s].accepted = @ \ {id}]
  /\ UNCHANGED <<callVars, evidence, rowVars>>

WriteRelation(s) == \E id \in stage[s].accepted :
  /\ stage[s].at = "write" /\ stage[s].items = {}
  /\ relations' = relations \cup {id}
  /\ stage' = [stage EXCEPT ![s].accepted = @ \ {id}]
  /\ UNCHANGED <<callVars, evidence, rowVars>>

\* Output, revision and result.
Conclude(s) ==
  /\ stage[s].at = "write" /\ stage[s].items = {} /\ stage[s].accepted = {}
  /\ UNCHANGED <<callVars, storeVars, rowVars>>
  /\ Returned(s, IF stage[s].degraded \/ stage[s].missing THEN "degraded" ELSE "completed")

\* The store raises within the stage, or while its adapter keeps the output.
StoreFails(s) ==
  /\ stage[s].at = "write"
  /\ UNCHANGED <<callVars, storeVars, rowVars>>
  /\ Returned(s, "failed") \/ Raised(s)

\* The engine's time for the attempt is up and its task is cancelled, once: a
\* call under way ends with a result all the same, anything else raises.
TimeUp(s) ==
  /\ ~stage[s].timed
  /\ UNCHANGED <<storeVars, rowVars>>
  /\ \/ /\ stage[s].at = "reason"
        /\ TaskCancelled(s)
        /\ stage' = [stage EXCEPT ![s].timed = TRUE]
     \/ /\ stage[s].at = "collect" /\ ToolFits(Ledger[s])
        /\ ReserveTool(Ledger[s])
        /\ IF s \in Tolerant
           THEN /\ stage' = [stage EXCEPT ![s].at = "reason", ![s].missing = TRUE,
                                          ![s].timed = TRUE]
                /\ model' = [model EXCEPT ![s] = Called]
           ELSE Returned(s, "failed") /\ UNCHANGED model
        /\ UNCHANGED <<stopped, warned, late>>
     \/ /\ stage[s].at = "write"
        /\ UNCHANGED callVars
        /\ TimedOut(s)

\* ------------------------------------------------------------ environment
Cancel ==
  /\ stopped # Ledgers
  /\ stopped' = Ledgers
  /\ UNCHANGED <<model, warned, budgetVars, stage, storeVars, rowVars>>

\* What the stages have told of a dimension: each of them, one by one.
Told(d) == Cardinality(UNION {{s} \X (1..stage[s].sum[d]) : s \in Callers})

\* All stages of the group have a result: the row takes in what they report.
Join ==
  /\ ~joined
  /\ \A s \in Callers: stage[s].at = "done" /\ stage[s].status # "raised"
  /\ joined' = TRUE
  /\ spent' = Added(spent, [d \in Dimensions |-> Told(d)])
  /\ UNCHANGED <<callVars, stage, storeVars, restarts, lowered>>

\* The process dies and another one takes the run over, with a ledger that
\* begins at what the row has. Results are replayed, what was under way is
\* blocked by its reservation, and the rest is done now.
Restart ==
  /\ restarts < MaxRestarts /\ ~joined
  /\ restarts' = restarts + 1
  /\ model' = [s \in Callers |-> NoCall]
  /\ usage' = [l \in Ledgers |-> spent]
  /\ stopped' = {} /\ warned' = {} /\ lowered' = {}
  /\ stage' = [s \in Callers |->
       IF stage[s].at = "done" \/ stage[s] = FirstAttempt THEN stage[s]
       ELSE [FirstAttempt EXCEPT !.attempt = stage[s].attempt, !.uncounted = TRUE,
                                 !.at = "done", !.status = "blocked"]]
  /\ UNCHANGED <<late, storeVars, spent, joined>>

\* The deadline of the run passes, for every call that asks for a reservation.
Deadline == \E l \in Ledgers :
  /\ DeadlinePasses(l)
  /\ UNCHANGED <<gatewayVars, stage, storeVars, rowVars>>

\* The stage's call of the model.
CallStep(s) ==
  /\ GatewayStep(s)
  /\ lowered' = lowered \cup {l \in Ledgers : usage'[l].tokens < usage[l].tokens}
  /\ UNCHANGED <<stage, storeVars, spent, joined, restarts>>

StageStep(s) ==
  \/ Enter(s)
  \/ Profile(s)
  \/ Reasoned(s)
  \/ WriteEvidence(s)
  \/ WriteRelation(s)
  \/ Conclude(s)
  \/ CallStep(s)

Next ==
  \/ \E s \in Callers :
       \/ StageStep(s)
       \/ StoreFails(s)
       \/ TimeUp(s)
  \/ Cancel
  \/ Join
  \/ Restart
  \/ Deadline

Spec == Init /\ [][Next]_vars
=============================================================================
