------------------------------ MODULE QaAgent ------------------------------
(* The question-answering agent (agent/qa): one pipeline per chat run, made *)
(* of catalog and evidence tools, two model calls and deterministic checks. *)
(* Between two awaits the pipeline runs without interruption, so each action *)
(* stands for the code from the end of one call to the start of the next.   *)
EXTENDS ToolRuntime, FiniteSets

CONSTANTS Tables,          \* tables of the visible catalog
          Facts,           \* facts a tool result can hold
          Invented,        \* a fact identifier no tool returned
          NoTable,
          MaxQaCalls       \* QA_MAX_TOOL_CALLS

ASSUME QaAssumption ==
  /\ NoTable \notin Tables /\ Invented \notin Facts
  /\ MaxQaCalls \in Nat

VARIABLES qa      \* run -> its pipeline

qaFrame == <<stopped, warned, budgetVars>>

Intents == {"table", "relations", "overview", "status", "unknown"}

Pipeline ==
  [at: {"idle", "inventory", "plan", "step", "answer", "finished"}, calls: Nat,
   focus: Tables \cup {NoTable}, about: Tables \cup {NoTable}, intent: Intents,
   degraded: BOOLEAN, facts: SUBSET Facts, cites: SUBSET (Facts \cup {Invented}),
   result: {"none", "completed", "degraded", "blocked", "failed", "canceled"}]

NoPipeline ==
  [at |-> "idle", calls |-> 0, focus |-> NoTable, about |-> NoTable,
   intent |-> "unknown", degraded |-> FALSE, facts |-> {}, cites |-> {},
   result |-> "none"]

QaInit == qa = [r \in Callers |-> NoPipeline]

(* Entity resolution. A mention is told apart by the tables its text equals, *)
(* equals but for case, or names as an alias; a resemblance selects nothing. *)
Mentions ==
  [pronoun: BOOLEAN, exact: SUBSET Tables, folded: SUBSET Tables, alias: SUBSET Tables]

\* The tables of the first test that finds any.
Candidates(m, catalog) ==
  LET tests == <<m.exact \cap catalog, m.folded \cap catalog, m.alias \cap catalog>>
      found == {i \in 1..3 : tests[i] # {}}
  IN IF found = {} THEN {} ELSE tests[CHOOSE i \in found : \A j \in found : i <= j]

Resolve(m, catalog, focus) ==
  IF m.pronoun /\ focus \in catalog THEN focus
  ELSE LET hits == Candidates(m, catalog) IN
       IF Cardinality(hits) = 1 THEN CHOOSE t \in hits : TRUE ELSE NoTable

(* The grounding gate. A draft is told apart by the facts its claims name,  *)
(* the facts its citations cover and whether its text is just the claims.   *)
Drafts ==
  [claims: SUBSET (Facts \cup {Invented}), covered: SUBSET (Facts \cup {Invented}),
   located: BOOLEAN, plain: BOOLEAN]

Deterministic(facts) ==
  [claims |-> facts, covered |-> facts, located |-> TRUE, plain |-> TRUE]

Grounded(d, facts) ==
  /\ d.claims \subseteq facts /\ d.covered \subseteq facts
  /\ d.claims \subseteq d.covered
  /\ d.located /\ d.plain

\* ------------------------------------------------------------ tool loop
Finish(r, result) == qa' = [qa EXCEPT ![r].at = "finished", ![r].result = result]

\* A defect to test with: the cache is read before the token.
UseCacheFirst(r, pipeline) ==
  IF pipeline.intent = "overview"
  THEN qa' = [qa EXCEPT ![r] = pipeline] /\ UNCHANGED tool
  ELSE IF Ledger[r] \in stopped
  THEN Finish(r, "canceled") /\ UNCHANGED tool
  ELSE /\ qa' = [qa EXCEPT ![r] = [pipeline EXCEPT !.calls = @ + 1]]
       /\ tool' = [tool EXCEPT ![r] = [NoTool EXCEPT !.st = "ready"]]

\* The tool loop: cancellation, the cache (the catalog was listed already),
\* the bound on calls, then the tool.
Use(r, pipeline) ==
  IF Ledger[r] \in stopped
  THEN Finish(r, "canceled") /\ UNCHANGED tool
  ELSE IF pipeline.intent = "overview"
  THEN qa' = [qa EXCEPT ![r] = pipeline] /\ UNCHANGED tool
  ELSE IF pipeline.calls >= MaxQaCalls
  THEN Finish(r, "blocked") /\ UNCHANGED tool
  ELSE /\ qa' = [qa EXCEPT ![r] = [pipeline EXCEPT !.calls = @ + 1]]
       /\ tool' = [tool EXCEPT ![r] = [NoTool EXCEPT !.st = "ready"]]

\* ------------------------------------------------------------- pipeline
\* The question is too long or blank, or the catalog is listed first. The
\* focus is the table of the thread's last answer.
Ask(r, focus) == \E safe \in BOOLEAN:
  /\ qa[r].at = "idle"
  /\ IF safe
     THEN Use(r, [NoPipeline EXCEPT !.at = "inventory", !.focus = focus])
     ELSE Finish(r, "blocked") /\ UNCHANGED tool
  /\ UNCHANGED <<model, qaFrame>>

\* A defect to test with: a catalog that could not be listed is waited for.
ListedOnly(r) ==
  /\ qa[r].at = "inventory" /\ tool[r].st = "done"
  /\ tool[r].result = "success"
  /\ qa' = [qa EXCEPT ![r].at = "plan"]
  /\ model' = [model EXCEPT ![r] = Called]
  /\ UNCHANGED <<tool, qaFrame>>

Listed(r) ==
  /\ qa[r].at = "inventory" /\ tool[r].st = "done"
  /\ IF tool[r].result = "success"
     THEN /\ qa' = [qa EXCEPT ![r].at = "plan"]
          /\ model' = [model EXCEPT ![r] = Called]
     ELSE Finish(r, "failed") /\ UNCHANGED model
  /\ UNCHANGED <<tool, qaFrame>>

\* The catalog the pipeline sees: the summary of a large one lists no table.
Catalog(r) == IF tool[r].data = "whole" THEN Tables ELSE {}

\* What the mention of a plan may resolve to; without a model it is the name
\* of a table as the question spells it.
Resolved(r, mentions) == {Resolve(m, Catalog(r), qa[r].focus) : m \in mentions}
Spelled == {m \in Mentions : m.alias = {} /\ m.folded = {}}

\* What a plan may hold: the entity it names, if any, is told apart by the
\* table it resolves to. The plan without a model suggests no tool and asks
\* back when a table is needed and none is named.
Plans(tables) ==
  [intent: Intents, asks: BOOLEAN, forbidden: BOOLEAN, named: {{}} \cup {{t} : t \in tables}]
OwnPlans(tables) == {p \in Plans(tables) :
  ~p.forbidden /\ p.asks = (p.intent = "table" /\ p.named = {})}

\* The pipeline once the plan is validated and its mention resolved.
Planned(r, plan, degraded) ==
  LET refused == \/ plan.forbidden \/ plan.asks \/ plan.intent = "unknown"
                 \/ plan.intent = "table" /\ plan.named = {}
                 \/ NoTable \in plan.named
  IN IF refused
     THEN [qa[r] EXCEPT !.at = "finished", !.result = "blocked"]
     ELSE [qa[r] EXCEPT !.at = "step", !.intent = plan.intent, !.degraded = degraded,
                        !.about = IF plan.named = {} THEN NoTable
                                  ELSE CHOOSE t \in plan.named : TRUE]

Plan(r) ==
  LET degraded == model[r].result # "success"
      plans == IF model[r].result \in {"success", "degraded"}
               THEN Plans(Resolved(r, Mentions)) ELSE OwnPlans(Resolved(r, Spelled))
  IN
  /\ qa[r].at = "plan" /\ model[r].st = "done"
  /\ \E next \in {Planned(r, plan, degraded) : plan \in plans}:
       IF next.at = "finished"
       THEN qa' = [qa EXCEPT ![r] = next] /\ UNCHANGED tool
       ELSE Use(r, next)
  /\ model' = [model EXCEPT ![r] = NoCall]
  /\ UNCHANGED qaFrame

\* A defect to test with: the draft is published without the gate.
PublishedUnchecked(r, draft, degraded) ==
  [qa[r] EXCEPT !.at = "finished", !.cites = draft.claims,
                !.result = IF degraded \/ qa[r].degraded THEN "degraded" ELSE "completed"]

\* Publication of a draft, or of the deterministic answer in its place.
Published(r, draft, degraded) ==
  LET facts == qa[r].facts
      fits == Grounded(draft, facts)
      final == IF fits THEN draft ELSE Deterministic(facts)
      poor == degraded \/ ~fits \/ qa[r].degraded
  IN [qa[r] EXCEPT !.at = "finished", !.cites = final.claims,
                   !.result = IF poor THEN "degraded" ELSE "completed"]

\* A summary in place of a result has no facts in it; of a table or of the
\* analysis status even its identity is missing, and that is an error.
FactsOf(r) ==
  IF tool[r].data = "whole"
  THEN IF qa[r].intent = "status" THEN SUBSET Facts \ {{}} ELSE SUBSET Facts
  ELSE IF qa[r].intent = "status" THEN {} ELSE {{}}

Learned(r) ==
  /\ qa[r].at = "step" /\ tool[r].st = "done"
  /\ \/ /\ tool[r].result # "success"
        /\ Finish(r, "failed") /\ UNCHANGED model
     \/ /\ tool[r].result = "success" /\ tool[r].data = "summary"
        /\ qa[r].intent \in {"table", "status"}
        /\ Finish(r, "failed") /\ UNCHANGED model
     \/ /\ tool[r].result = "success"
        /\ \E facts \in FactsOf(r):
             IF facts = {}
             THEN /\ qa' = [qa EXCEPT ![r].at = "finished", ![r].result =
                              IF qa[r].degraded THEN "degraded" ELSE "completed"]
                  /\ UNCHANGED model
             ELSE /\ qa' = [qa EXCEPT ![r].at = "answer", ![r].facts = facts]
                  /\ model' = [model EXCEPT ![r] = Called]
  /\ tool' = [tool EXCEPT ![r] = NoTool]
  /\ UNCHANGED qaFrame

Synthesize(r) ==
  /\ qa[r].at = "answer" /\ model[r].st = "done"
  /\ LET poor == model[r].result = "degraded"
         own == Published(r, Deterministic(qa[r].facts), TRUE)
         drafted == IF model[r].result \in {"success", "degraded"}
                    THEN {Published(r, draft, poor) : draft \in Drafts} ELSE {}
     IN \E next \in drafted \cup {own}: qa' = [qa EXCEPT ![r] = next]
  /\ model' = [model EXCEPT ![r] = NoCall]
  /\ UNCHANGED <<tool, qaFrame>>

\* The store of the chat refuses an event of the pipeline, or an output is not
\* what its schema says.
Breaks(r) ==
  /\ \/ qa[r].at = "plan" /\ model[r].st = "done"
     \/ qa[r].at = "step" /\ tool[r].st = "done"
     \/ qa[r].at = "answer" /\ model[r].st = "done"
  /\ Finish(r, "failed")
  /\ UNCHANGED <<model, tool, qaFrame>>

QaStep(r) ==
  \/ Listed(r)
  \/ Plan(r)
  \/ Learned(r)
  \/ Synthesize(r)
  \/ Breaks(r)
=============================================================================
