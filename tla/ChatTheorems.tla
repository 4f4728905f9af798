----------------------------- MODULE ChatTheorems -----------------------------
(* What is proved of the chat: whatever the model drafts, the tools return   *)
(* and the runtime does, an answer cites only facts its own run has learned, *)
(* a run is answered once, and a cancelled one asks nothing any more.        *)
EXTENDS ChatProperties, FiniteSetTheorems, SequenceTheorems, WellFoundedInduction, TLAPS

(* A pipeline cites nothing before its answer is published, and then only    *)
(* what it has learned.                                                      *)
Honest(p) ==
  /\ DOMAIN p = DOMAIN NoPipeline
  /\ p.cites \subseteq p.facts
  /\ p.at # "finished" => p.cites = {}

PipelinesHonest == DOMAIN qa = Callers /\ \A r \in Callers: Honest(qa[r])

-----------------------------------------------------------------------------
(* The pipeline a run starts from, and falls back to when its task is lost.  *)
LEMMA FreshHonest == Honest(NoPipeline)
  BY DEF Honest, NoPipeline

(* Replacing one pipeline by an honest one keeps all of them honest.         *)
LEMMA OneReplaced ==
  ASSUME PipelinesHonest, NEW r \in Callers, NEW p, Honest(p),
         qa' = [qa EXCEPT ![r] = p]
  PROVE  PipelinesHonest'
  BY DEF PipelinesHonest

(* Finishing without an answer cites nothing.                                *)
LEMMA FinishHonest ==
  ASSUME PipelinesHonest, NEW r \in Callers, NEW result,
         qa[r].at # "finished", Finish(r, result)
  PROVE  PipelinesHonest'
<1> DEFINE p == [qa[r] EXCEPT !.at = "finished", !.result = result]
<1>1. qa' = [qa EXCEPT ![r] = p]
  BY DEF Finish, PipelinesHonest
<1>2. Honest(p)
  BY DEF Honest, PipelinesHonest, NoPipeline
<1> HIDE DEF p
<1>3. QED
  BY <1>1, <1>2, OneReplaced

(* The tool loop puts the pipeline it was given in place, counting one call, *)
(* or finishes.                                                              *)
LEMMA UseHonest ==
  ASSUME PipelinesHonest, NEW r \in Callers, NEW pipeline, Honest(pipeline),
         qa[r].at # "finished", Use(r, pipeline)
  PROVE  PipelinesHonest'
<1> DEFINE counted == [pipeline EXCEPT !.calls = @ + 1]
<1>1. CASE Finish(r, "canceled") \/ Finish(r, "blocked")
  BY <1>1, FinishHonest
<1>2. CASE qa' = [qa EXCEPT ![r] = pipeline]
  BY <1>2, OneReplaced
<1>3. CASE qa' = [qa EXCEPT ![r] = counted]
  <2>1. Honest(counted)
    BY DEF Honest, NoPipeline
  <2> HIDE DEF counted
  <2>2. QED
    BY <1>3, <2>1, OneReplaced
<1>4. QED
  BY <1>1, <1>2, <1>3 DEF Use

(* A question starts a fresh pipeline.                                       *)
LEMMA AskHonest ==
  ASSUME PipelinesHonest, NEW r \in Callers, NEW focus, Ask(r, focus)
  PROVE  PipelinesHonest'
<1> DEFINE p == [NoPipeline EXCEPT !.at = "inventory", !.focus = focus]
<1>1. Honest(p) /\ qa[r].at # "finished"
  BY DEF Honest, NoPipeline, Ask
<1> HIDE DEF p
<1>2. Use(r, p) \/ Finish(r, "blocked")
  BY DEF Ask, p
<1>3. QED
  BY <1>1, <1>2, UseHonest, FinishHonest

(* The catalog is listed: the plan is asked for, or nothing is answered.     *)
LEMMA ListedHonest ==
  ASSUME PipelinesHonest, NEW r \in Callers, Listed(r)
  PROVE  PipelinesHonest'
<1> DEFINE p == [qa[r] EXCEPT !.at = "plan"]
<1>1. CASE Finish(r, "failed")
  BY <1>1, FinishHonest DEF Listed
<1>2. CASE qa' = [qa EXCEPT ![r].at = "plan"]
  <2>1. Honest(p) /\ qa' = [qa EXCEPT ![r] = p]
    BY <1>2 DEF Honest, PipelinesHonest, NoPipeline, Listed
  <2> HIDE DEF p
  <2>2. QED
    BY <2>1, OneReplaced
<1>3. QED
  BY <1>1, <1>2 DEF Listed

(* A plan is refused, or its tool is called.                                 *)
LEMMA PlanHonest ==
  ASSUME PipelinesHonest, NEW r \in Callers, Plan(r)
  PROVE  PipelinesHonest'
<1>1. PICK plan, degraded: LET next == Planned(r, plan, degraded) IN
        qa' = [qa EXCEPT ![r] = next] \/ Use(r, next)
  BY DEF Plan
<1> DEFINE next == Planned(r, plan, degraded)
<1>2. Honest(next) /\ qa[r].at # "finished"
  BY DEF Planned, Honest, PipelinesHonest, NoPipeline, Plan
<1> HIDE DEF next
<1>3. QED
  BY <1>1, <1>2, OneReplaced, UseHonest DEF next

(* Facts are learned before anything is cited.                               *)
LEMMA LearnedHonest ==
  ASSUME PipelinesHonest, NEW r \in Callers, Learned(r)
  PROVE  PipelinesHonest'
<1>1. qa[r].at # "finished" /\ Honest(qa[r]) /\ DOMAIN qa = Callers
  BY DEF Learned, PipelinesHonest
<1>2. CASE Finish(r, "failed")
  BY <1>1, <1>2, FinishHonest
<1>3. ASSUME NEW result,
             qa' = [qa EXCEPT ![r].at = "finished", ![r].result = result]
      PROVE  PipelinesHonest'
  BY <1>1, <1>3, FinishHonest DEF Finish
<1>4. ASSUME NEW facts, qa' = [qa EXCEPT ![r].at = "answer", ![r].facts = facts]
      PROVE  PipelinesHonest'
  <2> DEFINE p == [qa[r] EXCEPT !.at = "answer", !.facts = facts]
  <2>1. Honest(p) /\ qa' = [qa EXCEPT ![r] = p]
    BY <1>1, <1>4 DEF Honest, NoPipeline
  <2> HIDE DEF p
  <2>2. QED
    BY <2>1, OneReplaced
<1>5. QED
  BY <1>2, <1>3, <1>4 DEF Learned

(* The gate: a draft that names a fact the run has not learned is replaced.  *)
LEMMA PublishedHonest ==
  ASSUME NEW r \in Callers, Honest(qa[r]), NEW draft, NEW degraded
  PROVE  Honest(Published(r, draft, degraded))
<1> DEFINE final == IF Grounded(draft, qa[r].facts) THEN draft ELSE Deterministic(qa[r].facts)
           p(result) == [qa[r] EXCEPT !.at = "finished", !.cites = final.claims,
                                      !.result = result]
<1>1. final.claims \subseteq qa[r].facts
  BY DEF Grounded, Deterministic
<1> HIDE DEF final
<1>2. \A result: Honest(p(result))
  BY <1>1 DEF Honest, NoPipeline
<1>3. \E result: Published(r, draft, degraded) = p(result)
  BY DEF Published, final
<1>4. QED
  BY <1>2, <1>3

(* An answer is published through the gate only.                             *)
LEMMA SynthesizeHonest ==
  ASSUME PipelinesHonest, NEW r \in Callers, Synthesize(r)
  PROVE  PipelinesHonest'
<1>1. \E draft, degraded: qa' = [qa EXCEPT ![r] = Published(r, draft, degraded)]
  <2> DEFINE own == Published(r, Deterministic(qa[r].facts), TRUE)
             poor == model[r].result = "degraded"
  <2>1. CASE qa' = [qa EXCEPT ![r] = own]
    BY <2>1
  <2>2. CASE \E draft \in Drafts: qa' = [qa EXCEPT ![r] = Published(r, draft, poor)]
    BY <2>2
  <2> DEFINE drafts == IF model[r].result \in {"success", "degraded"}
                      THEN {Published(r, draft, poor) : draft \in Drafts} ELSE {}
  <2>3. PICK next \in drafts \cup {own}: qa' = [qa EXCEPT ![r] = next]
    BY DEF Synthesize
  <2>4. CASE next = own
    BY <2>1, <2>3, <2>4
  <2>5. CASE next \in drafts
    <3>1. PICK draft \in Drafts: next = Published(r, draft, poor)
      BY <2>5
    <3>2. QED
      BY <2>2, <2>3, <3>1
  <2>6. QED
    BY <2>3, <2>4, <2>5
<1>2. PICK draft, degraded: qa' = [qa EXCEPT ![r] = Published(r, draft, degraded)]
  BY <1>1
<1>3. Honest(Published(r, draft, degraded))
  BY PublishedHonest DEF PipelinesHonest
<1>4. QED
  BY <1>2, <1>3, OneReplaced

(* A pipeline whose task is lost, or whose run has ended, starts afresh.     *)
LEMMA DroppedHonest ==
  ASSUME PipelinesHonest, NEW runs, Dropped(runs)
  PROVE  PipelinesHonest'
  BY FreshHonest DEF Dropped, PipelinesHonest

-----------------------------------------------------------------------------
(* Every step of the chat keeps the pipelines honest.                        *)
LEMMA HonestStep == PipelinesHonest /\ [Next]_vars => PipelinesHonest'
<1> SUFFICES ASSUME PipelinesHonest, [Next]_vars PROVE PipelinesHonest'
  OBVIOUS
<1>1. ASSUME qa' = qa PROVE PipelinesHonest'
  BY <1>1 DEF PipelinesHonest
<1>2. ASSUME NEW r \in Callers, Task(r) PROVE PipelinesHonest'
  <2>1. CASE Execute(r)
    BY <2>1, <1>1 DEF Execute
  <2>2. CASE AskAgent(r)
    BY <2>2, AskHonest DEF AskAgent
  <2>3. CASE QaStep(r)
    <3>1. CASE Listed(r)
      BY <3>1, ListedHonest
    <3>2. CASE Plan(r)
      BY <3>2, PlanHonest
    <3>3. CASE Learned(r)
      BY <3>3, LearnedHonest
    <3>4. CASE Synthesize(r)
      BY <3>4, SynthesizeHonest
    <3>5. CASE Breaks(r)
      BY <3>5, FinishHonest DEF Breaks
    <3>6. QED
      BY <2>3, <3>1, <3>2, <3>3, <3>4, <3>5 DEF QaStep
  <2>4. CASE CompleteRun(r)
    BY <2>4, DroppedHonest DEF CompleteRun
  <2>5. CASE UNCHANGED qa
    BY <2>5, <1>1
  <2>6. QED
    BY <1>2, <2>1, <2>2, <2>3, <2>4, <2>5 DEF Task
<1>3. ASSUME Crash \/ \E r \in Callers: TaskFails(r) PROVE PipelinesHonest'
  BY <1>3, DroppedHonest DEF Crash, TaskFails
<1>4. ASSUME NEW c \in Clients, Post(c) \/ Follow(c) PROVE PipelinesHonest'
  BY <1>1, <1>4 DEF Post, Follow, agentVars
<1>5. ASSUME NEW c \in Clients, Poll(c) \/ GiveUp(c) \/ Cancel(c) PROVE PipelinesHonest'
  BY <1>1, <1>5 DEF Poll, GiveUp, Cancel, agentVars
<1>6. CASE UNCHANGED vars
  BY <1>1, <1>6 DEF vars, agentVars
<1>7. ASSUME UNCHANGED <<qa, tool, chatVars>> PROVE PipelinesHonest'
  BY <1>1, <1>7
<1>8. QED
  BY <1>2, <1>3, <1>4, <1>5, <1>6, <1>7 DEF Next

(* No answer cites a fact that no tool of its run returned, for any number   *)
(* of runs, clients, tables and facts, and whatever the model drafts         *)
(* (answer_verifier.py, verify; agent.py, run).                              *)
THEOREM AnswersGrounded == Spec => []AnswersAreGrounded
<1>1. Init => PipelinesHonest
  BY FreshHonest DEF Init, QaInit, PipelinesHonest
<1>2. PipelinesHonest => AnswersAreGrounded
  BY DEF PipelinesHonest, Honest, AnswersAreGrounded
<1>3. QED
  BY <1>1, <1>2, HonestStep, PTL DEF Spec

-----------------------------------------------------------------------------
(* The calls of the runs: the attempts that are left for a call that waits   *)
(* for another one, and the reservation of a model call that is under way.   *)
CallsTyped ==
  /\ usage \in [Ledgers -> Usage] /\ late \subseteq Ledgers
  /\ stopped \subseteq Ledgers /\ warned \subseteq Ledgers
  /\ model \in [Callers -> ModelCall] /\ tool \in [Callers -> ToolCall]
CallsLeft == \A c \in Callers:
  /\ model[c].st \in {"ready", "backoff"} => model[c].attempt <= MaxRetries
  /\ model[c].st = "asked" => Estimate <= usage[Ledger[c]].tokens
  /\ tool[c].st \in {"ready", "backoff"} => tool[c].attempt <= 1
CallsSound == CallsTyped /\ CallsLeft

-----------------------------------------------------------------------------
(* One model call is replaced by another one. *)
LEMMA ModelReplaced ==
  ASSUME CallsSound, NEW c \in Callers, NEW call \in ModelCall,
         model' = [model EXCEPT ![c] = call],
         call.st \in {"ready", "backoff"} => call.attempt <= MaxRetries,
         call.st # "asked", tool' \in [Callers -> ToolCall],
         \A d \in Callers: tool'[d].st \in {"ready", "backoff"} => tool'[d].attempt <= 1,
         UNCHANGED <<usage, late, stopped>>, warned' \subseteq Ledgers
  PROVE  CallsSound'
  BY DEF CallsSound, CallsTyped, CallsLeft

(* A reservation adds to what the ledger has counted. *)
LEMMA Reserved ==
  ASSUME NEW u \in Usage, NEW e \in Nat
  PROVE  [u EXCEPT !.model = @ + 1, !.tokens = @ + e] \in Usage
<1>1. u.model + 1 \in Nat /\ u.tokens + e \in Nat
  BY DEF Usage
<1>2. PICK x \in Nat, y \in Nat: x = u.model + 1 /\ y = u.tokens + e
  BY <1>1
<1>3. [u EXCEPT !.model = x, !.tokens = y] \in Usage
  BY DEF Usage
<1>4. QED
  BY <1>2, <1>3, Zenon

(* The calls that a new phase, a pause or an ending leaves. *)
LEMMA CallsMade ==
  ASSUME CallsSound, NEW c \in Callers
  PROVE  /\ Called \in ModelCall /\ Called.st = "ready" /\ Called.attempt = 0
         /\ NoCall \in ModelCall /\ NoCall.st = "idle"
         /\ \A p \in Phase: LET m == [Called EXCEPT !.phase = p] IN
              m \in ModelCall /\ m.st = "ready" /\ m.attempt = 0
         /\ \A result \in {"success", "degraded", "cancelled", "error"}:
              LET m == [model[c] EXCEPT !.st = "done", !.result = result] IN
              /\ m \in ModelCall /\ m.st = "done"
              /\ Ended(c, result) => model' = [model EXCEPT ![c] = m]
<1>1. 0 \in 0..MaxRetries + 1 /\ "first" \in Phase
  BY GatewayAssumption DEF Phase
<1>2. model \in [Callers -> ModelCall]
  BY DEF CallsSound, CallsTyped
<1>3. /\ Called \in ModelCall /\ Called.st = "ready" /\ Called.attempt = 0
      /\ NoCall \in ModelCall /\ NoCall.st = "idle"
      /\ \A p \in Phase: LET m == [Called EXCEPT !.phase = p] IN
              m \in ModelCall /\ m.st = "ready" /\ m.attempt = 0
  BY <1>1 DEF Called, NoCall, ModelCall
<1>4. ASSUME NEW result \in {"success", "degraded", "cancelled", "error"}
      PROVE  LET m == [model[c] EXCEPT !.st = "done", !.result = result] IN
              /\ m \in ModelCall /\ m.st = "done"
              /\ Ended(c, result) => model' = [model EXCEPT ![c] = m]
  BY <1>2 DEF ModelCall, Ended
<1>5. QED
  BY <1>3, <1>4

(* The end of a phase leaves the call over, or at the start of another one. *)
LEMMA PhaseEnds ==
  ASSUME CallsSound, NEW c \in Callers, NEW first, NextPhase(c, first)
  PROVE  \E m \in ModelCall: /\ model' = [model EXCEPT ![c] = m]
                             /\ m.st \in {"ready", "done"} /\ (m.st = "ready" => m.attempt = 0)
<1>1. CASE Ended(c, "error")
  <2> DEFINE m == [model[c] EXCEPT !.st = "done", !.result = "error"]
  <2>1. m \in ModelCall /\ m.st = "done" /\ model' = [model EXCEPT ![c] = m]
    BY <1>1, CallsMade
  <2> HIDE DEF m
  <2>2. QED
    BY <2>1
<1>2. ASSUME NEW p \in Phase, model' = [model EXCEPT ![c] = [Called EXCEPT !.phase = p]]
      PROVE  \E m \in ModelCall: /\ model' = [model EXCEPT ![c] = m]
                             /\ m.st \in {"ready", "done"} /\ (m.st = "ready" => m.attempt = 0)
  <2> DEFINE m == [Called EXCEPT !.phase = p]
  <2>1. m \in ModelCall /\ m.st = "ready" /\ m.attempt = 0
    BY CallsMade
  <2> HIDE DEF m
  <2>2. QED
    BY <1>2, <2>1 DEF m
<1>3. "repair" \in Phase /\ "fallback" \in Phase
  BY DEF Phase
<1>4. QED
  BY <1>1, <1>2, <1>3 DEF NextPhase

(* A model call that is ended or started anew in a step that reserves nothing. *)
LEMMA PhaseKeeps ==
  ASSUME CallsSound, NEW c \in Callers,
         \/ \E first: NextPhase(c, first)
         \/ \E result \in {"success", "degraded", "cancelled", "error"}: Ended(c, result),
         UNCHANGED <<usage, late, stopped, warned, tool>>
  PROVE  CallsSound'
<1>1. PICK m \in ModelCall: /\ model' = [model EXCEPT ![c] = m]
                            /\ m.st \in {"ready", "done"} /\ (m.st = "ready" => m.attempt = 0)
  BY PhaseEnds, CallsMade
<1>2. tool' \in [Callers -> ToolCall] /\ warned' \subseteq Ledgers
      /\ \A d \in Callers: tool'[d].st \in {"ready", "backoff"} => tool'[d].attempt <= 1
  BY DEF CallsSound, CallsTyped, CallsLeft
<1>3. 0 <= MaxRetries
  BY GatewayAssumption
<1>4. QED
  BY <1>1, <1>2, <1>3, ModelReplaced

(* The steps of the gateway. *)
LEMMA GatewayKeeps ==
  ASSUME CallsSound, NEW c \in Callers, GatewayStep(c) \/ SinkFails(c), tool' = tool
  PROVE  CallsSound'
<1> DEFINE l == Ledger[c]
<1>0. /\ usage \in [Ledgers -> Usage] /\ model \in [Callers -> ModelCall] /\ l \in Ledgers
      /\ MaxRetries \in Nat /\ Estimate \in Nat /\ Actual \subseteq Nat
      /\ \A a, b \in Callers: Ledger[a] = Ledger[b] => a = b
      /\ Ledger \in [Callers -> Ledgers]
  BY GatewayAssumption, ChatAssumption DEF CallsSound, CallsTyped
<1>1. CASE Misconfigured(c)
  BY <1>1, PhaseKeeps DEF Misconfigured, budgetVars
<1>2. CASE Send(c)
  <2>1. CASE l \in stopped \/ ~ModelFits(l, Estimate)
    BY <1>2, <2>1, PhaseKeeps DEF Send
  <2>2. CASE l \notin stopped /\ ModelFits(l, Estimate)
    <3>1. /\ model[c].st = "ready" /\ UNCHANGED <<warned, stopped, late>>
          /\ model' = [model EXCEPT ![c].st = "asked", ![c].attempt = @ + 1]
          /\ usage' = [usage EXCEPT ![l].model = @ + 1, ![l].tokens = @ + Estimate]
      BY <1>2, <2>2 DEF Send, ReserveModel
    <3>2. usage' \in [Ledgers -> Usage]
      <4> DEFINE u == [usage[l] EXCEPT !.model = @ + 1, !.tokens = @ + Estimate]
      <4>1. u \in Usage
        BY <1>0, Reserved
      <4>2. usage' = [usage EXCEPT ![l] = u]
        BY <1>0, <3>1
      <4> HIDE DEF u
      <4>3. QED
        BY <1>0, <4>1, <4>2
    <3>3. /\ usage'[l].tokens = usage[l].tokens + Estimate /\ usage[l].tokens \in Nat
          /\ \A k \in Ledgers: k # l => usage'[k] = usage[k]
      BY <1>0, <3>1 DEF Usage
    <3>4. model[c].attempt \in 0..MaxRetries + 1 /\ model[c].attempt <= MaxRetries
      BY <1>0, <3>1 DEF CallsSound, CallsLeft, ModelCall
    <3>5. model[c].attempt + 1 \in 0..MaxRetries + 1
      BY <1>0, <3>4
    <3>6. /\ model' \in [Callers -> ModelCall] /\ model'[c].st = "asked"
          /\ \A d \in Callers: d # c => model'[d] = model[d]
      BY <1>0, <3>1, <3>5 DEF ModelCall
    <3>7. CallsTyped'
      BY <3>1, <3>2, <3>6 DEF CallsSound, CallsTyped
    <3>8. \A d \in Callers: model'[d].st = "asked" => Estimate <= usage'[Ledger[d]].tokens
      <4>1. Estimate <= usage'[l].tokens
        BY <1>0, <3>3
      <4>2. QED
        BY <1>0, <3>3, <3>6, <4>1 DEF CallsSound, CallsLeft
    <3>9. QED
      BY <3>6, <3>7, <3>8 DEF CallsSound, CallsLeft
  <2>3. QED
    BY <1>2, <2>1, <2>2 DEF Send
<1>3. CASE Answer(c)
  <2>1. CASE UNCHANGED usage /\ \E first: NextPhase(c, first)
    BY <1>3, <2>1, PhaseKeeps DEF Answer
  <2>2. ASSUME NEW actual \in Actual, NEW valid \in BOOLEAN, NEW lacking \in BOOLEAN, SettleModel(l, Estimate, actual),
               IF valid THEN Completed(c, lacking) ELSE NextPhase(c, "invalid")
        PROVE  CallsSound'
    <3>1. /\ model[c].st = "asked" /\ UNCHANGED <<warned, stopped, late>>
      BY <1>3 DEF Answer
    <3>2. Estimate <= usage[l].tokens /\ usage[l].tokens \in Nat /\ actual \in Nat
      BY <1>0, <3>1 DEF CallsSound, CallsLeft, Usage
    <3>3. usage[l].tokens - Estimate + actual \in Nat
      BY <1>0, <3>2
    <3>4. /\ usage' \in [Ledgers -> Usage]
          /\ \A k \in Ledgers: k # l => usage'[k] = usage[k]
      BY <1>0, <2>2, <3>3 DEF SettleModel, Usage
    <3>5. \E result \in {"success", "degraded", "cancelled", "error"}: valid => Ended(c, result)
      BY <2>2 DEF Completed
    <3>6. PICK m \in ModelCall: /\ model' = [model EXCEPT ![c] = m]
                                /\ m.st \in {"ready", "done"} /\ (m.st = "ready" => m.attempt = 0)
      BY <2>2, <3>5, PhaseEnds, CallsMade
    <3>7. /\ model' \in [Callers -> ModelCall] /\ model'[c] = m
          /\ \A d \in Callers: d # c => model'[d] = model[d]
      BY <1>0, <3>6
    <3>8. CallsTyped'
      BY <3>1, <3>4, <3>7 DEF CallsSound, CallsTyped
    <3>9. QED
      BY <1>0, <3>4, <3>6, <3>7, <3>8 DEF CallsSound, CallsLeft
  <2>3. QED
    BY <1>3, <2>1, <2>2 DEF Answer
<1>4. CASE ProviderFails(c)
  <2>1. CASE model' = [model EXCEPT ![c].st = "backoff"] /\ model[c].attempt < MaxRetries + 1
    <3> DEFINE m == [model[c] EXCEPT !.st = "backoff"]
    <3>1. m \in ModelCall /\ m.st = "backoff" /\ m.attempt <= MaxRetries /\ model' = [model EXCEPT ![c] = m]
      BY <1>0, <2>1 DEF ModelCall
    <3> HIDE DEF m
    <3>2. QED
      BY <1>4, <3>1, ModelReplaced DEF ProviderFails, budgetVars, CallsSound, CallsTyped, CallsLeft
  <2>2. CASE NextPhase(c, "error")
    BY <1>4, <2>2, PhaseKeeps DEF ProviderFails, budgetVars
  <2>3. QED
    BY <1>4, <2>1, <2>2 DEF ProviderFails
<1>5. CASE WakesUp(c)
  <2> DEFINE m == [model[c] EXCEPT !.st = "ready"]
  <2>1. m \in ModelCall /\ m.st = "ready" /\ m.attempt <= MaxRetries /\ model' = [model EXCEPT ![c] = m]
    BY <1>0, <1>5 DEF ModelCall, WakesUp, CallsSound, CallsLeft
  <2> HIDE DEF m
  <2>2. QED
    BY <1>5, <2>1, ModelReplaced DEF WakesUp, budgetVars, CallsSound, CallsTyped, CallsLeft
<1>6. CASE SinkFails(c)
  BY <1>0, <1>6 DEF SinkFails, budgetVars, CallsSound, CallsTyped, CallsLeft
<1>7. QED
  BY <1>1, <1>2, <1>3, <1>4, <1>5, <1>6 DEF GatewayStep

(* The steps of a tool. *)
LEMMA ToolReplaced ==
  ASSUME CallsSound, NEW c \in Callers, NEW call \in ToolCall,
         tool' = [tool EXCEPT ![c] = call],
         call.st \in {"ready", "backoff"} => call.attempt <= 1,
         UNCHANGED <<usage, late, stopped, warned, model>>
  PROVE  CallsSound'
  BY DEF CallsSound, CallsTyped, CallsLeft

LEMMA ToolKeeps ==
  ASSUME CallsSound, NEW c \in Callers, ToolStep(c)
  PROVE  CallsSound'
<1> DEFINE l == Ledger[c]
<1>0. /\ usage \in [Ledgers -> Usage] /\ tool \in [Callers -> ToolCall] /\ l \in Ledgers
      /\ tool[c] \in ToolCall /\ Ledger \in [Callers -> Ledgers]
  BY GatewayAssumption DEF CallsSound, CallsTyped
<1>1. ASSUME NEW result \in {"success", "error", "cancelled"}, NEW data \in {"none", "whole", "summary"},
             ToolEnded(c, result, data), UNCHANGED <<usage, late, stopped, warned, model>>
      PROVE  CallsSound'
  <2> DEFINE call == [tool[c] EXCEPT !.st = "done", !.result = result, !.data = data]
  <2>1. call \in ToolCall /\ call.st = "done" /\ tool' = [tool EXCEPT ![c] = call]
    BY <1>0, <1>1 DEF ToolEnded, ToolCall
  <2> HIDE DEF call
  <2>2. QED
    BY <1>1, <2>1, ToolReplaced
<1>2. ASSUME NEW st \in {"storing", "backoff", "ready"}, tool' = [tool EXCEPT ![c].st = st],
             st # "storing" => tool[c].attempt <= 1, UNCHANGED <<usage, late, stopped, warned, model>>
      PROVE  CallsSound'
  <2> DEFINE call == [tool[c] EXCEPT !.st = st]
  <2>1. /\ call \in ToolCall /\ call.st = st /\ call.attempt = tool[c].attempt
        /\ tool' = [tool EXCEPT ![c] = call]
    BY <1>0, <1>2 DEF ToolCall
  <2> HIDE DEF call
  <2>2. QED
    BY <1>2, <2>1, ToolReplaced
<1>3. CASE Refuse(c)
  BY <1>1, <1>3 DEF Refuse, toolFrame, budgetVars
<1>4. CASE Invoke(c)
  <2>1. CASE l \in stopped \/ ~ToolFits(l)
    BY <1>1, <1>4, <2>1 DEF Invoke, toolFrame
  <2>2. CASE l \notin stopped /\ ToolFits(l)
    <3>1. /\ tool[c].st = "ready" /\ UNCHANGED <<late, stopped, warned, model>>
          /\ usage' = [usage EXCEPT ![l].tool = @ + 1]
          /\ tool' = [tool EXCEPT ![c].st = "running", ![c].attempt = @ + 1]
      BY <1>4, <2>2 DEF Invoke, ReserveTool, toolFrame
    <3>2. tool[c].attempt \in 0..2 /\ tool[c].attempt <= 1
      BY <1>0, <3>1 DEF CallsSound, CallsLeft, ToolCall
    <3>3. /\ tool' \in [Callers -> ToolCall] /\ tool'[c].st = "running"
          /\ \A d \in Callers: d # c => tool'[d] = tool[d]
      <4> DEFINE call == [tool[c] EXCEPT !.st = "running", !.attempt = @ + 1]
      <4>1. tool[c].attempt + 1 \in 0..2
        BY <3>2
      <4>2. call \in ToolCall /\ call.st = "running" /\ tool' = [tool EXCEPT ![c] = call]
        BY <1>0, <3>1, <4>1 DEF ToolCall
      <4> HIDE DEF call
      <4>3. QED
        BY <1>0, <4>2
    <3>4. /\ usage' \in [Ledgers -> Usage]
          /\ \A k \in Ledgers: usage'[k].tokens = usage[k].tokens
      <4> DEFINE u == [usage[l] EXCEPT !.tool = @ + 1]
      <4>1. u \in Usage /\ u.tokens = usage[l].tokens /\ usage' = [usage EXCEPT ![l] = u]
        BY <1>0, <3>1 DEF Usage
      <4> HIDE DEF u
      <4>2. QED
        BY <1>0, <4>1
    <3>5. CallsTyped'
      BY <3>1, <3>3, <3>4 DEF CallsSound, CallsTyped
    <3>6. QED
      BY <1>0, <3>1, <3>3, <3>4, <3>5 DEF CallsSound, CallsLeft
  <2>3. QED
    BY <2>1, <2>2
<1>5. CASE Returns(c)
  <2>1. PICK output \in {"invalid", "small", "large"}:
          CASE output = "invalid" -> ToolEnded(c, "error", "none")
            [] output = "small" -> ToolEnded(c, "success", "whole")
            [] output = "large" -> tool' = [tool EXCEPT ![c].st = "storing"]
    BY <1>5 DEF Returns
  <2>2. \/ ToolEnded(c, "error", "none") \/ ToolEnded(c, "success", "whole")
        \/ tool' = [tool EXCEPT ![c].st = "storing"]
    BY <2>1
  <2>3. QED
    BY <1>1, <1>2, <1>5, <2>2 DEF Returns, toolFrame, budgetVars
<1>6. CASE Stores(c)
  BY <1>1, <1>6 DEF Stores, toolFrame, budgetVars
<1>7. CASE Fails(c)
  <2>1. CASE tool[c].attempt < Attempts(ReadOnly)
    <3>1. Attempts(ReadOnly) = 2
      BY DEF Attempts, ReadOnly, ToolSpec
    <3>2. tool[c].attempt <= 1
      BY <1>0, <2>1, <3>1 DEF ToolCall
    <3>3. QED
      BY <1>2, <1>7, <2>1, <3>2 DEF Fails, toolFrame, budgetVars
  <2>2. CASE ~(tool[c].attempt < Attempts(ReadOnly))
    BY <1>1, <1>7, <2>2 DEF Fails, toolFrame, budgetVars
  <2>3. QED
    BY <2>1, <2>2
<1>8. CASE Again(c)
  <2>1. tool[c].attempt <= 1
    BY <1>8 DEF Again, CallsSound, CallsLeft
  <2>2. QED
    BY <1>2, <1>8, <2>1 DEF Again, toolFrame, budgetVars
<1>9. QED
  BY <1>3, <1>4, <1>5, <1>6, <1>7, <1>8 DEF ToolStep

(* The agent calls a model or a tool anew, or puts a call away. *)
AgentCalls(r) ==
  /\ model' \in {model, [model EXCEPT ![r] = Called], [model EXCEPT ![r] = NoCall]}
  /\ tool' \in {tool, [tool EXCEPT ![r] = NoTool], [tool EXCEPT ![r] = [NoTool EXCEPT !.st = "ready"]]}
  /\ UNCHANGED qaFrame

LEMMA AgentKeeps ==
  ASSUME CallsSound, NEW r \in Callers, AgentCalls(r)
  PROVE  CallsSound'
<1>1. /\ model \in [Callers -> ModelCall] /\ tool \in [Callers -> ToolCall]
      /\ UNCHANGED <<usage, late, stopped, warned>> /\ warned \subseteq Ledgers
  BY DEF CallsSound, CallsTyped, AgentCalls, qaFrame, budgetVars
<1>2. /\ Called \in ModelCall /\ Called.st = "ready" /\ Called.attempt = 0
      /\ NoCall \in ModelCall /\ NoCall.st = "idle"
  BY CallsMade
<1>3. /\ NoTool \in ToolCall /\ NoTool.st = "idle"
      /\ [NoTool EXCEPT !.st = "ready"] \in ToolCall
      /\ [NoTool EXCEPT !.st = "ready"].attempt = 0
  BY DEF NoTool, ToolCall
<1>4. /\ tool' \in [Callers -> ToolCall]
      /\ \A d \in Callers: tool'[d].st \in {"ready", "backoff"} => tool'[d].attempt <= 1
  <2> DEFINE ready == [NoTool EXCEPT !.st = "ready"]
  <2>1. tool' \in {tool, [tool EXCEPT ![r] = NoTool], [tool EXCEPT ![r] = ready]}
    BY DEF AgentCalls
  <2>2. ready \in ToolCall /\ ready.attempt = 0
    BY <1>3
  <2>3. \A d \in Callers: tool[d].st \in {"ready", "backoff"} => tool[d].attempt <= 1
    BY DEF CallsSound, CallsLeft
  <2> HIDE DEF ready
  <2>4. QED
    BY <1>1, <1>3, <2>1, <2>2, <2>3
<1>5. 0 <= MaxRetries
  BY GatewayAssumption
<1>6. ASSUME NEW m \in ModelCall, model' = [model EXCEPT ![r] = m], m.st \in {"ready", "idle"},
             m.st = "ready" => m.attempt = 0
      PROVE  CallsSound'
  BY <1>1, <1>4, <1>5, <1>6, ModelReplaced
<1>7. CASE model' = model
  BY <1>1, <1>4, <1>7 DEF CallsSound, CallsTyped, CallsLeft
<1>8. QED
  BY <1>2, <1>6, <1>7 DEF AgentCalls

(* The contexts of some runs are gone: those of the others are other ones. *)
LEMMA DroppedKeeps ==
  ASSUME CallsSound, NEW runs \in SUBSET Callers, Dropped(runs)
  PROVE  CallsSound'
<1> DEFINE ledgers == {Ledger[r] : r \in runs}
<1>1. /\ NoCall \in ModelCall /\ NoCall.st = "idle" /\ NoTool \in ToolCall /\ NoTool.st = "idle"
      /\ NoUsage \in Usage
  BY GatewayAssumption DEF NoCall, ModelCall, Phase, NoTool, ToolCall, NoUsage, Usage
<1>2. /\ model' = [r \in Callers |-> IF r \in runs THEN NoCall ELSE model[r]]
      /\ tool' = [r \in Callers |-> IF r \in runs THEN NoTool ELSE tool[r]]
      /\ usage' = [l \in Ledgers |-> IF l \in ledgers THEN NoUsage ELSE usage[l]]
      /\ stopped' = stopped \ ledgers /\ warned' = warned \ ledgers /\ late' = late \ ledgers
  BY DEF Dropped
<1>3. \A r \in Callers: r \notin runs => Ledger[r] \notin ledgers
  BY ChatAssumption
<1> HIDE DEF ledgers
<1>4. CallsTyped'
  BY <1>1, <1>2 DEF CallsSound, CallsTyped
<1>5. QED
  BY <1>1, <1>2, <1>3, <1>4, GatewayAssumption DEF CallsSound, CallsLeft

-----------------------------------------------------------------------------
(* What a pipeline may hold, and that it does not finish without a result. *)
PipelinesTyped ==
  /\ qa \in [Callers -> Pipeline]
  /\ \A r \in Callers: qa[r].at = "finished" => qa[r].result # "none"

(* The last of some positions. *)
LEMMA LastPosition ==
  ASSUME NEW n \in Nat, NEW S \in SUBSET (1..n), S # {}
  PROVE  \E i \in S: \A j \in S: j <= i
<1> DEFINE R == OpToRel(<, Nat)
           T == {n - i : i \in S}
<1>1. IsWellFoundedOn(R, Nat)
  BY NatLessThanWellFounded
<1>2. T \subseteq Nat /\ T # {}
  <2>1. \A i \in S: n - i \in Nat
    OBVIOUS
  <2>2. QED
    BY <2>1
<1>3. \A x, y \in Nat: x < y => <<x, y>> \in R
  BY DEF OpToRel
<1> HIDE DEF R
<1>4. PICK x \in T: \A y \in T: ~(<<y, x>> \in R)
  BY <1>1, <1>2, WFMin
<1>5. PICK i \in S: x = n - i
  BY <1>4
<1>6. ASSUME NEW j \in S PROVE j <= i
  <2>1. n - j \in T /\ ~(n - j < n - i)
    BY <1>2, <1>3, <1>4, <1>5
  <2>2. QED
    BY <2>1
<1>7. QED
  BY <1>6

(* The focus of a thread is a table, or none. *)
LEMMA FocusTyped ==
  ASSUME said \in Seq([run: Callers, about: Tables \cup {NoTable}])
  PROVE  Focus \in Tables \cup {NoTable}
<1> DEFINE telling == {i \in DOMAIN said: said[i].about # NoTable}
           last == CHOOSE i \in telling: \A j \in telling: j <= i
<1>1. CASE telling = {}
  BY <1>1 DEF Focus
<1>2. CASE telling # {}
  <2>1. DOMAIN said = 1..Len(said) /\ Len(said) \in Nat
    OBVIOUS
  <2>2. \E i \in telling: \A j \in telling: j <= i
    <3>1. telling \in SUBSET (1..Len(said))
      BY <2>1
    <3> HIDE DEF telling
    <3>2. QED
      BY <1>2, <2>1, <3>1, LastPosition
  <2>3. last \in telling
    <3> HIDE DEF telling
    <3>1. QED
      BY <2>2
  <2>4. last \in DOMAIN said
    BY <2>3
  <2>5. said[last] \in [run: Callers, about: Tables \cup {NoTable}]
    <3>1. \A i \in DOMAIN said: said[i] \in [run: Callers, about: Tables \cup {NoTable}]
      BY <2>1, ElementOfSeq
    <3> HIDE DEF last
    <3>2. QED
      BY <2>4, <3>1
  <2>6. Focus = said[last].about
    BY <1>2 DEF Focus
  <2> HIDE DEF last
  <2>7. QED
    BY <2>5, <2>6
<1>3. QED
  BY <1>1, <1>2

(* A mention resolves to a table of the catalog, or to none. *)
LEMMA ResolvedTyped ==
  ASSUME NEW r \in Callers, NEW m, NEW focus
  PROVE  Resolve(m, Catalog(r), focus) \in Tables \cup {NoTable}
<1> DEFINE catalog == Catalog(r)
           hits == Candidates(m, catalog)
<1>1. catalog \subseteq Tables
  BY DEF Catalog
<1>2. hits \subseteq catalog
  <2> DEFINE tests == <<m.exact \cap catalog, m.folded \cap catalog, m.alias \cap catalog>>
             found == {i \in 1..3 : tests[i] # {}}
  <2>1. \A i \in 1..3: tests[i] \subseteq catalog
    OBVIOUS
  <2>2. hits = IF found = {} THEN {} ELSE tests[CHOOSE i \in found : \A j \in found : i <= j]
    BY DEF Candidates
  <2>3. found # {} => \E i \in found : \A j \in found : i <= j
    <3>1. \A i \in found: i \in Int /\ (i = 1 \/ i = 2 \/ i = 3)
      OBVIOUS
    <3> HIDE DEF found
    <3>2. CASE 1 \in found
      BY <3>1, <3>2
    <3>3. CASE 1 \notin found /\ 2 \in found
      BY <3>1, <3>3
    <3>4. CASE \A i \in found: i = 3
      BY <3>1, <3>4
    <3>5. QED
      BY <3>1, <3>2, <3>3, <3>4
  <2>4. found # {} => (CHOOSE i \in found : \A j \in found : i <= j) \in 1..3
    <3>1. found \subseteq 1..3
      OBVIOUS
    <3> HIDE DEF found
    <3>2. QED
      BY <2>3, <3>1
  <2> HIDE DEF tests, found, hits
  <2>5. QED
    BY <2>1, <2>2, <2>4
<1>3. Cardinality(hits) = 1 => hits # {}
  BY FS_EmptySet
<1> HIDE DEF catalog, hits
<1>4. Resolve(m, catalog, focus) \in catalog \cup {NoTable}
  BY <1>2, <1>3 DEF Resolve, hits
<1>5. QED
  BY <1>1, <1>4 DEF catalog


(* A pipeline in another one's place. *)
LEMMA PipelineReplaced ==
  ASSUME PipelinesTyped, NEW r \in Callers, NEW p \in Pipeline,
         p.at = "finished" => p.result # "none", qa' = [qa EXCEPT ![r] = p]
  PROVE  PipelinesTyped'
  BY DEF PipelinesTyped

LEMMA FinishTyped ==
  ASSUME PipelinesTyped, NEW r \in Callers,
         NEW result \in {"completed", "degraded", "blocked", "failed", "canceled"}, Finish(r, result)
  PROVE  PipelinesTyped'
<1> DEFINE p == [qa[r] EXCEPT !.at = "finished", !.result = result]
<1>1. p \in Pipeline /\ p.result # "none" /\ qa' = [qa EXCEPT ![r] = p]
  BY DEF Finish, PipelinesTyped, Pipeline
<1> HIDE DEF p
<1>2. QED
  BY <1>1, PipelineReplaced

LEMMA UseTyped ==
  ASSUME PipelinesTyped, NEW r \in Callers, NEW pipeline \in Pipeline, pipeline.at # "finished",
         Use(r, pipeline)
  PROVE  PipelinesTyped'
<1> DEFINE counted == [pipeline EXCEPT !.calls = @ + 1]
<1>1. CASE Finish(r, "canceled") \/ Finish(r, "blocked")
  BY <1>1, FinishTyped
<1>2. CASE qa' = [qa EXCEPT ![r] = pipeline]
  BY <1>2, PipelineReplaced
<1>3. CASE qa' = [qa EXCEPT ![r] = counted]
  <2>1. pipeline.calls + 1 \in Nat
    BY DEF Pipeline
  <2>2. counted \in Pipeline /\ counted.at # "finished"
    BY <2>1 DEF Pipeline
  <2> HIDE DEF counted
  <2>3. QED
    BY <1>3, <2>2, PipelineReplaced
<1>4. QED
  BY <1>1, <1>2, <1>3 DEF Use

(* The steps of a pipeline keep it in its domain, and call what they call. *)
LEMMA AskTyped ==
  ASSUME PipelinesTyped, NEW r \in Callers, NEW focus \in Tables \cup {NoTable}, Ask(r, focus)
  PROVE  PipelinesTyped' /\ AgentCalls(r)
<1> DEFINE p == [NoPipeline EXCEPT !.at = "inventory", !.focus = focus]
<1>1. p \in Pipeline /\ p.at = "inventory"
  BY DEF NoPipeline, Pipeline, Intents
<1> HIDE DEF p
<1>2. (Use(r, p) \/ (Finish(r, "blocked") /\ UNCHANGED tool)) /\ UNCHANGED <<model, qaFrame>>
  BY DEF Ask, p
<1>3. PipelinesTyped'
  BY <1>1, <1>2, UseTyped, FinishTyped
<1>4. QED
  BY <1>2, <1>3 DEF AgentCalls, Use

LEMMA ListedTyped ==
  ASSUME PipelinesTyped, NEW r \in Callers, Listed(r)
  PROVE  PipelinesTyped' /\ AgentCalls(r)
<1> DEFINE p == [qa[r] EXCEPT !.at = "plan"]
<1>1. CASE Finish(r, "failed") /\ UNCHANGED model
  BY <1>1, FinishTyped DEF Listed, AgentCalls
<1>2. CASE qa' = [qa EXCEPT ![r].at = "plan"] /\ model' = [model EXCEPT ![r] = Called]
  <2>1. p \in Pipeline /\ p.at = "plan" /\ qa' = [qa EXCEPT ![r] = p]
    BY <1>2 DEF PipelinesTyped, Pipeline
  <2> HIDE DEF p
  <2>2. QED
    BY <1>2, <2>1, PipelineReplaced DEF Listed, AgentCalls
<1>3. QED
  BY <1>1, <1>2 DEF Listed

LEMMA PlannedTyped ==
  ASSUME PipelinesTyped, NEW r \in Callers, NEW plan, NEW degraded \in BOOLEAN,
         plan.intent \in Intents, plan.named \subseteq Tables \cup {NoTable}
  PROVE  LET next == Planned(r, plan, degraded) IN
         next \in Pipeline /\ (next.at = "finished" => next.result # "none")
<1> DEFINE about == IF plan.named = {} THEN NoTable ELSE CHOOSE t \in plan.named : TRUE
           blocked == [qa[r] EXCEPT !.at = "finished", !.result = "blocked"]
           step == [qa[r] EXCEPT !.at = "step", !.intent = plan.intent, !.degraded = degraded,
                                 !.about = about]
<1>1. about \in Tables \cup {NoTable}
  OBVIOUS
<1>2. blocked \in Pipeline /\ blocked.result = "blocked"
  BY DEF PipelinesTyped, Pipeline
<1>3. step \in Pipeline /\ step.at = "step"
  <2> HIDE DEF about
  <2>1. QED
    BY <1>1 DEF PipelinesTyped, Pipeline
<1>4. Planned(r, plan, degraded) \in {blocked, step}
  BY DEF Planned
<1> HIDE DEF blocked, step
<1>5. QED
  BY <1>2, <1>3, <1>4

LEMMA PlanTyped ==
  ASSUME PipelinesTyped, NEW r \in Callers, Plan(r)
  PROVE  PipelinesTyped' /\ AgentCalls(r)
<1> DEFINE degraded == model[r].result # "success"
           plans == IF model[r].result \in {"success", "degraded"}
                    THEN Plans(Resolved(r, Mentions)) ELSE OwnPlans(Resolved(r, Spelled))
<1>1. PICK plan \in plans: LET next == Planned(r, plan, degraded) IN
        /\ IF next.at = "finished"
           THEN qa' = [qa EXCEPT ![r] = next] /\ UNCHANGED tool
           ELSE Use(r, next)
        /\ model' = [model EXCEPT ![r] = NoCall] /\ UNCHANGED qaFrame
  BY DEF Plan
<1>2. plan.intent \in Intents /\ plan.named \subseteq Tables \cup {NoTable}
  <2>1. \A mentions: Resolved(r, mentions) \subseteq Tables \cup {NoTable}
    BY ResolvedTyped DEF Resolved
  <2>2. \E tables \in SUBSET (Tables \cup {NoTable}): plan \in Plans(tables)
    <3>1. CASE plan \in Plans(Resolved(r, Mentions))
      BY <2>1, <3>1
    <3>2. CASE plan \in OwnPlans(Resolved(r, Spelled))
      BY <2>1, <3>2 DEF OwnPlans
    <3>3. QED
      BY <3>1, <3>2
  <2> HIDE DEF plans
  <2>3. QED
    BY <2>2 DEF Plans
<1> DEFINE next == Planned(r, plan, degraded)
<1>3. next \in Pipeline /\ (next.at = "finished" => next.result # "none")
  BY <1>2, PlannedTyped
<1>4. /\ IF next.at = "finished"
           THEN qa' = [qa EXCEPT ![r] = next] /\ UNCHANGED tool
           ELSE Use(r, next)
      /\ model' = [model EXCEPT ![r] = NoCall] /\ UNCHANGED qaFrame
  BY <1>1
<1> HIDE DEF next, plans
<1>5. PipelinesTyped'
  BY <1>3, <1>4, UseTyped, PipelineReplaced
<1>6. QED
  BY <1>4, <1>5 DEF AgentCalls, Use

LEMMA LearnedTyped ==
  ASSUME PipelinesTyped, NEW r \in Callers, Learned(r)
  PROVE  PipelinesTyped' /\ AgentCalls(r)
<1>1. tool' = [tool EXCEPT ![r] = NoTool] /\ UNCHANGED qaFrame
  BY DEF Learned
<1>2. CASE Finish(r, "failed") /\ UNCHANGED model
  BY <1>1, <1>2, FinishTyped DEF AgentCalls
<1>3. ASSUME NEW result \in {"completed", "degraded"}, UNCHANGED model,
             qa' = [qa EXCEPT ![r].at = "finished", ![r].result = result]
      PROVE  PipelinesTyped' /\ AgentCalls(r)
  BY <1>1, <1>3, FinishTyped DEF Finish, AgentCalls
<1>4. ASSUME NEW facts \in SUBSET Facts, qa' = [qa EXCEPT ![r].at = "answer", ![r].facts = facts],
             model' = [model EXCEPT ![r] = Called]
      PROVE  PipelinesTyped' /\ AgentCalls(r)
  <2> DEFINE p == [qa[r] EXCEPT !.at = "answer", !.facts = facts]
  <2>1. p \in Pipeline /\ p.at = "answer" /\ qa' = [qa EXCEPT ![r] = p]
    BY <1>4 DEF PipelinesTyped, Pipeline
  <2> HIDE DEF p
  <2>2. QED
    BY <1>1, <1>4, <2>1, PipelineReplaced DEF AgentCalls
<1>5. FactsOf(r) \subseteq SUBSET Facts
  BY DEF FactsOf
<1>6. QED
  BY <1>2, <1>3, <1>4, <1>5 DEF Learned

LEMMA SynthesizeTyped ==
  ASSUME PipelinesTyped, NEW r \in Callers, Synthesize(r)
  PROVE  PipelinesTyped' /\ AgentCalls(r)
<1> DEFINE own == Published(r, Deterministic(qa[r].facts), TRUE)
           poor == model[r].result = "degraded"
           drafted == IF model[r].result \in {"success", "degraded"}
                      THEN {Published(r, draft, poor) : draft \in Drafts} ELSE {}
<1>1. ASSUME NEW draft, NEW degraded
      PROVE  LET next == Published(r, draft, degraded) IN
             next \in Pipeline /\ next.result # "none"
  <2> DEFINE final == IF Grounded(draft, qa[r].facts) THEN draft ELSE Deterministic(qa[r].facts)
             p(result) == [qa[r] EXCEPT !.at = "finished", !.cites = final.claims, !.result = result]
  <2>1. final.claims \subseteq Facts
    <3>1. qa[r].facts \subseteq Facts
      BY DEF PipelinesTyped, Pipeline
    <3>2. QED
      BY <3>1 DEF Grounded, Deterministic
  <2> HIDE DEF final
  <2>2. \A result \in {"completed", "degraded"}: p(result) \in Pipeline /\ p(result).result = result
    BY <2>1 DEF PipelinesTyped, Pipeline
  <2>3. \E result \in {"completed", "degraded"}: Published(r, draft, degraded) = p(result)
    BY DEF Published, final
  <2> HIDE DEF p
  <2>4. QED
    BY <2>2, <2>3
<1>2. PICK next \in drafted \cup {own}: qa' = [qa EXCEPT ![r] = next]
  BY DEF Synthesize
<1>3. next \in Pipeline /\ next.result # "none"
  <2>1. CASE next = own
    BY <1>1, <2>1
  <2>2. CASE next \in drafted
    BY <1>1, <2>2
  <2>3. QED
    BY <1>2, <2>1, <2>2
<1>4. model' = [model EXCEPT ![r] = NoCall] /\ UNCHANGED <<tool, qaFrame>>
  BY DEF Synthesize
<1> HIDE DEF own, drafted
<1>5. QED
  BY <1>2, <1>3, <1>4, PipelineReplaced DEF AgentCalls

LEMMA QaTyped ==
  ASSUME PipelinesTyped, NEW r \in Callers, QaStep(r)
  PROVE  PipelinesTyped' /\ AgentCalls(r)
<1>1. CASE Breaks(r)
  BY <1>1, FinishTyped DEF Breaks, AgentCalls
<1>2. QED
  BY <1>1, ListedTyped, PlanTyped, LearnedTyped, SynthesizeTyped DEF QaStep

LEMMA DroppedTyped ==
  ASSUME PipelinesTyped, NEW runs, Dropped(runs)
  PROVE  PipelinesTyped'
<1>1. NoPipeline \in Pipeline /\ NoPipeline.at = "idle"
  BY DEF NoPipeline, Pipeline, Intents
<1>2. QED
  BY <1>1 DEF Dropped, PipelinesTyped

-----------------------------------------------------------------------------
(* The rows of the thread and what is told of them: a task that is due or    *)
(* works is one of a running run, its token follows the flag in the row, and *)
(* events are told of runs that were started only.                           *)
Answers == [run: Callers, about: Tables \cup {NoTable}]
RowsTyped ==
  /\ row \in [Callers -> Row] /\ log \in Seq(Event) /\ said \in Seq(Answers)
  /\ client \in [Clients -> ClientState] /\ crashes \in 0..MaxCrashes
  /\ \A c \in Clients: client[c].cursor <= Len(log)
RowsLive == \A r \in Callers:
  /\ row[r].task \in {"due", "working"} => row[r].status = "running"
  /\ row[r].cancel /\ row[r].task = "working" => Ledger[r] \in stopped
Started == \A i \in DOMAIN log: row[log[i].run].status # "none"
RowsSound == RowsTyped /\ RowsLive /\ Started /\ OneEnd

(* An event behind the others. *)
LEMMA EventAdded ==
  ASSUME log \in Seq(Event), NEW r \in Callers,
         NEW type \in {"run.started", "run.cancel_requested"} \cup Ends, Appended(r, type)
  PROVE  /\ log' \in Seq(Event) /\ Len(log') = Len(log) + 1 /\ Len(log) \in Nat
         /\ DOMAIN log' = DOMAIN log \cup {Len(log) + 1}
         /\ DOMAIN log = 1..Len(log)
         /\ log'[Len(log) + 1].run = r /\ log'[Len(log) + 1].type = type
         /\ \A i \in DOMAIN log: log'[i] = log[i]
<1> DEFINE e == [run |-> r, type |-> type]
<1>1. e \in Event /\ log' = Append(log, e) /\ e.run = r /\ e.type = type
  BY DEF Event, Appended
<1> HIDE DEF e
<1>2. /\ log' \in Seq(Event) /\ Len(log') = Len(log) + 1 /\ log'[Len(log) + 1] = e
      /\ \A i \in 1..Len(log): log'[i] = log[i]
  BY <1>1, AppendProperties
<1>3. /\ DOMAIN log = 1..Len(log) /\ DOMAIN log' = 1..Len(log') /\ Len(log) \in Nat
  BY <1>2
<1>4. 1..Len(log) + 1 = 1..Len(log) \cup {Len(log) + 1}
  BY <1>3
<1>5. QED
  BY <1>1, <1>2, <1>3, <1>4

(* A run that goes on is told of: nobody's end is. *)
LEMMA GoesOn ==
  ASSUME RowsSound, NEW r \in Callers, NEW type \in {"run.started", "run.cancel_requested"},
         Appended(r, type), said' = said, row' \in [Callers -> Row],
         row[r].status \in {"none", "running"}, row'[r].status = "running",
         \A q \in Callers: q # r => row'[q].status = row[q].status
  PROVE  Started' /\ OneEnd'
<1>1. /\ log \in Seq(Event) /\ \A i \in DOMAIN log: log[i].run \in Callers
  <2>1. log \in Seq(Event) /\ DOMAIN log = 1..Len(log)
    BY DEF RowsSound, RowsTyped
  <2>2. \A i \in DOMAIN log: log[i] \in Event
    BY <2>1, ElementOfSeq
  <2>3. QED
    BY <2>1, <2>2 DEF Event
<1>2. /\ DOMAIN log' = DOMAIN log \cup {Len(log) + 1}
      /\ log'[Len(log) + 1].run = r /\ log'[Len(log) + 1].type = type
      /\ \A i \in DOMAIN log: log'[i] = log[i]
  BY <1>1, EventAdded
<1>3. type \notin Ends /\ "none" \notin Statuses /\ "running" \notin Statuses
  BY DEF Ends, Statuses
<1>4. Started'
  <2>1. \A q \in Callers: row[q].status # "none" => row'[q].status # "none"
    OBVIOUS
  <2>2. QED
    BY <1>1, <1>2, <2>1 DEF RowsSound, Started
<1>5. ASSUME NEW q \in Callers
      PROVE  LET ended == row'[q].status \in Statuses IN
              /\ ended => /\ \E i \in DOMAIN log': log'[i].run = q /\ log'[i].type \in Ends
                          /\ \E i \in DOMAIN said: said[i].run = q
              /\ \A i \in DOMAIN log': log'[i].run = q /\ log'[i].type \in Ends
                   => ended /\ \A j \in DOMAIN log': log'[j].run = q => j <= i
              /\ \A i, j \in DOMAIN said: said[i].run = q /\ said[j].run = q => ended /\ i = j
  <2>1. (row'[q].status \in Statuses) = (row[q].status \in Statuses)
    BY <1>3
  <2>2. q = r => row[q].status \notin Statuses
    BY <1>3
  <2>3. QED
    BY <1>2, <1>3, <2>1, <2>2 DEF RowsSound, OneEnd
<1>6. QED
  BY <1>4, <1>5 DEF OneEnd

(* A run that ends is told of once, and never again. *)
LEMMA EndsOnce ==
  ASSUME RowsSound, NEW r \in Callers, NEW type \in Ends, Appended(r, type),
         NEW answer \in Answers, answer.run = r, said' = Append(said, answer),
         row' \in [Callers -> Row], row[r].status = "running", row'[r].status \in Statuses,
         \A q \in Callers: q # r => row'[q].status = row[q].status
  PROVE  Started' /\ OneEnd'
<1>1. /\ log \in Seq(Event) /\ \A i \in DOMAIN log: log[i].run \in Callers
  <2>1. log \in Seq(Event) /\ DOMAIN log = 1..Len(log)
    BY DEF RowsSound, RowsTyped
  <2>2. \A i \in DOMAIN log: log[i] \in Event
    BY <2>1, ElementOfSeq
  <2>3. QED
    BY <2>1, <2>2 DEF Event
<1>2. /\ DOMAIN log' = DOMAIN log \cup {Len(log) + 1} /\ DOMAIN log = 1..Len(log)
      /\ log'[Len(log) + 1].run = r /\ log'[Len(log) + 1].type = type
      /\ \A i \in DOMAIN log: log'[i] = log[i]
      /\ Len(log) \in Nat
  BY <1>1, EventAdded
<1>3. /\ DOMAIN said' = DOMAIN said \cup {Len(said) + 1} /\ DOMAIN said = 1..Len(said)
      /\ said'[Len(said) + 1].run = r /\ Len(said) \in Nat
      /\ \A i \in DOMAIN said: said'[i] = said[i]
  <2>1. said \in Seq(Answers)
    BY DEF RowsSound, RowsTyped
  <2>2. /\ said' \in Seq(Answers) /\ Len(said') = Len(said) + 1 /\ said'[Len(said) + 1] = answer
        /\ \A i \in 1..Len(said): said'[i] = said[i]
    BY <2>1, AppendProperties
  <2>3. /\ DOMAIN said = 1..Len(said) /\ DOMAIN said' = 1..Len(said') /\ Len(said) \in Nat
    BY <2>1, <2>2
  <2>4. 1..Len(said) + 1 = 1..Len(said) \cup {Len(said) + 1}
    BY <2>3
  <2>5. QED
    BY <2>2, <2>3, <2>4
<1>4. "none" \notin Statuses /\ "running" \notin Statuses
  BY DEF Statuses
<1>5. Started'
  <2>1. \A q \in Callers: row[q].status # "none" => row'[q].status # "none"
    BY <1>4
  <2>2. QED
    BY <1>1, <1>2, <1>4, <2>1 DEF RowsSound, Started
<1>6. ASSUME NEW q \in Callers
      PROVE  LET ended == row'[q].status \in Statuses IN
              /\ ended => /\ \E i \in DOMAIN log': log'[i].run = q /\ log'[i].type \in Ends
                          /\ \E i \in DOMAIN said': said'[i].run = q
              /\ \A i \in DOMAIN log': log'[i].run = q /\ log'[i].type \in Ends
                   => ended /\ \A j \in DOMAIN log': log'[j].run = q => j <= i
              /\ \A i, j \in DOMAIN said': said'[i].run = q /\ said'[j].run = q => ended /\ i = j
  <2>1. CASE q = r
    <3>1. row[q].status \notin Statuses
      BY <1>4, <2>1
    <3>2. /\ \A i \in DOMAIN log: ~(log[i].run = q /\ log[i].type \in Ends)
          /\ \A i \in DOMAIN said: said[i].run # q
      BY <3>1 DEF RowsSound, OneEnd
    <3>3. \A i \in DOMAIN log': log'[i].run = q /\ log'[i].type \in Ends => i = Len(log) + 1
      BY <1>2, <3>2
    <3>4. \A j \in DOMAIN log': j <= Len(log) + 1
      BY <1>2
    <3>5. \A i \in DOMAIN said': said'[i].run = q => i = Len(said) + 1
      BY <1>3, <3>2
    <3>6. QED
      BY <1>2, <1>3, <2>1, <3>3, <3>4, <3>5
  <2>2. CASE q # r
    <3>1. row'[q].status = row[q].status
      BY <2>2
    <3>2. \A i \in DOMAIN log': log'[i].run = q => i \in DOMAIN log /\ log[i].run = q /\ log'[i] = log[i]
      BY <1>2, <2>2
    <3>3. \A i \in DOMAIN said': said'[i].run = q => i \in DOMAIN said /\ said[i].run = q
      BY <1>3, <2>2
    <3>4. /\ \A i \in DOMAIN log: i \in DOMAIN log' /\ log'[i] = log[i]
          /\ \A i \in DOMAIN said: i \in DOMAIN said' /\ said'[i] = said[i]
      BY <1>2, <1>3
    <3>5. QED
      BY <3>1, <3>2, <3>3, <3>4 DEF RowsSound, OneEnd
  <2>3. QED
    BY <2>1, <2>2
<1>7. QED
  BY <1>5, <1>6 DEF OneEnd


(* A step of the task that leaves the store, the browsers and the tokens be. *)
LEMMA RowsSame ==
  ASSUME RowsSound, UNCHANGED <<chatVars, stopped>>
  PROVE  RowsSound'
  BY DEF RowsSound, RowsTyped, RowsLive, Started, OneEnd, chatVars

(* A row that is replaced while nothing is told. *)
LEMMA RowReplaced ==
  ASSUME RowsSound, row' \in [Callers -> Row],
         \A q \in Callers: row'[q].status = row[q].status,
         UNCHANGED <<log, said>>
  PROVE  Started' /\ OneEnd'
<1>1. \A i \in DOMAIN log: log[i].run \in Callers
  <2>1. log \in Seq(Event) /\ DOMAIN log = 1..Len(log)
    BY DEF RowsSound, RowsTyped
  <2>2. \A i \in DOMAIN log: log[i] \in Event
    BY <2>1, ElementOfSeq
  <2>3. QED
    BY <2>2 DEF Event
<1>2. QED
  BY <1>1 DEF RowsSound, Started, OneEnd

LEMMA ExecuteKeepsRows ==
  ASSUME RowsSound, NEW r \in Callers, Execute(r)
  PROVE  RowsSound'
<1>1. /\ row[r].task = "due" /\ row' = [row EXCEPT ![r].task = "working"]
      /\ stopped' = IF row[r].cancel THEN stopped \cup {Ledger[r]} ELSE stopped
      /\ UNCHANGED <<log, said, client, crashes>>
  BY DEF Execute
<1>2. row \in [Callers -> Row]
  BY DEF RowsSound, RowsTyped
<1>3. /\ row' \in [Callers -> Row] /\ row'[r].task = "working"
      /\ row'[r].status = row[r].status /\ row'[r].cancel = row[r].cancel
      /\ \A q \in Callers: q # r => row'[q] = row[q]
  BY <1>1, <1>2 DEF Row
<1>4. Started' /\ OneEnd'
  BY <1>1, <1>3, RowReplaced
<1>5. QED
  BY <1>1, <1>3, <1>4 DEF RowsSound, RowsTyped, RowsLive

LEMMA PostKeepsRows ==
  ASSUME RowsSound, NEW c \in Clients, Post(c)
  PROVE  RowsSound'
<1>1. /\ row \in [Callers -> Row] /\ client \in [Clients -> ClientState] /\ log \in Seq(Event)
      /\ Len(log) \in Nat
  BY DEF RowsSound, RowsTyped
<1>2. UNCHANGED <<stopped, said, crashes>>
  BY DEF Post, agentVars
<1>3. PICK r \in Callers:
        /\ row[r].status = "none"
        /\ row' = [row EXCEPT ![r].status = "running", ![r].task = "due"]
        /\ Appended(r, "run.started") /\ client' = [client EXCEPT ![c].asked = r]
  BY DEF Post
<1>4. /\ row' \in [Callers -> Row] /\ row'[r].task = "due" /\ row'[r].status = "running"
      /\ \A q \in Callers: q # r => row'[q] = row[q]
  BY <1>1, <1>3 DEF Row
<1>5. log' \in Seq(Event) /\ Len(log') = Len(log) + 1
  BY <1>1, <1>3, EventAdded
<1>6. /\ client' \in [Clients -> ClientState]
      /\ \A d \in Clients: client'[d].cursor = client[d].cursor
  BY <1>1, <1>3 DEF ClientState
<1>7. Started' /\ OneEnd'
  BY <1>2, <1>3, <1>4, GoesOn
<1>8. \A d \in Clients: client'[d].cursor <= Len(log')
  BY <1>1, <1>5, <1>6 DEF RowsSound, RowsTyped, ClientState
<1>9. QED
  BY <1>2, <1>4, <1>5, <1>6, <1>7, <1>8 DEF RowsSound, RowsTyped, RowsLive

(* A page lies between the cursor and the last event. *)
LEMMA PageFits ==
  ASSUME log \in Seq(Event), NEW cursor \in Nat, cursor <= Len(log)
  PROVE  LET page == SubSeq(log, cursor + 1, SmallerOf(cursor + PageSize, Len(log))) IN
         Len(page) \in Nat /\ cursor + Len(page) <= Len(log)
<1> DEFINE end == SmallerOf(cursor + PageSize, Len(log))
           page == SubSeq(log, cursor + 1, end)
<1>1. PageSize \in Nat /\ Len(log) \in Nat
  BY ChatAssumption
<1>2. end \in Nat /\ cursor <= end /\ end <= Len(log)
  BY <1>1 DEF SmallerOf
<1> HIDE DEF end
<1>3. Len(page) = end - cursor
  <2>1. CASE end = cursor
    <3>1. Len(page) = 0
      BY <1>1, <1>2, <2>1, SubSeqProperties
    <3>2. QED
      BY <1>2, <2>1, <3>1
  <2>2. CASE cursor + 1 <= end
    <3>1. cursor + 1 \in 1..Len(log)+1 /\ end \in 0..Len(log)
      BY <1>1, <1>2, <2>2
    <3>2. QED
      BY <1>1, <1>2, <2>2, <3>1, SubSeqProperties
  <2>3. QED
    BY <1>2, <2>1, <2>2
<1>4. QED
  BY <1>1, <1>2, <1>3 DEF end

(* A browser moves its cursor, or follows another run or none. *)
LEMMA ClientMoves ==
  ASSUME RowsSound, NEW c \in Clients, NEW state \in ClientState, state.cursor <= Len(log),
         client' = [client EXCEPT ![c] = state], UNCHANGED <<row, log, said, crashes, stopped>>
  PROVE  RowsSound'
<1>1. RowsTyped'
  BY DEF RowsSound, RowsTyped
<1>2. QED
  BY <1>1 DEF RowsSound, RowsLive, Started, OneEnd

LEMMA PollKeepsRows ==
  ASSUME RowsSound, NEW c \in Clients, Follow(c) \/ Poll(c) \/ GiveUp(c)
  PROVE  RowsSound'
<1>1. /\ client \in [Clients -> ClientState] /\ log \in Seq(Event) /\ Len(log) \in Nat
      /\ client[c].cursor \in Nat /\ client[c].cursor <= Len(log)
  BY DEF RowsSound, RowsTyped, ClientState
<1>2. UNCHANGED <<row, log, said, crashes, stopped>>
  BY DEF Follow, Poll, GiveUp, agentVars
<1>3. CASE Poll(c)
  <2> DEFINE page == SubSeq(log, client[c].cursor + 1, SmallerOf(client[c].cursor + PageSize, Len(log)))
  <2>1. Len(page) \in Nat /\ client[c].cursor + Len(page) <= Len(log)
    BY <1>1, PageFits
  <2>2. PICK next \in {NoRun, client[c].active}:
          client' = [client EXCEPT ![c].cursor = @ + Len(page), ![c].active = next]
    BY <1>3 DEF Poll
  <2> HIDE DEF page
  <2> DEFINE state == [client[c] EXCEPT !.cursor = @ + Len(page), !.active = next]
  <2>3. next \in Callers \cup {NoRun}
    BY <1>1, <2>2 DEF ClientState
  <2>4. client[c].cursor + Len(page) \in Nat
    BY <1>1, <2>1
  <2>5. /\ state \in ClientState /\ state.cursor = client[c].cursor + Len(page)
        /\ client' = [client EXCEPT ![c] = state]
    BY <1>1, <2>2, <2>3, <2>4 DEF ClientState
  <2> HIDE DEF state
  <2>6. QED
    BY <1>2, <2>1, <2>5, ClientMoves
<1>4. CASE GiveUp(c)
  <2>1. PICK at \in {client[c].cursor, Len(log)}:
          client' = [client EXCEPT ![c].asked = NoRun, ![c].active = NoRun, ![c].cursor = at]
    BY <1>4 DEF GiveUp
  <2> DEFINE state == [client[c] EXCEPT !.asked = NoRun, !.active = NoRun, !.cursor = at]
  <2>2. at \in Nat /\ at <= Len(log)
    BY <1>1, <2>1
  <2>3. state \in ClientState /\ state.cursor = at /\ client' = [client EXCEPT ![c] = state]
    BY <1>1, <2>1, <2>2 DEF ClientState
  <2> HIDE DEF state
  <2>4. QED
    BY <1>2, <2>2, <2>3, ClientMoves
<1>5. CASE Follow(c)
  <2> DEFINE state == [client[c] EXCEPT !.asked = NoRun, !.active = client[c].asked]
  <2>1. /\ state \in ClientState /\ state.cursor = client[c].cursor
        /\ client' = [client EXCEPT ![c] = state]
    BY <1>1, <1>5 DEF Follow, ClientState
  <2> HIDE DEF state
  <2>2. QED
    BY <1>1, <1>2, <2>1, ClientMoves
<1>6. QED
  BY <1>3, <1>4, <1>5

LEMMA CancelKeepsRows ==
  ASSUME RowsSound, NEW c \in Clients, Cancel(c)
  PROVE  RowsSound'
<1> DEFINE r == client[c].active
<1>1. /\ row \in [Callers -> Row] /\ client \in [Clients -> ClientState] /\ log \in Seq(Event)
      /\ Len(log) \in Nat
  BY DEF RowsSound, RowsTyped
<1>2. /\ r \in Callers /\ row[r].status = "running" /\ row' = [row EXCEPT ![r].cancel = TRUE]
      /\ Appended(r, "run.cancel_requested")
      /\ stopped' = IF row[r].task = "working" THEN stopped \cup {Ledger[r]} ELSE stopped
      /\ UNCHANGED <<said, client, crashes>>
  BY <1>1 DEF Cancel, RequestCancel, ClientState
<1> HIDE DEF r
<1>3. /\ row' \in [Callers -> Row] /\ row'[r].task = row[r].task /\ row'[r].status = "running"
      /\ \A q \in Callers: q # r => row'[q] = row[q]
  BY <1>1, <1>2 DEF Row
<1>4. log' \in Seq(Event) /\ Len(log') = Len(log) + 1
  BY <1>1, <1>2, EventAdded
<1>5. Started' /\ OneEnd'
  BY <1>2, <1>3, GoesOn
<1>6. \A d \in Clients: client'[d].cursor <= Len(log')
  BY <1>1, <1>2, <1>4 DEF RowsSound, RowsTyped, ClientState
<1>7. QED
  BY <1>2, <1>3, <1>4, <1>5, <1>6 DEF RowsSound, RowsTyped, RowsLive

LEMMA CompleteKeepsRows ==
  ASSUME RowsSound, PipelinesTyped, NEW r \in Callers, CompleteRun(r)
  PROVE  RowsSound'
<1>1. /\ row \in [Callers -> Row] /\ log \in Seq(Event) /\ Len(log) \in Nat /\ said \in Seq(Answers)
      /\ qa[r] \in Pipeline /\ client \in [Clients -> ClientState]
  BY DEF RowsSound, RowsTyped, PipelinesTyped
<1> DEFINE about == IF qa[r].result \in {"completed", "degraded"} THEN qa[r].about ELSE NoTable
           answer == [run |-> r, about |-> about]
<1>2. /\ qa[r].at = "finished" /\ row[r].task = "working"
      /\ row' = [row EXCEPT ![r].status = qa[r].result, ![r].task = "none"]
      /\ said' = Append(said, answer)
      /\ Appended(r, EndOf(qa[r].result)) /\ UNCHANGED <<client, crashes>>
      /\ stopped' = stopped \ {Ledger[q] : q \in {r}}
  BY DEF CompleteRun, Dropped
<1>3. qa[r].result \in Statuses /\ EndOf(qa[r].result) \in Ends /\ row[r].status = "running"
  BY <1>1, <1>2 DEF PipelinesTyped, Pipeline, Statuses, EndOf, Ends, RowsSound, RowsLive
<1>4. /\ row' \in [Callers -> Row] /\ row'[r].task = "none" /\ row'[r].status \in Statuses
      /\ \A q \in Callers: q # r => row'[q] = row[q]
  BY <1>1, <1>2, <1>3 DEF Row
<1>5. answer \in Answers /\ answer.run = r
  <2>1. about \in Tables \cup {NoTable}
    BY <1>1 DEF Pipeline
  <2> HIDE DEF about
  <2>2. QED
    BY <2>1 DEF Answers
<1> HIDE DEF answer
<1>6. Started' /\ OneEnd'
  BY <1>2, <1>3, <1>4, <1>5, EndsOnce
<1>7. log' \in Seq(Event) /\ Len(log') = Len(log) + 1 /\ said' \in Seq(Answers)
  BY <1>1, <1>2, <1>3, <1>5, EventAdded, AppendProperties
<1>8. \A d \in Clients: client'[d].cursor <= Len(log')
  BY <1>1, <1>2, <1>7 DEF RowsSound, RowsTyped, ClientState
<1>9. \A q \in Callers: q # r /\ Ledger[q] \in stopped => Ledger[q] \in stopped'
  BY <1>2, ChatAssumption
<1>10. QED
  BY <1>2, <1>4, <1>6, <1>7, <1>8, <1>9 DEF RowsSound, RowsTyped, RowsLive

(* A background task that ends by an exception leaves its row as it is.      *)
LEMMA LossKeepsRows ==
  ASSUME RowsSound, NEW r \in Callers, TaskFails(r)
  PROVE  RowsSound'
<1>1. row \in [Callers -> Row]
  BY DEF RowsSound, RowsTyped
<1>2. /\ row[r].task \in {"due", "working"} /\ row' = [row EXCEPT ![r].task = "lost"]
      /\ stopped' = stopped \ {Ledger[q] : q \in {r}} /\ UNCHANGED <<log, said, client, crashes>>
  BY DEF TaskFails, Dropped
<1>3. /\ row' \in [Callers -> Row] /\ row'[r].task = "lost" /\ row'[r].status = row[r].status
      /\ \A q \in Callers: q # r => row'[q] = row[q]
  BY <1>1, <1>2 DEF Row
<1>4. Started' /\ OneEnd'
  BY <1>2, <1>3, RowReplaced
<1>5. \A q \in Callers: q # r /\ Ledger[q] \in stopped => Ledger[q] \in stopped'
  BY <1>2, ChatAssumption
<1>6. QED
  BY <1>2, <1>3, <1>4, <1>5 DEF RowsSound, RowsTyped, RowsLive

LEMMA CrashKeepsRows ==
  ASSUME RowsSound, Crash
  PROVE  RowsSound'
<1>1. row \in [Callers -> Row] /\ crashes \in 0..MaxCrashes /\ MaxCrashes \in Nat
  BY ChatAssumption DEF RowsSound, RowsTyped
<1>2. /\ crashes < MaxCrashes /\ crashes' = crashes + 1 /\ UNCHANGED <<log, said, client>>
      /\ row' = [r \in Callers |-> [row[r] EXCEPT !.task = IF @ = "none" THEN @ ELSE "lost"]]
  BY DEF Crash
<1>3. /\ row' \in [Callers -> Row]
      /\ \A r \in Callers: row'[r].status = row[r].status /\ row'[r].task \in {"none", "lost"}
  BY <1>1, <1>2 DEF Row
<1>4. Started' /\ OneEnd'
  BY <1>2, <1>3, RowReplaced
<1>5. crashes' \in 0..MaxCrashes
  BY <1>1, <1>2
<1>6. QED
  BY <1>2, <1>3, <1>4, <1>5 DEF RowsSound, RowsTyped, RowsLive

-----------------------------------------------------------------------------
(* What holds of the chat in every state. *)
ChatSound == PipelinesHonest /\ PipelinesTyped /\ CallsSound /\ RowsSound

(* The steps of the system, each with what it leaves alone. *)
LEMMA TaskSound ==
  ASSUME ChatSound, NEW r \in Callers, Task(r)
  PROVE  PipelinesTyped' /\ CallsSound' /\ RowsSound'
<1> USE DEF ChatSound
<1>1. ASSUME UNCHANGED qa PROVE PipelinesTyped'
  BY <1>1 DEF PipelinesTyped
<1>2. CASE Execute(r)
  <2>1. CallsSound'
    BY <1>2, GatewayAssumption DEF Execute, budgetVars, CallsSound, CallsTyped, CallsLeft
  <2>2. QED
    BY <1>1, <1>2, <2>1, ExecuteKeepsRows DEF Execute
<1>3. CASE AskAgent(r)
  <2>1. Focus \in Tables \cup {NoTable}
    BY FocusTyped DEF RowsSound, RowsTyped, Answers
  <2>2. PipelinesTyped' /\ AgentCalls(r)
    BY <1>3, <2>1, AskTyped DEF AskAgent
  <2>3. QED
    BY <1>3, <2>2, AgentKeeps, RowsSame DEF AskAgent, AgentCalls, qaFrame
<1>4. CASE QaStep(r) /\ UNCHANGED chatVars
  <2>1. PipelinesTyped' /\ AgentCalls(r)
    BY <1>4, QaTyped
  <2>2. QED
    BY <1>4, <2>1, AgentKeeps, RowsSame DEF AgentCalls, qaFrame
<1>5. CASE GatewayStep(r) /\ UNCHANGED <<qa, tool, chatVars>>
  <2>1. UNCHANGED stopped
    BY <1>5 DEF GatewayStep, Misconfigured, Send, Answer, ProviderFails, WakesUp
  <2>2. QED
    BY <1>1, <1>5, <2>1, GatewayKeeps, RowsSame
<1>6. CASE ToolStep(r) /\ UNCHANGED <<qa, chatVars>>
  <2>1. UNCHANGED stopped
    BY <1>6 DEF ToolStep, Refuse, Invoke, Returns, Stores, Fails, Again, toolFrame
  <2>2. QED
    BY <1>1, <1>6, <2>1, ToolKeeps, RowsSame
<1>7. CASE CompleteRun(r)
  <2>1. Dropped({r}) /\ {r} \in SUBSET Callers
    BY <1>7 DEF CompleteRun
  <2>2. QED
    BY <1>7, <2>1, DroppedTyped, DroppedKeeps, CompleteKeepsRows
<1>8. QED
  BY <1>2, <1>3, <1>4, <1>5, <1>6, <1>7 DEF Task

LEMMA ChatStep == ChatSound /\ [Next]_vars => ChatSound'
<1> SUFFICES ASSUME ChatSound, [Next]_vars PROVE ChatSound'
  OBVIOUS
<1>1. PipelinesHonest'
  BY HonestStep DEF ChatSound
<1>2. PipelinesTyped' /\ CallsSound' /\ RowsSound'
  <2>1. ASSUME UNCHANGED agentVars PROVE PipelinesTyped' /\ CallsSound'
    BY <2>1 DEF ChatSound, agentVars, PipelinesTyped, CallsSound, CallsTyped, CallsLeft
  <2>2. ASSUME NEW r \in Callers, SinkFails(r), UNCHANGED <<qa, tool, chatVars>>
        PROVE  PipelinesTyped' /\ CallsSound' /\ RowsSound'
    BY <2>2, GatewayKeeps, RowsSame DEF ChatSound, SinkFails, PipelinesTyped
  <2>3. ASSUME NEW c \in Clients, Post(c)
        PROVE  PipelinesTyped' /\ CallsSound' /\ RowsSound'
    BY <2>1, <2>3, PostKeepsRows DEF ChatSound, Post
  <2>4. ASSUME NEW c \in Clients, Follow(c) \/ Poll(c) \/ GiveUp(c)
        PROVE  PipelinesTyped' /\ CallsSound' /\ RowsSound'
    BY <2>1, <2>4, PollKeepsRows DEF ChatSound, Follow, Poll, GiveUp
  <2>5. ASSUME NEW c \in Clients, Cancel(c)
        PROVE  PipelinesTyped' /\ CallsSound' /\ RowsSound'
    <3>1. client[c].active \in Callers
      BY <2>5 DEF Cancel, ChatSound, RowsSound, RowsTyped, ClientState
    <3>2. CallsSound'
      BY <2>5, <3>1, GatewayAssumption DEF Cancel, ChatSound, budgetVars, CallsSound, CallsTyped, CallsLeft
    <3>3. QED
      BY <2>5, <3>2, CancelKeepsRows DEF Cancel, ChatSound, PipelinesTyped
  <2>6. ASSUME Crash PROVE PipelinesTyped' /\ CallsSound' /\ RowsSound'
    <3>1. Dropped(Callers) /\ Callers \in SUBSET Callers
      BY <2>6 DEF Crash
    <3>2. QED
      BY <2>6, <3>1, DroppedTyped, DroppedKeeps, CrashKeepsRows DEF ChatSound
  <2>7. CASE UNCHANGED vars
    BY <2>1, <2>7, RowsSame DEF vars, agentVars, ChatSound
  <2>8. ASSUME NEW r \in Callers, TaskFails(r)
        PROVE  PipelinesTyped' /\ CallsSound' /\ RowsSound'
    <3>1. Dropped({r}) /\ {r} \in SUBSET Callers
      BY <2>8 DEF TaskFails
    <3>2. QED
      BY <2>8, <3>1, DroppedTyped, DroppedKeeps, LossKeepsRows DEF ChatSound
  <2>9. QED
    BY <2>2, <2>3, <2>4, <2>5, <2>6, <2>7, <2>8, TaskSound DEF Next
<1>3. QED
  BY <1>1, <1>2 DEF ChatSound

LEMMA ChatStart == Init => ChatSound
<1> SUFFICES ASSUME Init PROVE ChatSound
  OBVIOUS
<1>1. PipelinesHonest
  BY FreshHonest DEF Init, QaInit, PipelinesHonest
<1>2. PipelinesTyped
  BY DEF Init, QaInit, PipelinesTyped, NoPipeline, Pipeline, Intents
<1>3. CallsSound
  BY GatewayAssumption DEF Init, BudgetInit, GatewayInit, ToolInit, CallsSound, CallsTyped, CallsLeft,
     NoCall, ModelCall, Phase, NoTool, ToolCall, NoUsage, Usage
<1>4. RowsSound
  <2>1. row \in [Callers -> Row] /\ \A r \in Callers: row[r].status = "none" /\ row[r].task = "none"
    BY DEF Init, Row
  <2>2. client \in [Clients -> ClientState] /\ \A c \in Clients: client[c].cursor = 0
    BY DEF Init, ClientState
  <2>3. log = <<>> /\ said = <<>> /\ crashes \in 0..MaxCrashes /\ "none" \notin Statuses
    BY ChatAssumption DEF Init, Statuses
  <2>4. QED
    BY <2>1, <2>2, <2>3 DEF RowsSound, RowsTyped, RowsLive, Started, OneEnd
<1>5. QED
  BY <1>1, <1>2, <1>3, <1>4 DEF ChatSound

LEMMA ChatAlways == Spec => []ChatSound
BY ChatStart, ChatStep, PTL DEF Spec

(* Every variable keeps to its domain, and no browser is ahead of the events. *)
THEOREM ChatTypes == Spec => []ChatTypeOK
<1>1. ChatSound => ChatTypeOK
  BY DEF ChatSound, PipelinesTyped, CallsSound, CallsTyped, RowsSound, RowsTyped, Answers, ChatTypeOK
<1>2. QED
  BY <1>1, ChatAlways, PTL

(* A run is answered once and ends once, for whatever browsers,              *)
(* cancellations and restarts (repository.py, complete_run).                 *)
THEOREM EndedOnce == Spec => []OneEnd
<1>1. ChatSound => OneEnd
  BY DEF ChatSound, RowsSound
<1>2. QED
  BY <1>1, ChatAlways, PTL

(* A run whose token is set reserves nothing any more.                       *)
LEMMA StoppedReservesNothing ==
  ASSUME ChatSound, [Next]_vars, NEW r \in Callers, Ledger[r] \in stopped
  PROVE  /\ usage'[Ledger[r]].model <= usage[Ledger[r]].model
         /\ usage'[Ledger[r]].tool <= usage[Ledger[r]].tool
<1> DEFINE l == Ledger[r]
<1>1. /\ usage \in [Ledgers -> Usage] /\ l \in Ledgers /\ Ledger \in [Callers -> Ledgers]
      /\ usage[l].model \in Nat /\ usage[l].tool \in Nat
      /\ \A q \in Callers: Ledger[q] = l => q = r
  BY GatewayAssumption, ChatAssumption DEF ChatSound, CallsSound, CallsTyped, Usage
<1>2. ASSUME usage'[l] = usage[l] \/ (usage'[l].model = usage[l].model /\ usage'[l].tool = usage[l].tool)
      PROVE  usage'[l].model <= usage[l].model /\ usage'[l].tool <= usage[l].tool
  BY <1>1, <1>2
<1>3. ASSUME NEW q \in Callers, GatewayStep(q)
      PROVE  usage'[l].model <= usage[l].model /\ usage'[l].tool <= usage[l].tool
  <2>1. CASE UNCHANGED usage
    BY <1>2, <2>1
  <2>2. CASE Send(q) /\ Ledger[q] \notin stopped
    <3>1. Ledger[q] # l
      BY <2>2
    <3>2. usage' = usage \/ ReserveModel(Ledger[q], Estimate)
      BY <2>2 DEF Send
    <3>3. usage'[l] = usage[l]
      BY <1>1, <3>1, <3>2 DEF ReserveModel
    <3>4. QED
      BY <1>2, <3>3
  <2>3. ASSUME NEW actual, SettleModel(Ledger[q], Estimate, actual)
        PROVE  usage'[l].model <= usage[l].model /\ usage'[l].tool <= usage[l].tool
    <3>1. CASE Ledger[q] = l
      BY <1>1, <1>2, <2>3, <3>1 DEF SettleModel, Usage
    <3>2. CASE Ledger[q] # l
      BY <1>1, <1>2, <2>3, <3>2 DEF SettleModel
    <3>3. QED
      BY <3>1, <3>2
  <2>4. QED
    BY <1>3, <2>1, <2>2, <2>3
    DEF GatewayStep, Misconfigured, Send, Answer, ProviderFails, WakesUp, budgetVars
<1>4. ASSUME NEW q \in Callers, ToolStep(q)
      PROVE  usage'[l].model <= usage[l].model /\ usage'[l].tool <= usage[l].tool
  <2>1. CASE UNCHANGED usage
    BY <1>2, <2>1
  <2>2. CASE Invoke(q) /\ Ledger[q] \notin stopped
    <3>1. Ledger[q] # l
      BY <2>2
    <3>2. usage' = usage \/ ReserveTool(Ledger[q])
      BY <2>2 DEF Invoke
    <3>3. usage'[l] = usage[l]
      BY <1>1, <3>1, <3>2 DEF ReserveTool
    <3>4. QED
      BY <1>2, <3>3
  <2>3. QED
    BY <1>4, <2>1, <2>2
    DEF ToolStep, Refuse, Invoke, Returns, Stores, Fails, Again, toolFrame, budgetVars
<1>5. ASSUME NEW runs, Dropped(runs)
      PROVE  usage'[l].model <= usage[l].model /\ usage'[l].tool <= usage[l].tool
  <2>1. usage'[l] = NoUsage \/ usage'[l] = usage[l]
    BY <1>1, <1>5 DEF Dropped
  <2>2. QED
    BY <1>1, <2>1 DEF NoUsage
<1>6. CASE UNCHANGED usage
  BY <1>2, <1>6
<1>7. QED
  <2>1. ASSUME NEW q \in Callers, Task(q)
        PROVE  usage'[l].model <= usage[l].model /\ usage'[l].tool <= usage[l].tool
    <3>1. CASE Execute(q) \/ AskAgent(q)
      BY <1>6, <3>1 DEF Execute, AskAgent, Ask, qaFrame, budgetVars
    <3>2. CASE QaStep(q)
      BY <1>6, <3>2 DEF QaStep, Listed, Plan, Learned, Synthesize, Breaks, qaFrame, budgetVars
    <3>3. CASE CompleteRun(q)
      BY <1>5, <3>3 DEF CompleteRun
    <3>4. QED
      BY <1>3, <1>4, <2>1, <3>1, <3>2, <3>3 DEF Task
  <2>2. CASE Crash \/ \E q \in Callers: TaskFails(q)
    BY <1>5, <2>2 DEF Crash, TaskFails
  <2>3. ASSUME NEW c \in Clients, Post(c) \/ Follow(c) \/ Poll(c) \/ GiveUp(c) \/ Cancel(c)
        PROVE  UNCHANGED usage
    BY <2>3 DEF Post, Follow, Poll, GiveUp, Cancel, agentVars, budgetVars
  <2>4. ASSUME NEW q \in Callers, SinkFails(q) PROVE UNCHANGED usage
    BY <2>4 DEF SinkFails, budgetVars
  <2>5. CASE UNCHANGED vars
    BY <1>6, <2>5 DEF vars, agentVars
  <2>6. QED
    BY <1>6, <2>1, <2>2, <2>3, <2>4, <2>5 DEF Next

(* A run that was cancelled before it had its evidence is not answered.      *)
LEMMA CancelledIsNotAnswered ==
  ASSUME ChatSound, [Next]_vars, NEW r \in Callers,
         row[r].cancel, row[r].task = "working", qa[r].at \in {"idle", "inventory", "plan"}
  PROVE  \/ qa'[r].at \in {qa[r].at, "plan"} \/ row'[r].task = "lost"
         \/ qa'[r].result \in {"blocked", "failed", "canceled"}
<1> DEFINE Goal == \/ qa'[r].at \in {qa[r].at, "plan"} \/ row'[r].task = "lost"
                   \/ qa'[r].result \in {"blocked", "failed", "canceled"}
<1>1. /\ Ledger[r] \in stopped /\ qa \in [Callers -> Pipeline]
      /\ row \in [Callers -> Row]
  BY DEF ChatSound, RowsSound, RowsTyped, RowsLive, PipelinesTyped
<1>2. ASSUME qa'[r] = qa[r] PROVE Goal
  BY <1>2
<1>3. ASSUME NEW result \in {"blocked", "failed", "canceled"}, Finish(r, result) PROVE Goal
  BY <1>1, <1>3 DEF Finish, Pipeline
<1>4. ASSUME NEW pipeline, Use(r, pipeline) PROVE Goal
  BY <1>1, <1>3, <1>4 DEF Use
<1>5. ASSUME NEW q \in Callers, q # r, Task(q) PROVE Goal
  <2>1. ASSUME NEW pipeline, Use(q, pipeline) \/ \E result: Finish(q, result) PROVE qa'[r] = qa[r]
    BY <1>1, <1>5, <2>1 DEF Use, Finish
  <2>2. CASE AskAgent(q)
    BY <1>2, <2>1, <2>2 DEF AskAgent, Ask
  <2>3. CASE QaStep(q)
    <3>1. CASE Listed(q) \/ Breaks(q)
      BY <1>1, <1>2, <1>5, <2>1, <3>1 DEF Listed, Breaks
    <3>2. CASE Plan(q)
      BY <1>1, <1>2, <1>5, <2>1, <3>2 DEF Plan
    <3>3. CASE Learned(q)
      BY <1>1, <1>2, <1>5, <2>1, <3>3 DEF Learned
    <3>4. CASE Synthesize(q)
      BY <1>1, <1>2, <1>5, <3>4 DEF Synthesize
    <3>5. QED
      BY <2>3, <3>1, <3>2, <3>3, <3>4 DEF QaStep
  <2>4. CASE CompleteRun(q)
    BY <1>1, <1>2, <1>5, <2>4 DEF CompleteRun, Dropped
  <2>5. CASE Execute(q)
    BY <1>2, <2>5 DEF Execute
  <2>6. QED
    BY <1>2, <1>5, <2>2, <2>3, <2>4, <2>5 DEF Task
<1>6. CASE Task(r)
  <2>1. CASE AskAgent(r)
    BY <1>3, <1>4, <2>1 DEF AskAgent, Ask
  <2>2. CASE Listed(r)
    <3>1. CASE qa' = [qa EXCEPT ![r].at = "plan"]
      BY <1>1, <3>1 DEF Pipeline
    <3>2. QED
      BY <1>3, <2>2, <3>1 DEF Listed
  <2>3. CASE Plan(r)
    <3>1. PICK plan, degraded: LET next == Planned(r, plan, degraded) IN
            IF next.at = "finished" THEN qa' = [qa EXCEPT ![r] = next] ELSE Use(r, next)
      BY <2>3 DEF Plan
    <3> DEFINE next == Planned(r, plan, degraded)
    <3>2. next.at = "finished" => next.result = "blocked"
      BY <1>1 DEF Planned, Pipeline
    <3>3. IF next.at = "finished" THEN qa' = [qa EXCEPT ![r] = next] ELSE Use(r, next)
      BY <3>1
    <3> HIDE DEF next
    <3>4. QED
      BY <1>1, <1>4, <3>2, <3>3
  <2>4. CASE Breaks(r)
    BY <1>3, <2>4 DEF Breaks
  <2>5. CASE Learned(r) \/ Synthesize(r) \/ CompleteRun(r)
    BY <2>5 DEF Learned, Synthesize, CompleteRun
  <2>6. CASE UNCHANGED qa
    BY <1>2, <2>6
  <2>7. QED
    BY <1>6, <2>1, <2>2, <2>3, <2>4, <2>5, <2>6 DEF Task, QaStep, Execute
<1>7. CASE Crash
  BY <1>1, <1>7 DEF Crash, Row
<1>8. CASE UNCHANGED qa
  BY <1>2, <1>8
<1>9. ASSUME NEW q \in Callers, TaskFails(q) PROVE Goal
  <2>1. CASE q = r
    BY <1>1, <1>9, <2>1 DEF TaskFails, Row
  <2>2. CASE q # r
    BY <1>1, <1>2, <1>9, <2>2 DEF TaskFails, Dropped
  <2>3. QED
    BY <2>1, <2>2
<1>10. ASSUME NEW c \in Clients, Post(c) \/ Follow(c) \/ Poll(c) \/ GiveUp(c) \/ Cancel(c)
      PROVE  UNCHANGED qa
  BY <1>10 DEF Post, Follow, Poll, GiveUp, Cancel, agentVars
<1>11. QED
  BY <1>5, <1>6, <1>7, <1>8, <1>9, <1>10 DEF Next, vars, agentVars

(* Once a token is set, no model and no tool is asked for its run, and a run *)
(* cancelled before it had its evidence is not answered (tool_loop.py,       *)
(* execute; model_gateway.py, _invoke).                                      *)
THEOREM CancelHonoured == Spec => CancelStopsWork
<1>1. ChatSound /\ [Next]_vars => [\A r \in Callers:
  /\ Ledger[r] \in stopped => /\ usage'[Ledger[r]].model <= usage[Ledger[r]].model
                              /\ usage'[Ledger[r]].tool <= usage[Ledger[r]].tool
  /\ row[r].cancel /\ row[r].task = "working" /\ qa[r].at \in {"idle", "inventory", "plan"}
     => \/ qa'[r].at \in {qa[r].at, "plan"} \/ row'[r].task = "lost"
        \/ qa'[r].result \in {"blocked", "failed", "canceled"}]_vars
  BY StoppedReservesNothing, CancelledIsNotAnswered
<1>2. QED
  BY <1>1, ChatAlways, PTL DEF Spec, CancelStopsWork
=============================================================================
