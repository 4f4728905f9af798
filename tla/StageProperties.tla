-------------------------- MODULE StageProperties ---------------------------
(* What the hybrid stages promise about evidence and about the budget.      *)
EXTENDS HybridStages

\* Every variable keeps to its domain, a finished stage has a status, and a
\* stage has a call of the gateway while it reasons and at no other time.
StageTypeOK ==
  /\ usage \in [Ledgers -> Usage] /\ late \subseteq Ledgers
  /\ stopped \subseteq Ledgers /\ warned \subseteq Ledgers
  /\ model \in [Callers -> ModelCall]
  /\ stage \in [Callers -> Attempt]
  /\ evidence \subseteq EvidenceRow /\ relations \subseteq EvidenceId
  /\ spent \in Usage /\ joined \in BOOLEAN /\ restarts \in 0..MaxRestarts
  /\ lowered \subseteq Ledgers
  /\ \A s \in Callers:
       /\ (stage[s].at = "done") = (stage[s].status # "none")
       /\ (stage[s].at = "reason") = (model[s].st # "idle")

\* No ledger ever counts more than its limits, with stages that reserve and
\* settle in parallel, retries, repairs and answers that cost more than their
\* estimate (budget.py, reserve_model and settle_model).
LimitsHold == \A l \in Ledgers: Within(usage[l])

\* A relation in the store rests on evidence in the store that nobody rejected,
\* whatever the model proposed, however often a stage was tried and wherever
\* the process died (worker_verifier.py, verify; repository.py, append_evidence).
RelationsRest == \A id \in relations:
  /\ id.claim \notin Wrong
  /\ [id |-> id, rejected |-> FALSE] \in evidence
  /\ [id |-> id, rejected |-> TRUE] \notin evidence

\* When every attempt has told its usage, the row has counted all the calls the
\* ledger has, whatever ran at the same time and wherever the process was
\* restarted, and all the tokens too as long as no answer cost less than was
\* reserved for it: a stage that begins while another holds a reservation takes
\* its difference from a count that is lowered later (hybrid_stage.py,
\* usage_before and _usage_delta; budget.py, settle_model; manual.py, _sum_usage).
SpentCoversUse ==
  (joined /\ \A s \in Callers: ~stage[s].uncounted) =>
    \A s \in Callers, d \in Dimensions:
      (d = "tokens" => Ledger[s] \notin lowered) => usage[Ledger[s]][d] <= spent[d]

\* The retry classification "safe" (hybrid_stage.py, StageCapabilities): a
\* stage that is tried again is not stopped by what its earlier attempt wrote.
RetryIsSafe == \A s \in Callers:
  (stage[s].attempt > 1 /\ ~stage[s].uncounted) => stage[s].status # "blocked"

\* What the row has counted can be restored into a new ledger (budget.py,
\* restore): the calls behind it were within the limits.
SpentIsReal == Within(spent)
=============================================================================
