----------------------------- MODULE RunBudget -----------------------------
(* The budget ledger of a run (agent/runtime/budget.py). One number stands  *)
(* for the three token and cost dimensions, which the code handles alike.   *)
(* Every operation holds the ledger's lock, so each is part of one step.    *)
EXTENDS Integers

CONSTANTS Ledgers,          \* budget ledgers, one per run context
          MaxModelCalls,    \* RunBudget.max_model_calls
          MaxToolCalls,     \* RunBudget.max_tool_calls
          MaxTokens         \* RunBudget.max_input_tokens and the like

ASSUME LimitsAssumption ==
  MaxModelCalls \in Nat /\ MaxToolCalls \in Nat /\ MaxTokens \in Nat

VARIABLES usage,    \* ledger -> what it has counted (_usage)
          late      \* ledgers whose deadline_at has passed

budgetVars == <<usage, late>>

Usage == [model: Nat, tool: Nat, tokens: Nat]
NoUsage == [model |-> 0, tool |-> 0, tokens |-> 0]

Within(u) ==
  /\ u.model <= MaxModelCalls
  /\ u.tool <= MaxToolCalls
  /\ u.tokens <= MaxTokens

BudgetInit == usage = [l \in Ledgers |-> NoUsage] /\ late = {}

ModelFits(l, estimate) ==
  /\ l \notin late
  /\ usage[l].model + 1 <= MaxModelCalls
  /\ usage[l].tokens + estimate <= MaxTokens

ReserveModel(l, estimate) ==
  usage' = [usage EXCEPT ![l].model = @ + 1, ![l].tokens = @ + estimate]

\* What an answer really cost replaces its reservation, unless that would
\* pass the limit: then the reservation stays as it is.
AnswerFits(l, estimate, actual) ==
  usage[l].tokens - estimate + actual <= MaxTokens

SettleModel(l, estimate, actual) ==
  usage' = [usage EXCEPT ![l].tokens = @ - estimate + actual]

ToolFits(l) ==
  /\ l \notin late
  /\ usage[l].tool + 1 <= MaxToolCalls

ReserveTool(l) == usage' = [usage EXCEPT ![l].tool = @ + 1]

\* A ledger takes over stored usage only while it is empty.
MayRestore(l, u) == usage[l] = NoUsage /\ Within(u)
Restore(l, u) == usage' = [usage EXCEPT ![l] = u]

DeadlinePasses(l) ==
  /\ l \notin late
  /\ late' = late \cup {l}
  /\ UNCHANGED usage
=============================================================================
