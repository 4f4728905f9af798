----------------------------- MODULE GlobalMemory -----------------------------
(* Promotion to global memory (agent/memory, layer L3): a reviewer proposes   *)
(* a pattern with his feedback on a memory, and reviewers resolve the         *)
(* proposal. A request is a row of transactions, and a process may die        *)
(* between two of them. There is one pattern.                                 *)
EXTENDS RelationMemory

CONSTANT Authorized     \* reviewers whose role may activate a pattern

ASSUME PromotionAssumption == Authorized \subseteq Reviewers

VARIABLES global,       \* the versions of the pattern
          proposal,     \* the row of the proposal
          late          \* the proposal's time is over

globalVars == <<global, proposal, late>>
allVars == <<vars, globalVars>>

Lifecycles == {"candidate", "active", "deprecated"}
Proposal == [lifecycle: Lifecycles \cup {"none"}, by: Reviewers \cup {"nobody"}]

Init ==
  /\ VersionsInit /\ MemoryInit
  /\ global = <<>> /\ late = FALSE
  /\ proposal = [lifecycle |-> "none", by |-> "nobody"]

Asks(w, step, action, base) ==
  /\ review[w].at \in Idle /\ review[w].asked < MaxReviews[w]
  /\ review' = [review EXCEPT ![w].at = step, ![w].action = action, ![w].base = base,
                              ![w].asked = @ + 1]
Goes(w, step) == review' = [review EXCEPT ![w].at = step]
Rest == <<ledger, storeVars, run, memoryVars>>

\* ------------------------------------------------------------------- propose
\* Feedback on a memory that asks for a global pattern.
Suggest(w) ==
  /\ \E s \in Snapshots: memory[s] # <<>>
  /\ Asks(w, "proposing", "accept", 0)
  /\ UNCHANGED <<Rest, globalVars>>

\* The candidate is its first version; another one of another time conflicts.
Candidate(w) ==
  /\ review[w].at = "proposing"
  /\ IF global = <<>>
     THEN global' = <<"candidate">> /\ Goes(w, "proposed")
     ELSE Goes(w, "error") /\ UNCHANGED global
  /\ UNCHANGED <<Rest, proposal, late>>

\* The proposal has the id of the candidate, so it is stored once.
Propose(w) ==
  /\ review[w].at = "proposed"
  /\ proposal' = [lifecycle |-> "candidate", by |-> "nobody"]
  /\ Goes(w, "promoted")
  /\ UNCHANGED <<Rest, global, late>>

\* ------------------------------------------------------------------- resolve
\* A reviewer reads the proposal and asks to approve or to refuse it.
Resolve(w) == \E action \in {"accept", "reject"}:
  /\ proposal.lifecycle # "none"
  /\ Asks(w, IF proposal.lifecycle = "candidate" THEN "resolving" ELSE "resolved", action, 0)
  /\ UNCHANGED <<Rest, globalVars>>

\* An approval without authority is refused, one that is late deprecates.
Target(w) == IF review[w].action = "accept" /\ ~late THEN "active" ELSE "deprecated"
Forbidden(w) == review[w].action = "accept" /\ ~late /\ w \notin Authorized

\* A defect to test with: the row is written whatever it says by now.
DecideAnyway(w) ==
  /\ review[w].at = "resolving"
  /\ IF Forbidden(w)
     THEN Goes(w, "refused") /\ UNCHANGED proposal
     ELSE proposal' = [lifecycle |-> Target(w), by |-> w] /\ Goes(w, "resolved")
  /\ UNCHANGED <<Rest, global, late>>

\* The row is written only while it is open.
Decide(w) ==
  /\ review[w].at = "resolving"
  /\ IF Forbidden(w) \/ proposal.lifecycle # "candidate"
     THEN Goes(w, IF Forbidden(w) THEN "refused" ELSE "error") /\ UNCHANGED proposal
     ELSE proposal' = [lifecycle |-> Target(w), by |-> w] /\ Goes(w, "resolved")
  /\ UNCHANGED <<Rest, global, late>>

\* The version the pattern has is read, and the next one says what the
\* proposal says, unless another one came in between.
Look(w) ==
  /\ review[w].at = "resolved"
  /\ review' = [review EXCEPT ![w].at = "promoting", ![w].base = Len(global)]
  /\ UNCHANGED <<Rest, globalVars>>

Promote(w) ==
  /\ review[w].at = "promoting"
  /\ IF Len(global) = review[w].base
     THEN global' = Append(global, proposal.lifecycle) /\ Goes(w, "promoted")
     ELSE Goes(w, "error") /\ UNCHANGED global
  /\ UNCHANGED <<Rest, proposal, late>>

\* The process dies between two transactions of a request; time passes.
Lost(w) ==
  /\ review[w].at \in {"proposed", "promoting"}
  /\ Goes(w, "error")
  /\ UNCHANGED <<Rest, globalVars>>

Expire ==
  /\ ~late /\ proposal.lifecycle # "none" /\ late' = TRUE
  /\ UNCHANGED <<versionVars, memoryVars, global, proposal>>

GlobalStep ==
  \/ \E w \in Reviewers: Suggest(w) \/ Candidate(w) \/ Propose(w) \/ Resolve(w) \/ Decide(w)
                         \/ Look(w) \/ Promote(w) \/ Lost(w)
  \/ Expire

Next ==
  \/ MemoryStep /\ UNCHANGED globalVars
  \/ GlobalStep
Spec == Init /\ [][Next]_allVars
=============================================================================
