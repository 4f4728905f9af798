--------------------------- MODULE MemoryProperties ---------------------------
(* What the stores of relations and memories promise to runs and reviewers. *)
EXTENDS GlobalMemory, SequencesExt

\* Every variable keeps to its domain, and the row of a memory follows its
\* newest version unless somebody asked to forget it.
VersionsTypeOK ==
  /\ ledger \in [Snapshots -> SUBSET Facts] /\ items \in [Snapshots -> SUBSET (Facts \cup Human)]
  /\ versions \in [Snapshots -> Seq(Version)]
  /\ feedback \subseteq [who: Reviewers, snapshot: Snapshots, base: Nat, action: Actions]
  /\ run \in [Runs -> Run] /\ review \in [Reviewers -> Request]
RowFollows == \A s \in Snapshots:
  IF memory[s] = <<>> THEN shown[s] = "none" ELSE shown[s] \in {"forgotten", Newest(s).status}
MemoriesTypeOK ==
  /\ memory \in [Snapshots -> Seq(MemoryVersion)]
  /\ shown \in [Snapshots -> {"none", "forgotten", "accepted", "rejected", "stale"}]
  /\ package \in [Runs -> SUBSET Retrieved] /\ pending \in [Runs -> SUBSET Retrieved]
  /\ thread \in Thread /\ forgets \in 0..MaxForgets
  /\ RowFollows
GlobalTypeOK == global \in Seq(Lifecycles) /\ proposal \in Proposal /\ late \in BOOLEAN
MemoryTypeOK == VersionsTypeOK /\ MemoriesTypeOK /\ GlobalTypeOK

\* No version of a relation, of a memory or of a global pattern is ever
\* rewritten or lost, with runs and reviewers that write at the same time and
\* processes that die in between (versioned_repository.py, append_relation_version;
\* l2_store.py and l3_store.py, append).
HistoryKept ==
  [][/\ \A s \in Snapshots: IsPrefix(versions[s], versions'[s]) /\ IsPrefix(memory[s], memory'[s])
     /\ IsPrefix(global, global')]_allVars

\* A reviewer who was told that his decision is in has decided about the version
\* he was shown, and the next version is his, whatever runs wrote meanwhile
\* (evidence_routes.py, relation_feedback).
DecisionIsOnWhatWasSeen == \A w \in Reviewers:
  LET q == review[w] IN
  (q.at = "done" /\ q.base > 0 /\ q.action # "undo") =>
    /\ Len(versions[q.snapshot]) > q.base
    /\ versions[q.snapshot][q.base + 1].by = w
    /\ versions[q.snapshot][q.base + 1].status = (IF q.action = "accept" THEN "accepted" ELSE "rejected")

\* A version of a relation cites only evidence that is stored, so that what it
\* was made from can be looked up (hybrid_stage.py, _fuse_versioned).
EvidenceCanBeRead == \A s \in Snapshots: \A i \in DOMAIN versions[s]:
  versions[s][i].evidence \subseteq items[s]

\* What is remembered as accepted was accepted once, as a version of the
\* relation with the same evidence, by a merge or by a reviewer
\* (memory/stage.py, execute; service.py, consolidate_relation).
MemoryIsEarned == \A s \in Snapshots: \A i \in DOMAIN memory[s]:
  memory[s][i].status = "accepted" =>
    \E j \in DOMAIN versions[s]: /\ versions[s][j].status = "accepted"
                                 /\ versions[s][j].evidence = memory[s][i].evidence

\* A pattern that was ever active was approved in time by somebody whose role
\* allows it, and the proposal still says so: no later or concurrent answer
\* to the same proposal takes it back (l3_store.py, resolve_proposal).
ActiveIsApproved == \A i \in DOMAIN global:
  global[i] = "active" => proposal.lifecycle = "active" /\ proposal.by \in Authorized

\* The docstring of _apply_verification_outcomes (service.py): stale memory is
\* never silently reused, so once it is stale no later version is accepted.
StaleIsNotReused == \A s \in Snapshots: \A i, j \in DOMAIN memory[s]:
  (i < j /\ memory[s][i].status = "stale") => memory[s][j].status # "accepted"
=============================================================================
