--------------------------- MODULE RelationVersions ---------------------------
(* The versions of relations (evidence/versioned_repository.py): merges of   *)
(* recovery runs (agent/workers/hybrid_stage.py, _fuse_versioned) and        *)
(* reviewers (api/evidence_routes.py) append to them, each in transactions   *)
(* of its own. There is one claim, and one relation of it for each snapshot. *)
(* A run may stop anywhere: nothing here says that it goes on.               *)
EXTENDS Integers, Sequences, FiniteSets

CONSTANTS Snapshots,    \* snapshots of the database
          Gone,         \* snapshots in which a table of the claim is missing
          Roots,        \* independent root facts that speak for the claim
          Doubts,       \* root facts that speak against it
          Findings,     \* what one round of collectors may find
          Runs,         \* recovery runs
          SnapshotOf,   \* run -> the snapshot it surveys
          Reviewers,    \* people who judge relations, one request at a time
          Actions,      \* what they may ask for, of "accept", "reject", "undo"
          MaxReviews    \* reviewer -> bound on his requests, retries included

ASSUME VersionsAssumption ==
  /\ Snapshots # {} /\ Gone \subseteq Snapshots /\ SnapshotOf \in [Runs -> Snapshots]
  /\ Actions \subseteq {"accept", "reject", "undo"}
  /\ Roots \cap Doubts = {} /\ Findings \subseteq SUBSET (Roots \cup Doubts)
  /\ MaxReviews \in [Reviewers -> Nat]

VARIABLES ledger,     \* snapshot -> facts in the run-side evidence ledger
          items,      \* snapshot -> rows of evidence_items
          versions,   \* snapshot -> rows of relation_versions, in order
          feedback,   \* rows of human_feedback
          run,        \* run -> where it is
          review      \* reviewer -> the request under way

storeVars == <<items, versions, feedback>>
versionVars == <<ledger, storeVars, run, review>>

Facts == Roots \cup Doubts
\* The key that keeps a row of a reviewer from being stored twice does not hold
\* the request: one reviewer has one row for a claim, the first one.
Human == [who: Reviewers, polarity: {"support", "oppose", "neutral"}]
Polarity(action) ==
  CASE action = "accept" -> "support" [] action = "reject" -> "oppose" [] OTHER -> "neutral"

Version == [status: {"proposed", "accepted", "rejected"}, evidence: SUBSET (Facts \cup Human),
            by: Runs \cup Reviewers]
Phases == {"retrieve", "collect", "verify", "merge", "fused", "consolidate", "done", "failed"}
Run == [at: Phases, base: Nat, seen: SUBSET Facts]
\* "proposing" to "promoting" are of the requests about global patterns.
Steps == {"idle", "asked", "noted", "judging", "done", "refused", "error",
          "proposing", "proposed", "resolving", "resolved", "promoting", "promoted"}
Idle == {"idle", "done", "refused", "error", "promoted"}
Request == [at: Steps,
            snapshot: Snapshots, action: {"accept", "reject", "undo"}, base: Nat, asked: Nat]
NoRequest == [at |-> "idle", snapshot |-> CHOOSE s \in Snapshots: TRUE, action |-> "undo",
              base |-> 0, asked |-> 0]

VersionsInit ==
  /\ ledger = [s \in Snapshots |-> {}] /\ items = [s \in Snapshots |-> {}]
  /\ versions = [s \in Snapshots |-> <<>>] /\ feedback = {}
  /\ run = [r \in Runs |-> [at |-> "retrieve", base |-> 0, seen |-> {}]]
  /\ review = [w \in Reviewers |-> NoRequest]

At(r, phase) == run[r].at = phase
Moves(r, phase) == run' = [run EXCEPT ![r].at = phase]

\* -------------------------------------------------------------------- fusion
\* The evidence that counts: rows that are neutral are left out.
Counted(evidence) == {e \in evidence: e \notin Human \/ e.polarity # "neutral"}
For(evidence) == {e \in evidence: e \in Roots \/ (e \in Human /\ e.polarity = "support")}
Against(evidence) == {e \in evidence: e \in Doubts \/ (e \in Human /\ e.polarity = "oppose")}

\* The high band asks for more than one root, and for more weight for than
\* against.
High(evidence) ==
  /\ Cardinality(Counted(evidence)) > 1
  /\ Cardinality(For(evidence)) > Cardinality(Against(evidence))

Fused(status, evidence, by) ==
  [status |-> status, evidence |-> Counted(evidence), by |-> by]

Latest(s) == versions[s][Len(versions[s])]

\* ---------------------------------------------------------------------- runs
\* Collectors, reasoners and verifiers put facts into the run-side ledger.
Collect(r) == \E found \in (IF SnapshotOf[r] \in Gone THEN {{}} ELSE Findings):
  /\ At(r, "collect")
  /\ ledger' = [ledger EXCEPT ![SnapshotOf[r]] = @ \cup found]
  /\ Moves(r, "verify")
  /\ UNCHANGED <<storeVars, review>>

\* A defect to test with: the evidence is left where it is.
FuseUnstored(r) ==
  LET s == SnapshotOf[r] IN
  /\ At(r, "merge")
  /\ run' = [run EXCEPT ![r] = [at |-> "fused", base |-> Len(versions[s]), seen |-> ledger[s]]]
  /\ UNCHANGED <<ledger, items, versions, feedback, review>>

\* The merge: evidence is stored, the relation that is there is read.
Fuse(r) ==
  LET s == SnapshotOf[r] IN
  /\ At(r, "merge")
  /\ IF ledger[s] = {}
     THEN Moves(r, "consolidate") /\ UNCHANGED items
     ELSE /\ items' = [items EXCEPT ![s] = @ \cup ledger[s]]
          /\ run' = [run EXCEPT ![r] = [at |-> "fused", base |-> Len(versions[s]), seen |-> ledger[s]]]
  /\ UNCHANGED <<ledger, versions, feedback, review>>

\* A defect to test with: what is there at the version's place is replaced.
AppendVersionAnyway(s, base, version) ==
  versions' = [versions EXCEPT ![s] = Append(SubSeq(@, 1, base), version)]

\* A version is stored only as the next one after the version it was made from.
AppendVersion(s, base, version) ==
  /\ Len(versions[s]) = base
  /\ versions' = [versions EXCEPT ![s] = Append(@, version)]

\* The fused version becomes the next one, unless it says what the relation
\* says already. If somebody was faster the stage fails, and is tried again or
\* ends the run. The critic may ask for another round.
Store(r) ==
  LET s == SnapshotOf[r]
      fused == Fused(IF High(run[r].seen) THEN "accepted" ELSE "proposed", run[r].seen, r)
      same == run[r].base > 0 /\ versions[s][run[r].base].evidence = fused.evidence
  IN
  /\ At(r, "fused")
  /\ \/ same /\ Moves(r, "consolidate") /\ UNCHANGED versions
     \/ ~same /\ AppendVersion(s, run[r].base, fused) /\ (Moves(r, "consolidate") \/ Moves(r, "collect"))
     \/ /\ ~same /\ Len(versions[s]) # run[r].base
        /\ Moves(r, "merge") \/ Moves(r, "failed")
        /\ UNCHANGED versions
  /\ UNCHANGED <<ledger, items, feedback, review>>

\* ----------------------------------------------------------------- reviewers
\* A reviewer judges a relation as it is shown to him.
Ask(w) == \E s \in Snapshots, action \in Actions:
  /\ review[w].at \in Idle /\ review[w].asked < MaxReviews[w] /\ versions[s] # <<>>
  /\ review' = [review EXCEPT ![w] = [at |-> "asked", snapshot |-> s, action |-> action,
                                      base |-> Len(versions[s]), asked |-> @.asked + 1]]
  /\ UNCHANGED <<ledger, storeVars, run>>

\* The request: version checked, evidence stored once for the reviewer.
Receive(w) ==
  LET q == review[w] IN
  /\ q.at = "asked"
  /\ IF Len(versions[q.snapshot]) # q.base
     THEN review' = [review EXCEPT ![w].at = "refused"] /\ UNCHANGED items
     ELSE /\ review' = [review EXCEPT ![w].at = "noted"]
          /\ items' = [items EXCEPT ![q.snapshot] =
               IF \E e \in @ \cap Human: e.who = w THEN @
               ELSE @ \cup {[who |-> w, polarity |-> Polarity(q.action)]}]
  /\ UNCHANGED <<ledger, versions, feedback, run>>

Row(w) == [who |-> w, snapshot |-> review[w].snapshot, base |-> review[w].base,
           action |-> review[w].action]

\* The feedback itself: the same request with another time is a conflict.
Note(w) ==
  /\ review[w].at = "noted"
  /\ IF Row(w) \in feedback
     THEN review' = [review EXCEPT ![w].at = "error"] /\ UNCHANGED feedback
     ELSE review' = [review EXCEPT ![w].at = "judging"] /\ feedback' = feedback \cup {Row(w)}
  /\ UNCHANGED <<ledger, items, versions, run>>

\* The relation is fused anew with all its evidence, under the status the
\* reviewer asks for.
Judge(w) ==
  LET q == review[w]
      status == CASE q.action = "accept" -> "accepted" [] q.action = "reject" -> "rejected"
                  [] OTHER -> versions[q.snapshot][q.base].status
  IN
  /\ q.at = "judging"
  /\ \/ /\ AppendVersion(q.snapshot, q.base, Fused(status, items[q.snapshot], w))
        /\ review' = [review EXCEPT ![w].at = "done"]
     \/ /\ Len(versions[q.snapshot]) # q.base
        /\ review' = [review EXCEPT ![w].at = "error"]
        /\ UNCHANGED versions
  /\ UNCHANGED <<ledger, items, feedback, run>>

\* The process dies within the request, and the reviewer sends it again.
Retry(w) ==
  /\ review[w].at \in {"noted", "judging"} /\ review[w].asked < MaxReviews[w]
  /\ review' = [review EXCEPT ![w].at = "asked", ![w].asked = @ + 1]
  /\ UNCHANGED <<ledger, storeVars, run>>

VersionStep ==
  \/ \E r \in Runs: Collect(r) \/ Fuse(r) \/ Store(r)
  \/ \E w \in Reviewers: Ask(w) \/ Receive(w) \/ Note(w) \/ Judge(w) \/ Retry(w)
=============================================================================
