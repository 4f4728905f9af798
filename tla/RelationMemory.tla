---------------------------- MODULE RelationMemory ----------------------------
(* What runs remember of relations (agent/memory, layer L2): a run retrieves *)
(* a package of memories, verifies it against its catalog, and consolidates  *)
(* the accepted relations of the project into memory. All of it happens in   *)
(* the memory stages of a run, which do not let anything else run within one *)
(* operation of the store.                                                   *)
EXTENDS RelationVersions

CONSTANTS Retyped,      \* snapshots in which a column of the claim has another type
          Keyless,      \* snapshots in which the target is not the key the claim needs
          MaxForgets    \* bound on requests to forget

ASSUME MemoryAssumption ==
  Retyped \subseteq Snapshots /\ Keyless \subseteq Snapshots /\ MaxForgets \in Nat

VARIABLES memory,      \* snapshot of the claim -> versions of its memory
          shown,       \* snapshot of the claim -> status of its memory_items row
          package,     \* run -> the memories it retrieved
          pending,     \* run -> the rows the stage under way still has to look at
          thread,      \* the row of the thread the runs belong to (layer L1)
          forgets

memoryVars == <<memory, shown, package, pending, thread, forgets>>
vars == <<versionVars, memoryVars>>

MemoryVersion == [status: {"accepted", "rejected", "stale"}, by: Runs \cup Reviewers,
                  evidence: SUBSET (Facts \cup Human)]
Thread == [version: Nat, status: {"none", "active", "completed"}]
Retrieved == [of: Snapshots, version: Nat]

MemoryInit ==
  /\ memory = [s \in Snapshots |-> <<>>]
  /\ shown = [s \in Snapshots |-> "none"]
  /\ package = [r \in Runs |-> {}] /\ pending = [r \in Runs |-> {}]
  /\ thread = [version |-> 0, status |-> "none"] /\ forgets = 0

Newest(s) == memory[s][Len(memory[s])]

\* A defect to test with: the row of the item is left as it was.
RememberOnly(s, version) ==
  /\ memory' = [memory EXCEPT ![s] = Append(@, version)]
  /\ shown' = [shown EXCEPT ![s] = IF @ = "none" THEN version.status ELSE @]

\* The append-only store: the row of the item follows its newest version.
Remember(s, version) ==
  /\ memory' = [memory EXCEPT ![s] = Append(@, version)]
  /\ shown' = [shown EXCEPT ![s] = version.status]

\* ------------------------------------------------------------------ retrieve
\* Only accepted memories of other runs that nobody has forgotten.
Retrievable(r, s) ==
  /\ memory[s] # <<>> /\ shown[s] # "forgotten"
  /\ Newest(s).status = "accepted" /\ Newest(s).by # r

\* The row of the thread gets its next version.
SyncThread(status) == thread' = [version |-> thread.version + 1, status |-> status]

\* The best ones, as far as number, variety and tokens allow.
Retrieve(r) == \E chosen \in SUBSET {s \in Snapshots: Retrievable(r, s)}:
  /\ At(r, "retrieve")
  /\ package' = [package EXCEPT ![r] = {[of |-> s, version |-> Len(memory[s])]: s \in chosen}]
  /\ pending' = [pending EXCEPT ![r] = package'[r]]
  /\ SyncThread("active") /\ Moves(r, "collect")
  /\ UNCHANGED <<ledger, storeVars, review, memory, shown, forgets>>

\* -------------------------------------------------------------------- verify
\* A memory against the catalog and the evidence of a run's own snapshot.
Supported(m, s) == m.of = s /\ memory[m.of][m.version].evidence \cap ledger[s] # {}

Outcome(m, s) ==
  CASE s \in Gone -> "stale"
    [] s \in Retyped \ Gone -> "rejected"
    [] s \notin Gone \cup Retyped /\ ~Supported(m, s) -> "insufficient"
    [] s \in Keyless \ (Gone \cup Retyped) /\ Supported(m, s) -> "rejected"
    [] OTHER -> "verified"

\* The outcome for one memory is appended as a version of it, if no other one
\* has come in between.
Verify(r) == \E m \in pending[r]:
  LET outcome == Outcome(m, SnapshotOf[r])
      seen == memory[m.of][m.version]
  IN
  /\ At(r, "verify")
  /\ pending' = [pending EXCEPT ![r] = @ \ {m}]
  /\ IF outcome = "insufficient" \/ Len(memory[m.of]) # m.version
     THEN UNCHANGED <<memory, shown>>
     ELSE Remember(m.of, [seen EXCEPT !.status = IF outcome = "verified" THEN @ ELSE outcome,
                                   !.by = r])
  /\ UNCHANGED <<versionVars, package, thread, forgets>>

Verified(r) ==
  /\ At(r, "verify") /\ pending[r] = {}
  /\ Moves(r, "merge")
  /\ UNCHANGED <<ledger, storeVars, review, memoryVars>>

\* --------------------------------------------------------------- consolidate
\* The thread is completed with the last relation.
Consolidated(r) ==
  IF pending'[r] = {} THEN Moves(r, "done") /\ SyncThread("completed")
                      ELSE Moves(r, "consolidate") /\ UNCHANGED thread

\* The stage lists the relations of the project, those of all snapshots.
List(r) ==
  /\ At(r, "consolidate") /\ pending[r] = {}
  /\ pending' = [pending EXCEPT ![r] = {[of |-> s, version |-> Len(versions[s])]:
       s \in {x \in Snapshots: versions[x] # <<>> /\ Latest(x).status = "accepted"}}]
  /\ Consolidated(r)
  /\ UNCHANGED <<ledger, storeVars, review, memory, shown, package, forgets>>

\* A defect to test with: every relation is remembered as an accepted one.
ConsolidateAll(r) == \E s \in Snapshots:
  /\ At(r, "consolidate") /\ versions[s] # <<>>
  /\ Remember(s, [status |-> "accepted", by |-> Latest(s).by, evidence |-> Latest(s).evidence])
  /\ Moves(r, "done") /\ SyncThread("completed")
  /\ UNCHANGED <<ledger, storeVars, review, package, forgets, pending>>

\* One relation, as it was listed, becomes a version of its memory,
\* unless the memory says so already.
Consolidate(r) == \E row \in pending[r]:
  LET s == row.of
      relation == versions[s][row.version]
      known == /\ memory[s] # <<>> /\ Newest(s).by = relation.by
               /\ Newest(s).evidence = relation.evidence
  IN
  /\ At(r, "consolidate")
  /\ pending' = [pending EXCEPT ![r] = @ \ {row}]
  /\ IF known
     THEN UNCHANGED <<memory, shown>>
     ELSE Remember(s, [status |-> "accepted", by |-> relation.by, evidence |-> relation.evidence])
  /\ Consolidated(r)
  /\ UNCHANGED <<ledger, storeVars, review, package, forgets>>

\* -------------------------------------------------------------------- forget
Forget(s) ==
  /\ memory[s] # <<>> /\ forgets < MaxForgets
  /\ shown' = [shown EXCEPT ![s] = "forgotten"]
  /\ forgets' = forgets + 1
  /\ UNCHANGED <<versionVars, memory, package, pending, thread>>

MemoryStep ==
  \/ VersionStep /\ UNCHANGED memoryVars
  \/ \E r \in Runs: Retrieve(r) \/ Verify(r) \/ Verified(r) \/ List(r) \/ Consolidate(r)
  \/ \E s \in Snapshots: Forget(s)
=============================================================================
