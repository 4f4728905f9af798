---------------------------- MODULE MemoryTheorems ----------------------------
(* What is proved of the stores of relations, memories and global patterns,  *)
(* for any number of snapshots, runs, reviewers and requests.                *)
EXTENDS MemoryProperties, TLAPS

(* Where a run is, and what it still has to look at. *)
PendingCanBeRead == \A r \in Runs: \A m \in pending[r]:
  /\ run[r].at \in {"collect", "verify", "consolidate"}
  /\ IF run[r].at = "consolidate"
     THEN m.version \in DOMAIN versions[m.of] /\ versions[m.of][m.version].status = "accepted"
     ELSE m.version \in DOMAIN memory[m.of]

(* What a merge has read is still there when it writes. *)
SeenIsStored == \A r \in Runs:
  run[r].at = "fused" => /\ run[r].base <= Len(versions[SnapshotOf[r]])
                         /\ run[r].seen \subseteq items[SnapshotOf[r]]

(* A reviewer judges a version that there is. *)
JudgedIsThere == \A w \in Reviewers:
  review[w].at \in {"asked", "noted", "judging"} =>
    /\ review[w].base \in DOMAIN versions[review[w].snapshot]
    /\ review[w].action \in Actions

(* The proposal goes from nothing to a candidate, once, and to an answer. *)
OneProposal ==
  /\ global = <<>> => /\ proposal.lifecycle = "none"
                      /\ \A w \in Reviewers: review[w].at # "proposed"
  /\ \A v, w \in Reviewers: review[v].at = "proposed" /\ review[w].at = "proposed" => v = w
  /\ \A w \in Reviewers:
       /\ review[w].at = "proposed" => proposal.lifecycle = "none"
       /\ review[w].at = "resolving" => proposal.lifecycle # "none"
       /\ review[w].at \in {"resolved", "promoting"} =>
            proposal.lifecycle \in {"active", "deprecated"}
  /\ proposal.lifecycle = "active" => proposal.by \in Authorized

-----------------------------------------------------------------------------
(* A sequence is a beginning of itself and of what appending to it gives. *)
LEMMA AppendIsPrefix ==
  ASSUME NEW S, NEW s \in Seq(S), NEW e \in S
  PROVE  IsPrefix(s, s) /\ IsPrefix(s, Append(s, e))
  BY DEF IsPrefix

(* Appending keeps every element in its place and adds one. *)
LEMMA AppendKeeps ==
  ASSUME NEW S, NEW s \in Seq(S), NEW e \in S
  PROVE  /\ Append(s, e) \in Seq(S)
         /\ Len(Append(s, e)) = Len(s) + 1
         /\ DOMAIN s = 1 .. Len(s)
         /\ DOMAIN Append(s, e) = 1 .. Len(s) + 1
         /\ \A i \in DOMAIN s: Append(s, e)[i] = s[i]
         /\ Append(s, e)[Len(s) + 1] = e
         /\ Append(s, e) # <<>>
  OBVIOUS

(* What a version, an item of a request and an evidence set are made of. *)
LEMMA NoRequestType == NoRequest \in Request
  BY VersionsAssumption DEF NoRequest, Request, Steps

(* The stores start within their types. *)
LEMMA TypeInit == Init => MemoryTypeOK
<1> SUFFICES ASSUME Init PROVE MemoryTypeOK
  OBVIOUS
<1> USE DEF Init, VersionsInit, MemoryInit
<1>1. VersionsTypeOK
  <2>1. run \in [Runs -> Run]
    BY DEF Run, Phases
  <2>2. review \in [Reviewers -> Request]
    BY NoRequestType
  <2>3. QED
    BY <2>1, <2>2 DEF VersionsTypeOK
<1>2. MemoriesTypeOK
  BY MemoryAssumption DEF MemoriesTypeOK, RowFollows, Thread
<1>3. GlobalTypeOK
  <2>1. proposal \in Proposal
    BY DEF Proposal
  <2>2. late \in BOOLEAN /\ global \in Seq(Lifecycles)
    <3>1. late \in BOOLEAN
      OBVIOUS
    <3>2. global \in Seq(Lifecycles)
      OBVIOUS
    <3>3. QED
      BY <3>1, <3>2
  <2>3. QED
    BY <2>1, <2>2 DEF GlobalTypeOK
<1>4. QED
  BY <1>1, <1>2, <1>3 DEF MemoryTypeOK

(* Versions are made of what is stored. *)
LEMMA FusedType ==
  ASSUME NEW status \in {"proposed", "accepted", "rejected"},
         NEW evidence \in SUBSET (Facts \cup Human), NEW by \in Runs \cup Reviewers
  PROVE  /\ Fused(status, evidence, by) \in Version
         /\ Fused(status, evidence, by).status = status
         /\ Fused(status, evidence, by).by = by
         /\ Fused(status, evidence, by).evidence \subseteq evidence
  BY DEF Fused, Version, Counted

(* Appending to one of the sequences keeps the others and all it had. *)
LEMMA RememberKeeps ==
  ASSUME MemoriesTypeOK, NEW s \in Snapshots, NEW version \in MemoryVersion,
         Remember(s, version)
  PROVE  /\ memory' \in [Snapshots -> Seq(MemoryVersion)]
         /\ shown' \in [Snapshots -> {"none", "forgotten", "accepted", "rejected", "stale"}]
         /\ \A t \in Snapshots: IsPrefix(memory[t], memory'[t])
         /\ \A t \in Snapshots: \A i \in DOMAIN memory[t]:
              i \in DOMAIN memory'[t] /\ memory'[t][i] = memory[t][i]
         /\ \A t \in Snapshots: \A i \in DOMAIN memory'[t]:
              i \in DOMAIN memory[t] \/ (t = s /\ memory'[t][i] = version)
         /\ RowFollows'
<1> DEFINE old == memory[s]
<1>1. memory \in [Snapshots -> Seq(MemoryVersion)] /\ old \in Seq(MemoryVersion)
  BY DEF MemoriesTypeOK
<1>2. memory' = [memory EXCEPT ![s] = Append(old, version)]
  BY DEF Remember
<1>3. memory'[s] = Append(old, version) /\ \A t \in Snapshots \ {s}: memory'[t] = memory[t]
  BY <1>1, <1>2
<1>4. /\ Append(old, version) \in Seq(MemoryVersion)
      /\ Len(Append(old, version)) = Len(old) + 1
      /\ DOMAIN old = 1 .. Len(old) /\ DOMAIN Append(old, version) = 1 .. Len(old) + 1
      /\ \A i \in DOMAIN old: Append(old, version)[i] = old[i]
      /\ Append(old, version)[Len(old) + 1] = version
      /\ Append(old, version) # <<>> /\ Len(old) \in Nat
  BY <1>1, AppendKeeps
<1>5. memory' \in [Snapshots -> Seq(MemoryVersion)]
  BY <1>1, <1>2, <1>4
<1>6. shown' \in [Snapshots -> {"none", "forgotten", "accepted", "rejected", "stale"}]
  BY DEF Remember, MemoriesTypeOK, MemoryVersion
<1>7. \A t \in Snapshots: IsPrefix(memory[t], memory'[t])
  BY <1>1, <1>3, AppendIsPrefix
<1>8. \A t \in Snapshots: \A i \in DOMAIN memory[t]:
        i \in DOMAIN memory'[t] /\ memory'[t][i] = memory[t][i]
  BY <1>1, <1>3, <1>4
<1>9. \A t \in Snapshots: \A i \in DOMAIN memory'[t]:
        i \in DOMAIN memory[t] \/ (t = s /\ memory'[t][i] = version)
  BY <1>1, <1>3, <1>4
<1>10. RowFollows'
  <2> SUFFICES ASSUME NEW t \in Snapshots
               PROVE  IF memory'[t] = <<>> THEN shown'[t] = "none"
                      ELSE shown'[t] \in {"forgotten", memory'[t][Len(memory'[t])].status}
    BY DEF RowFollows, Newest
  <2>1. CASE t = s
    BY <2>1, <1>3, <1>4 DEF Remember, MemoriesTypeOK
  <2>2. CASE t # s
    BY <2>2, <1>3 DEF Remember, MemoriesTypeOK, RowFollows, Newest
  <2>3. QED
    BY <2>1, <2>2
<1>11. QED
  BY <1>5, <1>6, <1>7, <1>8, <1>9, <1>10

(* A version that is stored is the next one of its relation, and no other changes. *)
LEMMA AppendVersionKeeps ==
  ASSUME VersionsTypeOK, NEW s \in Snapshots, NEW base, NEW version \in Version,
         AppendVersion(s, base, version)
  PROVE  /\ versions' \in [Snapshots -> Seq(Version)]
         /\ \A t \in Snapshots: IsPrefix(versions[t], versions'[t])
         /\ \A t \in Snapshots: \A i \in DOMAIN versions[t]:
              i \in DOMAIN versions'[t] /\ versions'[t][i] = versions[t][i]
         /\ \A t \in Snapshots: \A i \in DOMAIN versions'[t]:
              i \in DOMAIN versions[t] \/ (t = s /\ versions'[t][i] = version)
         /\ \A t \in Snapshots: Len(versions[t]) <= Len(versions'[t])
         /\ Len(versions'[s]) = base + 1 /\ versions'[s][base + 1] = version
<1> DEFINE old == versions[s]
<1>1. versions \in [Snapshots -> Seq(Version)] /\ old \in Seq(Version)
  BY DEF VersionsTypeOK
<1>2. versions' = [versions EXCEPT ![s] = Append(old, version)] /\ Len(old) = base
  BY DEF AppendVersion
<1>3. versions'[s] = Append(old, version) /\ \A t \in Snapshots \ {s}: versions'[t] = versions[t]
  BY <1>1, <1>2
<1>4. /\ Append(old, version) \in Seq(Version)
      /\ Len(Append(old, version)) = Len(old) + 1
      /\ DOMAIN old = 1 .. Len(old) /\ DOMAIN Append(old, version) = 1 .. Len(old) + 1
      /\ \A i \in DOMAIN old: Append(old, version)[i] = old[i]
      /\ Append(old, version)[Len(old) + 1] = version
      /\ Len(old) \in Nat
  BY <1>1, AppendKeeps
<1>5. versions' \in [Snapshots -> Seq(Version)]
  BY <1>1, <1>2, <1>4
<1>6. \A t \in Snapshots: IsPrefix(versions[t], versions'[t])
  BY <1>1, <1>3, AppendIsPrefix
<1>7. \A t \in Snapshots: \A i \in DOMAIN versions[t]:
        i \in DOMAIN versions'[t] /\ versions'[t][i] = versions[t][i]
  <2> TAKE t \in Snapshots
  <2>1. CASE t = s
    BY <2>1, <1>3, <1>4
  <2>2. CASE t # s
    BY <2>2, <1>3
  <2>3. QED
    BY <2>1, <2>2
<1>8. \A t \in Snapshots: \A i \in DOMAIN versions'[t]:
        i \in DOMAIN versions[t] \/ (t = s /\ versions'[t][i] = version)
  BY <1>1, <1>3, <1>4
<1>9. \A t \in Snapshots: Len(versions[t]) <= Len(versions'[t])
  BY <1>1, <1>3, <1>4
<1>10. QED
  BY <1>2, <1>3, <1>4, <1>5, <1>6, <1>7, <1>8, <1>9

(* A run or a request goes on: that keeps their types. *)
LEMMA RunType ==
  ASSUME VersionsTypeOK, NEW r \in Runs, NEW phase \in Phases
  PROVE  [run EXCEPT ![r].at = phase] \in [Runs -> Run]
  BY DEF VersionsTypeOK, Run

(* A request goes on to another step: that keeps the type. *)
LEMMA ReviewType ==
  ASSUME VersionsTypeOK, NEW w \in Reviewers, NEW step \in Steps
  PROVE  [review EXCEPT ![w].at = step] \in [Reviewers -> Request]
  BY DEF VersionsTypeOK, Request

(* A request about a pattern is a request. *)
LEMMA AsksType ==
  ASSUME VersionsTypeOK, NEW w \in Reviewers, NEW step \in Steps,
         NEW action \in {"accept", "reject", "undo"}, NEW base \in Nat, Asks(w, step, action, base)
  PROVE  review' \in [Reviewers -> Request]
<1> DEFINE q == [at |-> step, snapshot |-> review[w].snapshot, action |-> action, base |-> base,
                 asked |-> review[w].asked + 1]
<1>1. review[w] \in Request
  BY DEF VersionsTypeOK
<1>2. q \in Request
  BY <1>1 DEF Request
<1>3. review' = [review EXCEPT ![w] = q]
  BY <1>1 DEF Asks, Request, VersionsTypeOK
<1>4. QED
  BY <1>2, <1>3 DEF VersionsTypeOK

-----------------------------------------------------------------------------
(* The stores of evidence and relations keep their types. *)
LEMMA VersionsStep ==
  ASSUME VersionsTypeOK, JudgedIsThere, VersionStep
  PROVE  VersionsTypeOK'
<1> USE DEF storeVars
<1>1. ASSUME NEW r \in Runs, Collect(r) PROVE VersionsTypeOK'
  <2>1. run' \in [Runs -> Run]
    BY <1>1, RunType DEF Collect, Moves, Phases
  <2>2. ledger' \in [Snapshots -> SUBSET Facts]
    BY <1>1, VersionsAssumption DEF Collect, VersionsTypeOK, Facts
  <2>3. QED
    BY <1>1, <2>1, <2>2 DEF Collect, VersionsTypeOK
<1>2. ASSUME NEW r \in Runs, Fuse(r) PROVE VersionsTypeOK'
  <2> DEFINE s == SnapshotOf[r]
  <2>1. s \in Snapshots /\ ledger[s] \in SUBSET Facts /\ Len(versions[s]) \in Nat
    BY VersionsAssumption DEF VersionsTypeOK
  <2>2. [at |-> "fused", base |-> Len(versions[s]), seen |-> ledger[s]] \in Run
    BY <2>1 DEF Run, Phases
  <2>3. run' \in [Runs -> Run]
    <3>1. CASE ledger[s] = {}
      BY <1>2, <3>1, RunType DEF Fuse, Moves, Phases
    <3>2. CASE ledger[s] # {}
      BY <1>2, <2>2, <3>2 DEF Fuse, VersionsTypeOK
    <3>3. QED
      BY <3>1, <3>2
  <2>4. items' \in [Snapshots -> SUBSET (Facts \cup Human)]
    <3>1. items' = items \/ items' = [items EXCEPT ![s] = @ \cup ledger[s]]
      BY <1>2 DEF Fuse
    <3>2. QED
      BY <3>1, <2>1 DEF VersionsTypeOK
  <2>5. QED
    BY <1>2, <2>3, <2>4 DEF Fuse, VersionsTypeOK
<1>3. ASSUME NEW r \in Runs, Store(r) PROVE VersionsTypeOK'
  <2> DEFINE s == SnapshotOf[r]
             status == IF High(run[r].seen) THEN "accepted" ELSE "proposed"
             fused == Fused(status, run[r].seen, r)
  <2>1. s \in Snapshots /\ fused \in Version
    <3>1. run[r] \in Run /\ s \in Snapshots
      BY VersionsAssumption DEF VersionsTypeOK
    <3>2. run[r].seen \in SUBSET (Facts \cup Human)
      BY <3>1 DEF Run
    <3>3. status \in {"proposed", "accepted", "rejected"}
      OBVIOUS
    <3>4. QED
      BY <3>1, <3>2, <3>3, FusedType
  <2>2. UNCHANGED versions \/ AppendVersion(s, run[r].base, fused)
    BY <1>3 DEF Store
  <2>3. versions' \in [Snapshots -> Seq(Version)]
    BY <2>1, <2>2, AppendVersionKeeps DEF VersionsTypeOK
  <2>4. \E phase \in Phases: Moves(r, phase)
    BY <1>3 DEF Store, Phases
  <2>5. run' \in [Runs -> Run]
    BY <2>4, RunType DEF Moves
  <2>6. UNCHANGED <<ledger, items, feedback, review>>
    BY <1>3 DEF Store
  <2>7. QED
    BY <2>3, <2>5, <2>6 DEF VersionsTypeOK
<1>4. ASSUME NEW w \in Reviewers, Ask(w) PROVE VersionsTypeOK'
  <2>1. PICK s \in Snapshots, action \in Actions : Ask(w)!(s, action)
    BY <1>4 DEF Ask
  <2> DEFINE q == [at |-> "asked", snapshot |-> s, action |-> action,
                   base |-> Len(versions[s]), asked |-> review[w].asked + 1]
  <2>2. q \in Request
    BY VersionsAssumption DEF VersionsTypeOK, Request, Steps
  <2>3. review' = [review EXCEPT ![w] = q]
    BY <2>1
  <2>4. QED
    BY <2>1, <2>2, <2>3 DEF VersionsTypeOK
<1>5. ASSUME NEW w \in Reviewers, Receive(w) PROVE VersionsTypeOK'
  <2> DEFINE q == review[w]
  <2>1. q.snapshot \in Snapshots /\ [who |-> w, polarity |-> Polarity(q.action)] \in Human
    BY DEF VersionsTypeOK, Request, Human, Polarity
  <2>2. items' \in [Snapshots -> SUBSET (Facts \cup Human)]
    <3>1. CASE Len(versions[q.snapshot]) # q.base
      BY <1>5, <3>1 DEF Receive, VersionsTypeOK
    <3>2. CASE Len(versions[q.snapshot]) = q.base
      <4> DEFINE new == IF \E e \in items[q.snapshot] \cap Human: e.who = w
                        THEN items[q.snapshot]
                        ELSE items[q.snapshot] \cup {[who |-> w, polarity |-> Polarity(q.action)]}
      <4>1. new \in SUBSET (Facts \cup Human)
        BY <2>1 DEF VersionsTypeOK
      <4>2. items' = [items EXCEPT ![q.snapshot] = new]
        BY <1>5, <3>2 DEF Receive
      <4>3. QED
        BY <4>1, <4>2 DEF VersionsTypeOK
    <3>3. QED
      BY <3>1, <3>2
  <2>3. \E step \in Steps: review' = [review EXCEPT ![w].at = step]
    BY <1>5 DEF Receive, Steps
  <2>4. review' \in [Reviewers -> Request]
    BY <2>3, ReviewType
  <2>5. QED
    BY <1>5, <2>2, <2>4 DEF Receive, VersionsTypeOK
<1>6. ASSUME NEW w \in Reviewers, Note(w) PROVE VersionsTypeOK'
  <2>1. Row(w) \in [who: Reviewers, snapshot: Snapshots, base: Nat, action: Actions]
    BY <1>6 DEF Note, Row, JudgedIsThere, VersionsTypeOK, Request
  <2>2. \E step \in Steps: review' = [review EXCEPT ![w].at = step]
    BY <1>6 DEF Note, Steps
  <2>3. review' \in [Reviewers -> Request]
    BY <2>2, ReviewType
  <2>4. QED
    BY <1>6, <2>1, <2>3 DEF Note, VersionsTypeOK
<1>7. ASSUME NEW w \in Reviewers, Judge(w) PROVE VersionsTypeOK'
  <2> DEFINE q == review[w]
             status == CASE q.action = "accept" -> "accepted" [] q.action = "reject" -> "rejected"
                         [] OTHER -> versions[q.snapshot][q.base].status
             fused == Fused(status, items[q.snapshot], w)
  <2>1. q.snapshot \in Snapshots /\ fused \in Version
    <3>1. q \in Request /\ q.at = "judging"
      BY <1>7 DEF Judge, VersionsTypeOK
    <3>2. q.snapshot \in Snapshots /\ q.base \in DOMAIN versions[q.snapshot]
      BY <3>1 DEF JudgedIsThere, Request
    <3>3. versions[q.snapshot][q.base] \in Version
      BY <3>2 DEF VersionsTypeOK
    <3>4. status \in {"proposed", "accepted", "rejected"}
      BY <3>3 DEF Version
    <3>5. items[q.snapshot] \in SUBSET (Facts \cup Human)
      BY <3>2 DEF VersionsTypeOK
    <3>6. QED
      BY <3>2, <3>4, <3>5, FusedType
  <2>2. UNCHANGED versions \/ AppendVersion(q.snapshot, q.base, fused)
    BY <1>7 DEF Judge
  <2>3. versions' \in [Snapshots -> Seq(Version)]
    BY <2>1, <2>2, AppendVersionKeeps DEF VersionsTypeOK
  <2>4. \E step \in Steps: review' = [review EXCEPT ![w].at = step]
    BY <1>7 DEF Judge, Steps
  <2>5. review' \in [Reviewers -> Request]
    BY <2>4, ReviewType
  <2>6. UNCHANGED <<ledger, items, feedback, run>>
    BY <1>7 DEF Judge
  <2>7. QED
    BY <2>3, <2>5, <2>6 DEF VersionsTypeOK
<1>8. ASSUME NEW w \in Reviewers, Retry(w) PROVE VersionsTypeOK'
  <2> DEFINE q == [at |-> "asked", snapshot |-> review[w].snapshot, action |-> review[w].action,
                   base |-> review[w].base, asked |-> review[w].asked + 1]
  <2>1. review[w] \in Request
    BY DEF VersionsTypeOK
  <2>2. q \in Request
    BY <2>1 DEF Request, Steps
  <2>3. review' = [review EXCEPT ![w] = q]
    BY <1>8, <2>1 DEF Retry, Request, VersionsTypeOK
  <2>4. QED
    BY <1>8, <2>2, <2>3 DEF Retry, VersionsTypeOK
<1>9. QED
  BY <1>1, <1>2, <1>3, <1>4, <1>5, <1>6, <1>7, <1>8 DEF VersionStep

(* Memories and their rows keep their types. *)
LEMMA MemoriesStep ==
  ASSUME MemoryTypeOK, PendingCanBeRead,
         \/ \E r \in Runs: Retrieve(r) \/ Verify(r) \/ Verified(r) \/ List(r) \/ Consolidate(r)
         \/ \E s \in Snapshots: Forget(s)
  PROVE  VersionsTypeOK' /\ MemoriesTypeOK'
<1> USE DEF storeVars, versionVars
<1>1. ASSUME NEW r \in Runs, Retrieve(r) PROVE MemoriesTypeOK' /\ \E phase \in Phases: Moves(r, phase)
  <2>1. PICK chosen \in SUBSET {s \in Snapshots: Retrievable(r, s)} : Retrieve(r)!(chosen)
    BY <1>1 DEF Retrieve
  <2>2. \A s \in Snapshots: Len(memory[s]) \in Nat
    BY DEF MemoryTypeOK, MemoriesTypeOK
  <2>3. {[of |-> s, version |-> Len(memory[s])]: s \in chosen} \in SUBSET Retrieved
    BY <2>2 DEF Retrieved
  <2>4. package' \in [Runs -> SUBSET Retrieved] /\ pending' \in [Runs -> SUBSET Retrieved]
    BY <2>1, <2>3 DEF MemoryTypeOK, MemoriesTypeOK
  <2>5. thread' \in Thread
    BY <2>1 DEF SyncThread, Thread, MemoryTypeOK, MemoriesTypeOK
  <2>6. QED
    BY <2>1, <2>4, <2>5 DEF MemoryTypeOK, MemoriesTypeOK, RowFollows, Newest, Phases
<1>2. ASSUME NEW r \in Runs, Verify(r) PROVE MemoriesTypeOK' /\ UNCHANGED versionVars
  <2>1. PICK m \in pending[r] : Verify(r)!(m)
    BY <1>2 DEF Verify
  <2> DEFINE outcome == Outcome(m, SnapshotOf[r])
             seen == memory[m.of][m.version]
             next == [seen EXCEPT !.status = IF outcome = "verified" THEN @ ELSE outcome, !.by = r]
  <2>2. m \in Retrieved /\ m.of \in Snapshots /\ m.version \in DOMAIN memory[m.of]
    BY <2>1 DEF MemoryTypeOK, MemoriesTypeOK, Retrieved, PendingCanBeRead, At
  <2>3. seen \in MemoryVersion
    BY <2>2 DEF MemoryTypeOK, MemoriesTypeOK
  <2>4. pending' \in [Runs -> SUBSET Retrieved]
    BY <2>1 DEF MemoryTypeOK, MemoriesTypeOK
  <2>5. CASE outcome = "insufficient" \/ Len(memory[m.of]) # m.version
    BY <2>1, <2>4, <2>5 DEF MemoryTypeOK, MemoriesTypeOK, RowFollows, Newest
  <2>6. CASE ~(outcome = "insufficient" \/ Len(memory[m.of]) # m.version)
    <3>1. outcome \in {"stale", "rejected", "verified"}
      BY <2>6 DEF Outcome
    <3>2. next \in MemoryVersion
      BY <2>3, <3>1 DEF MemoryVersion
    <3>3. Remember(m.of, next)
      BY <2>1, <2>6
    <3>4. QED
      BY <2>1, <2>2, <2>4, <3>2, <3>3, RememberKeeps DEF MemoryTypeOK, MemoriesTypeOK
  <2>7. QED
    BY <2>1, <2>5, <2>6
<1>3. ASSUME NEW r \in Runs, Verified(r) PROVE MemoriesTypeOK' /\ \E phase \in Phases: Moves(r, phase)
  BY <1>3 DEF Verified, memoryVars, MemoryTypeOK, MemoriesTypeOK, RowFollows, Newest, Phases
<1>4. ASSUME NEW r \in Runs, NEW rows \in SUBSET Retrieved, pending' = [pending EXCEPT ![r] = rows],
             Consolidated(r)
      PROVE  /\ pending' \in [Runs -> SUBSET Retrieved] /\ thread' \in Thread
             /\ \E phase \in Phases: Moves(r, phase)
  BY <1>4 DEF Consolidated, SyncThread, Thread, Phases, MemoryTypeOK, MemoriesTypeOK
<1>5. ASSUME NEW r \in Runs, List(r) PROVE MemoriesTypeOK' /\ \E phase \in Phases: Moves(r, phase)
  <2> DEFINE rows == {[of |-> s, version |-> Len(versions[s])]:
                        s \in {x \in Snapshots: versions[x] # <<>> /\ Latest(x).status = "accepted"}}
  <2>1. rows \in SUBSET Retrieved
    BY DEF Retrieved, MemoryTypeOK, VersionsTypeOK
  <2>2. pending' = [pending EXCEPT ![r] = rows] /\ Consolidated(r)
    BY <1>5 DEF List
  <2>3. QED
    BY <1>4, <1>5, <2>1, <2>2 DEF List, MemoryTypeOK, MemoriesTypeOK, RowFollows, Newest
<1>6. ASSUME NEW r \in Runs, Consolidate(r) PROVE MemoriesTypeOK' /\ \E phase \in Phases: Moves(r, phase)
  <2>1. PICK row \in pending[r] : Consolidate(r)!(row)
    BY <1>6 DEF Consolidate
  <2> DEFINE s == row.of
             relation == versions[s][row.version]
             next == [status |-> "accepted", by |-> relation.by, evidence |-> relation.evidence]
  <2>2. row \in Retrieved /\ s \in Snapshots /\ row.version \in DOMAIN versions[s]
    BY <2>1 DEF MemoryTypeOK, MemoriesTypeOK, Retrieved, PendingCanBeRead, At
  <2>3. relation \in Version
    BY <2>2 DEF MemoryTypeOK, VersionsTypeOK
  <2>4. next \in MemoryVersion
    BY <2>3 DEF Version, MemoryVersion
  <2>5. /\ pending' \in [Runs -> SUBSET Retrieved] /\ thread' \in Thread
        /\ \E phase \in Phases: Moves(r, phase)
    <3>1. pending[r] \ {row} \in SUBSET Retrieved
      BY DEF MemoryTypeOK, MemoriesTypeOK
    <3>2. QED
      BY <1>4, <2>1, <3>1
  <2>6. UNCHANGED <<memory, shown>> \/ Remember(s, next)
    BY <2>1
  <2>7. CASE Remember(s, next)
    BY <2>1, <2>2, <2>4, <2>5, <2>7, RememberKeeps DEF MemoryTypeOK, MemoriesTypeOK
  <2>8. CASE UNCHANGED <<memory, shown>>
    BY <2>1, <2>5, <2>8 DEF MemoryTypeOK, MemoriesTypeOK, RowFollows, Newest
  <2>9. QED
    BY <2>5, <2>6, <2>7, <2>8
<1>7. ASSUME NEW s \in Snapshots, Forget(s) PROVE MemoriesTypeOK' /\ UNCHANGED versionVars
  BY <1>7, MemoryAssumption DEF Forget, MemoryTypeOK, MemoriesTypeOK, RowFollows, Newest
<1>8. ASSUME NEW r \in Runs, NEW phase \in Phases, Moves(r, phase),
             UNCHANGED <<ledger, storeVars, review>>
      PROVE  VersionsTypeOK'
  BY <1>8, RunType DEF Moves, MemoryTypeOK, VersionsTypeOK
<1>9. ASSUME UNCHANGED versionVars PROVE VersionsTypeOK'
  BY <1>9 DEF MemoryTypeOK, VersionsTypeOK
<1>10. ASSUME NEW r \in Runs, Retrieve(r) \/ Verified(r) \/ List(r) \/ Consolidate(r)
       PROVE  UNCHANGED <<ledger, storeVars, review>>
  BY <1>10 DEF Retrieve, Verified, List, Consolidate
<1>11. QED
  BY <1>1, <1>2, <1>3, <1>5, <1>6, <1>7, <1>8, <1>9, <1>10

(* The row of the proposal, the pattern and the requests keep their types. *)
LEMMA GlobalStepType ==
  ASSUME MemoryTypeOK, OneProposal, GlobalStep
  PROVE  MemoryTypeOK'
<1>1. VersionsTypeOK /\ MemoriesTypeOK /\ GlobalTypeOK
  BY DEF MemoryTypeOK
<1>2. ASSUME UNCHANGED Rest, review' \in [Reviewers -> Request]
      PROVE  VersionsTypeOK' /\ MemoriesTypeOK'
  BY <1>1, <1>2 DEF Rest, storeVars, memoryVars, VersionsTypeOK, MemoriesTypeOK, RowFollows, Newest
<1>3. ASSUME UNCHANGED globalVars PROVE GlobalTypeOK'
  BY <1>1, <1>3 DEF globalVars, GlobalTypeOK
<1>4. ASSUME NEW w \in Reviewers, NEW step \in Steps, Goes(w, step)
      PROVE  review' \in [Reviewers -> Request]
  BY <1>1, <1>4, ReviewType DEF Goes
<1>5. ASSUME NEW w \in Reviewers, Suggest(w) PROVE MemoryTypeOK'
  <2>1. review' \in [Reviewers -> Request]
    BY <1>1, <1>5, AsksType DEF Suggest, Steps
  <2>2. QED
    BY <1>2, <1>3, <1>5, <2>1 DEF Suggest, MemoryTypeOK
<1>6. ASSUME NEW w \in Reviewers, Candidate(w) PROVE MemoryTypeOK'
  <2>1. review' \in [Reviewers -> Request]
    BY <1>4, <1>6 DEF Candidate, Steps
  <2>2. GlobalTypeOK'
    <3>1. global' = global \/ global' = <<"candidate">>
      BY <1>6 DEF Candidate
    <3>2. UNCHANGED <<proposal, late>>
      BY <1>6 DEF Candidate
    <3>3. <<"candidate">> \in Seq(Lifecycles)
      BY DEF Lifecycles
    <3>4. QED
      BY <1>1, <3>1, <3>2, <3>3 DEF GlobalTypeOK
  <2>3. QED
    BY <1>2, <1>6, <2>1, <2>2 DEF Candidate, MemoryTypeOK
<1>7. ASSUME NEW w \in Reviewers, Propose(w) PROVE MemoryTypeOK'
  <2>1. review' \in [Reviewers -> Request]
    BY <1>4, <1>7 DEF Propose, Steps
  <2>2. GlobalTypeOK'
    BY <1>1, <1>7 DEF Propose, GlobalTypeOK, Lifecycles, Proposal
  <2>3. QED
    BY <1>2, <1>7, <2>1, <2>2 DEF Propose, MemoryTypeOK
<1>8. ASSUME NEW w \in Reviewers, Resolve(w) PROVE MemoryTypeOK'
  <2>1. PICK action \in {"accept", "reject"} : Resolve(w)!(action)
    BY <1>8 DEF Resolve
  <2>2. review' \in [Reviewers -> Request]
    <3> DEFINE step == IF proposal.lifecycle = "candidate" THEN "resolving" ELSE "resolved"
    <3>1. step \in Steps /\ action \in {"accept", "reject", "undo"}
      BY DEF Steps
    <3>2. QED
      BY <1>1, <2>1, <3>1, AsksType
  <2>3. QED
    BY <1>2, <1>3, <2>1, <2>2 DEF MemoryTypeOK
<1>9. ASSUME NEW w \in Reviewers, Decide(w) PROVE MemoryTypeOK'
  <2>1. \E step \in Steps: Goes(w, step)
    BY <1>9 DEF Decide, Steps
  <2>2. review' \in [Reviewers -> Request]
    BY <1>4, <2>1
  <2>3. Target(w) \in Lifecycles
    BY DEF Target, Lifecycles
  <2>4. GlobalTypeOK'
    BY <1>1, <1>9, <2>3 DEF Decide, GlobalTypeOK, Proposal
  <2>5. QED
    BY <1>2, <1>9, <2>2, <2>4 DEF Decide, MemoryTypeOK
<1>10. ASSUME NEW w \in Reviewers, Look(w) PROVE MemoryTypeOK'
  <2>1. review[w] \in Request /\ Len(global) \in Nat
    BY <1>1 DEF VersionsTypeOK, GlobalTypeOK
  <2>2. [review[w] EXCEPT !.at = "promoting"] \in Request
    BY <2>1 DEF Request, Steps
  <2>3. [[review[w] EXCEPT !.at = "promoting"] EXCEPT !.base = Len(global)] \in Request
    BY <2>1, <2>2 DEF Request
  <2>4. review' = [review EXCEPT ![w] = [[review[w] EXCEPT !.at = "promoting"]
                                           EXCEPT !.base = Len(global)]]
    BY <1>1, <1>10 DEF Look, VersionsTypeOK
  <2>5. review' \in [Reviewers -> Request]
    BY <1>1, <2>3, <2>4 DEF VersionsTypeOK
  <2>6. QED
    BY <1>2, <1>3, <1>10, <2>5 DEF Look, MemoryTypeOK
<1>11. ASSUME NEW w \in Reviewers, Promote(w) PROVE MemoryTypeOK'
  <2>1. \E step \in Steps: Goes(w, step)
    BY <1>11 DEF Promote, Steps
  <2>2. review' \in [Reviewers -> Request]
    BY <1>4, <2>1
  <2>3. proposal.lifecycle \in Lifecycles
    BY <1>11, <1>1 DEF Promote, OneProposal, Lifecycles
  <2>4. GlobalTypeOK'
    BY <1>1, <1>11, <2>3 DEF Promote, GlobalTypeOK
  <2>5. QED
    BY <1>2, <1>11, <2>2, <2>4 DEF Promote, MemoryTypeOK
<1>12. ASSUME NEW w \in Reviewers, Lost(w) PROVE MemoryTypeOK'
  <2>1. review' \in [Reviewers -> Request]
    BY <1>4, <1>12 DEF Lost, Steps
  <2>2. QED
    BY <1>2, <1>3, <1>12, <2>1 DEF Lost, MemoryTypeOK
<1>13. ASSUME Expire PROVE MemoryTypeOK'
  <2>1. VersionsTypeOK' /\ MemoriesTypeOK'
    BY <1>1, <1>13 DEF Expire, versionVars, storeVars, memoryVars, VersionsTypeOK, MemoriesTypeOK,
                       RowFollows, Newest
  <2>2. GlobalTypeOK'
    BY <1>1, <1>13 DEF Expire, GlobalTypeOK
  <2>3. QED
    BY <2>1, <2>2 DEF MemoryTypeOK
<1>14. QED
  BY <1>5, <1>6, <1>7, <1>8, <1>9, <1>10, <1>11, <1>12, <1>13 DEF GlobalStep

(* Every step keeps the types. *)
LEMMA TypeStep ==
  ASSUME MemoryTypeOK, JudgedIsThere, PendingCanBeRead, OneProposal, [Next]_allVars
  PROVE  MemoryTypeOK'
<1>1. VersionsTypeOK /\ MemoriesTypeOK /\ GlobalTypeOK
  BY DEF MemoryTypeOK
<1>2. ASSUME UNCHANGED versionVars PROVE VersionsTypeOK'
  BY <1>1, <1>2 DEF VersionsTypeOK, versionVars, storeVars
<1>3. ASSUME UNCHANGED memoryVars PROVE MemoriesTypeOK'
  BY <1>1, <1>3 DEF MemoriesTypeOK, memoryVars, RowFollows, Newest
<1>4. ASSUME UNCHANGED globalVars PROVE GlobalTypeOK'
  BY <1>1, <1>4 DEF GlobalTypeOK, globalVars
<1>5. CASE MemoryStep /\ UNCHANGED globalVars
  <2>1. CASE VersionStep /\ UNCHANGED memoryVars
    BY <1>1, <1>3, <1>4, <1>5, <2>1, VersionsStep DEF MemoryTypeOK
  <2>2. CASE ~(VersionStep /\ UNCHANGED memoryVars)
    <3>1. \/ \E r \in Runs: Retrieve(r) \/ Verify(r) \/ Verified(r) \/ List(r) \/ Consolidate(r)
          \/ \E s \in Snapshots: Forget(s)
      BY <1>5, <2>2 DEF MemoryStep
    <3>2. QED
      BY <1>4, <1>5, <3>1, MemoriesStep DEF MemoryTypeOK
  <2>3. QED
    BY <2>1, <2>2
<1>6. CASE GlobalStep
  BY <1>6, GlobalStepType
<1>7. CASE UNCHANGED allVars
  BY <1>2, <1>3, <1>4, <1>7 DEF allVars, vars, MemoryTypeOK
<1>8. QED
  BY <1>5, <1>6, <1>7 DEF Next

-----------------------------------------------------------------------------
(* What a merge of a run and a judgement of a reviewer write. *)
FusedBy(r) == Fused(IF High(run[r].seen) THEN "accepted" ELSE "proposed", run[r].seen, r)
JudgedBy(w) ==
  Fused(CASE review[w].action = "accept" -> "accepted" [] review[w].action = "reject" -> "rejected"
          [] OTHER -> versions[review[w].snapshot][review[w].base].status,
        items[review[w].snapshot], w)

(* A merge writes a version of what it read. *)
LEMMA FusedByType ==
  ASSUME VersionsTypeOK, NEW r \in Runs
  PROVE  /\ FusedBy(r) \in Version /\ FusedBy(r).evidence \subseteq run[r].seen
         /\ SnapshotOf[r] \in Snapshots
<1> DEFINE status == IF High(run[r].seen) THEN "accepted" ELSE "proposed"
<1>1. run[r] \in Run /\ SnapshotOf[r] \in Snapshots
  BY VersionsAssumption DEF VersionsTypeOK
<1>2. run[r].seen \in SUBSET (Facts \cup Human)
  BY <1>1 DEF Run
<1>3. status \in {"proposed", "accepted", "rejected"}
  OBVIOUS
<1>4. QED
  BY <1>1, <1>2, <1>3, FusedType DEF FusedBy

(* A reviewer writes a version of his own, under the status he asked for. *)
LEMMA JudgedByType ==
  ASSUME VersionsTypeOK, JudgedIsThere, NEW w \in Reviewers, review[w].at = "judging"
  PROVE  /\ JudgedBy(w) \in Version /\ JudgedBy(w).by = w
         /\ review[w].action = "accept" => JudgedBy(w).status = "accepted"
         /\ review[w].action = "reject" => JudgedBy(w).status = "rejected"
         /\ JudgedBy(w).evidence \subseteq items[review[w].snapshot]
         /\ review[w].snapshot \in Snapshots
<1>1. review[w] \in Request
  BY DEF VersionsTypeOK
<1>2. /\ review[w].snapshot \in Snapshots
      /\ review[w].base \in DOMAIN versions[review[w].snapshot]
  BY <1>1 DEF JudgedIsThere, Request
<1>3. versions[review[w].snapshot][review[w].base] \in Version
  BY <1>2 DEF VersionsTypeOK
<1>4. PICK verdict \in {"proposed", "accepted", "rejected"} :
        /\ verdict = CASE review[w].action = "accept" -> "accepted"
                       [] review[w].action = "reject" -> "rejected"
                       [] OTHER -> versions[review[w].snapshot][review[w].base].status
        /\ review[w].action = "accept" => verdict = "accepted"
        /\ review[w].action = "reject" => verdict = "rejected"
  BY <1>3 DEF Version
<1>5. PICK evidence \in SUBSET (Facts \cup Human) : evidence = items[review[w].snapshot]
  BY <1>2 DEF VersionsTypeOK
<1>6. JudgedBy(w) = Fused(verdict, evidence, w)
  BY <1>4, <1>5 DEF JudgedBy
<1>7. /\ Fused(verdict, evidence, w) \in Version /\ Fused(verdict, evidence, w).status = verdict
      /\ Fused(verdict, evidence, w).by = w /\ Fused(verdict, evidence, w).evidence \subseteq evidence
  BY DEF Fused, Version, Counted
<1>8. QED
  BY <1>2, <1>4, <1>5, <1>6, <1>7

(* A relation only ever gets a version from one of them. *)
LEMMA Appended ==
  ASSUME [Next]_allVars
  PROVE  \/ UNCHANGED versions
         \/ \E r \in Runs: Store(r) /\ AppendVersion(SnapshotOf[r], run[r].base, FusedBy(r))
         \/ \E w \in Reviewers:
              Judge(w) /\ AppendVersion(review[w].snapshot, review[w].base, JudgedBy(w))
<1>1. CASE MemoryStep
  <2>1. ASSUME NEW r \in Runs, Store(r)
        PROVE  UNCHANGED versions \/ AppendVersion(SnapshotOf[r], run[r].base, FusedBy(r))
    BY <2>1 DEF Store, FusedBy
  <2>2. ASSUME NEW w \in Reviewers, Judge(w)
        PROVE  UNCHANGED versions \/ AppendVersion(review[w].snapshot, review[w].base, JudgedBy(w))
    BY <2>2 DEF Judge, JudgedBy
  <2>3. ASSUME NEW r \in Runs, Collect(r) \/ Fuse(r) PROVE UNCHANGED versions
    BY <2>3 DEF Collect, Fuse, storeVars
  <2>4. ASSUME NEW w \in Reviewers, Ask(w) \/ Receive(w) \/ Note(w) \/ Retry(w)
        PROVE  UNCHANGED versions
    BY <2>4 DEF Ask, Receive, Note, Retry, storeVars
  <2>5. ASSUME NEW r \in Runs, Retrieve(r) \/ Verify(r) \/ Verified(r) \/ List(r) \/ Consolidate(r)
        PROVE  UNCHANGED versions
    BY <2>5 DEF Retrieve, Verify, Verified, List, Consolidate, storeVars, versionVars
  <2>6. ASSUME NEW s \in Snapshots, Forget(s) PROVE UNCHANGED versions
    BY <2>6 DEF Forget, storeVars, versionVars
  <2>7. QED
    BY <1>1, <2>1, <2>2, <2>3, <2>4, <2>5, <2>6 DEF MemoryStep, VersionStep
<1>2. CASE GlobalStep
  BY <1>2 DEF GlobalStep, Suggest, Candidate, Propose, Resolve, Decide, Look, Promote, Lost, Expire,
              Rest, versionVars, storeVars
<1>3. CASE UNCHANGED allVars
  BY <1>3 DEF allVars, vars, versionVars, storeVars
<1>4. QED
  BY <1>1, <1>2, <1>3 DEF Next

(* No version of a relation is lost or changed by any step. *)
LEMMA VersionsKept ==
  ASSUME MemoryTypeOK, JudgedIsThere, [Next]_allVars
  PROVE  \A t \in Snapshots:
           /\ IsPrefix(versions[t], versions'[t]) /\ Len(versions[t]) <= Len(versions'[t])
           /\ \A i \in DOMAIN versions[t]:
                i \in DOMAIN versions'[t] /\ versions'[t][i] = versions[t][i]
<1>1. VersionsTypeOK
  BY DEF MemoryTypeOK
<1>2. CASE UNCHANGED versions
  <2>1. \A t \in Snapshots: IsPrefix(versions[t], versions[t]) /\ Len(versions[t]) \in Nat
    BY <1>1 DEF IsPrefix, VersionsTypeOK
  <2>2. QED
    BY <1>2, <2>1
<1>3. ASSUME NEW r \in Runs, AppendVersion(SnapshotOf[r], run[r].base, FusedBy(r))
      PROVE  \A t \in Snapshots:
               /\ IsPrefix(versions[t], versions'[t]) /\ Len(versions[t]) <= Len(versions'[t])
               /\ \A i \in DOMAIN versions[t]:
                    i \in DOMAIN versions'[t] /\ versions'[t][i] = versions[t][i]
  BY <1>1, <1>3, FusedByType, AppendVersionKeeps
<1>4. ASSUME NEW w \in Reviewers, Judge(w),
             AppendVersion(review[w].snapshot, review[w].base, JudgedBy(w))
      PROVE  \A t \in Snapshots:
               /\ IsPrefix(versions[t], versions'[t]) /\ Len(versions[t]) <= Len(versions'[t])
               /\ \A i \in DOMAIN versions[t]:
                    i \in DOMAIN versions'[t] /\ versions'[t][i] = versions[t][i]
  <2>1. review[w].at = "judging"
    BY <1>4 DEF Judge
  <2>2. QED
    BY <1>1, <1>4, <2>1, JudgedByType, AppendVersionKeeps
<1>5. QED
  BY <1>2, <1>3, <1>4, Appended

(* A request that goes on keeps what it is about. *)
LEMMA GoesOn ==
  ASSUME VersionsTypeOK, NEW w \in Reviewers, NEW step, review' = [review EXCEPT ![w].at = step]
  PROVE  /\ review'[w].at = step /\ review'[w].snapshot = review[w].snapshot
         /\ review'[w].action = review[w].action /\ review'[w].base = review[w].base
         /\ \A v \in Reviewers \ {w}: review'[v] = review[v]
  BY DEF VersionsTypeOK, Request

(* Who is about to judge a version found it there, and nothing takes it away. *)
LEMMA JudgedStep ==
  ASSUME MemoryTypeOK, JudgedIsThere, [Next]_allVars
  PROVE  JudgedIsThere'
<1> DEFINE Is(q) == q.base \in DOMAIN versions[q.snapshot] /\ q.action \in Actions
           Open == {"asked", "noted", "judging"}
<1>1. VersionsTypeOK
  BY DEF MemoryTypeOK
<1>2. \A v \in Reviewers: review[v] \in Request /\ review[v].snapshot \in Snapshots
  BY <1>1 DEF VersionsTypeOK, Request
<1>3. SUFFICES ASSUME NEW v \in Reviewers, review'[v].at \in Open
               PROVE  /\ review'[v].base \in DOMAIN versions'[review'[v].snapshot]
                      /\ review'[v].action \in Actions
  BY DEF JudgedIsThere
<1>4. \A s \in Snapshots: \A i \in DOMAIN versions[s]: i \in DOMAIN versions'[s]
  BY VersionsKept
<1>5. SUFFICES /\ review'[v].snapshot \in Snapshots
               /\ review'[v].base \in DOMAIN versions[review'[v].snapshot]
               /\ review'[v].action \in Actions
  BY <1>4
<1>6. ASSUME review'[v].snapshot = review[v].snapshot, review'[v].base = review[v].base,
             review'[v].action = review[v].action, review[v].at \in Open
      PROVE  /\ review'[v].snapshot \in Snapshots
             /\ review'[v].base \in DOMAIN versions[review'[v].snapshot]
             /\ review'[v].action \in Actions
  BY <1>2, <1>6 DEF JudgedIsThere
<1>7. CASE review'[v] = review[v]
  BY <1>3, <1>6, <1>7
<1>8. ASSUME NEW w \in Reviewers, NEW step, review' = [review EXCEPT ![w].at = step],
             review[w].at \in Open \/ step \notin Open
      PROVE  /\ review'[v].snapshot \in Snapshots
             /\ review'[v].base \in DOMAIN versions[review'[v].snapshot]
             /\ review'[v].action \in Actions
  <2>1. CASE v = w
    BY <1>1, <1>3, <1>6, <1>8, <2>1, GoesOn
  <2>2. CASE v # w
    BY <1>1, <1>7, <1>8, <2>2, GoesOn
  <2>3. QED
    BY <2>1, <2>2
<1>9. ASSUME NEW w \in Reviewers, Ask(w)
      PROVE  /\ review'[v].snapshot \in Snapshots
             /\ review'[v].base \in DOMAIN versions[review'[v].snapshot]
             /\ review'[v].action \in Actions
  <2>1. PICK s \in Snapshots, action \in Actions : Ask(w)!(s, action)
    BY <1>9 DEF Ask
  <2>2. versions[s] \in Seq(Version) /\ versions[s] # <<>>
    BY <1>1, <2>1 DEF VersionsTypeOK
  <2>3. Len(versions[s]) \in DOMAIN versions[s]
    BY <2>2
  <2> DEFINE q == [at |-> "asked", snapshot |-> s, action |-> action,
                   base |-> Len(versions[s]), asked |-> review[w].asked + 1]
  <2>4. review' = [review EXCEPT ![w] = q]
    BY <2>1
  <2>5. CASE v = w
    <3>1. review'[v] = q
      BY <1>1, <2>4, <2>5 DEF VersionsTypeOK
    <3>2. QED
      BY <2>3, <3>1
  <2>6. CASE v # w
    BY <1>1, <1>7, <2>4, <2>6 DEF VersionsTypeOK
  <2>7. QED
    BY <2>5, <2>6
<1>10. ASSUME NEW w \in Reviewers, Retry(w)
       PROVE  /\ review'[v].snapshot \in Snapshots
              /\ review'[v].base \in DOMAIN versions[review'[v].snapshot]
              /\ review'[v].action \in Actions
  <2>1. review' = [review EXCEPT ![w] = [[review[w] EXCEPT !.at = "asked"]
                                           EXCEPT !.asked = review[w].asked + 1]]
    BY <1>1, <1>10 DEF Retry, VersionsTypeOK
  <2>2. CASE v = w
    <3>1. review[w].at \in Open
      BY <1>10 DEF Retry
    <3>2. /\ review'[w].snapshot = review[w].snapshot /\ review'[w].base = review[w].base
          /\ review'[w].action = review[w].action
      BY <1>1, <1>2, <2>1 DEF VersionsTypeOK, Request
    <3>3. QED
      BY <1>6, <2>2, <3>1, <3>2
  <2>3. CASE v # w
    BY <1>1, <1>7, <2>1, <2>3 DEF VersionsTypeOK
  <2>4. QED
    BY <2>2, <2>3
<1>11. ASSUME NEW w \in Reviewers, NEW step, NEW action, NEW base, Asks(w, step, action, base),
              step \notin Open
       PROVE  /\ review'[v].snapshot \in Snapshots
              /\ review'[v].base \in DOMAIN versions[review'[v].snapshot]
              /\ review'[v].action \in Actions
  <2>1. review'[w].at = step /\ \A u \in Reviewers \ {w}: review'[u] = review[u]
    BY <1>1, <1>2, <1>11 DEF Asks, VersionsTypeOK, Request
  <2>2. QED
    BY <1>3, <1>7, <1>11, <2>1
<1>12. ASSUME NEW w \in Reviewers, Look(w)
       PROVE  /\ review'[v].snapshot \in Snapshots
              /\ review'[v].base \in DOMAIN versions[review'[v].snapshot]
              /\ review'[v].action \in Actions
  <2>1. review'[w].at = "promoting" /\ \A u \in Reviewers \ {w}: review'[u] = review[u]
    BY <1>1, <1>2, <1>12 DEF Look, VersionsTypeOK, Request
  <2>2. QED
    BY <1>3, <1>7, <2>1
<1>13. CASE MemoryStep
  <2>1. CASE VersionStep
    <3>1. CASE \E r \in Runs: Collect(r) \/ Fuse(r) \/ Store(r)
      BY <1>7, <3>1 DEF Collect, Fuse, Store
    <3>2. ASSUME NEW w \in Reviewers, Receive(w) \/ Note(w) \/ Judge(w)
          PROVE  \E step: review' = [review EXCEPT ![w].at = step] /\ review[w].at \in Open
      BY <3>2 DEF Receive, Note, Judge
    <3>3. QED
      BY <1>8, <1>9, <1>10, <2>1, <3>1, <3>2 DEF VersionStep
  <2>2. CASE \/ \E r \in Runs: Retrieve(r) \/ Verify(r) \/ Verified(r) \/ List(r) \/ Consolidate(r)
             \/ \E s \in Snapshots: Forget(s)
    BY <1>7, <2>2 DEF Retrieve, Verify, Verified, List, Consolidate, Forget, versionVars
  <2>3. QED
    BY <1>13, <2>1, <2>2 DEF MemoryStep
<1>14. CASE GlobalStep
  <2>1. ASSUME NEW w \in Reviewers,
               Candidate(w) \/ Propose(w) \/ Decide(w) \/ Promote(w) \/ Lost(w)
        PROVE  \E step \in Steps \ Open: review' = [review EXCEPT ![w].at = step]
    <3>1. CASE Candidate(w)
      BY <3>1 DEF Candidate, Goes, Steps
    <3>2. CASE Propose(w)
      BY <3>2 DEF Propose, Goes, Steps
    <3>3. CASE Decide(w)
      BY <3>3 DEF Decide, Goes, Steps
    <3>4. CASE Promote(w)
      BY <3>4 DEF Promote, Goes, Steps
    <3>5. CASE Lost(w)
      BY <3>5 DEF Lost, Goes, Steps
    <3>6. QED
      BY <2>1, <3>1, <3>2, <3>3, <3>4, <3>5
  <2>2. ASSUME NEW w \in Reviewers, Suggest(w) \/ Resolve(w)
        PROVE  \E step, action, base: Asks(w, step, action, base) /\ step \notin Open
    BY <2>2 DEF Suggest, Resolve
  <2>3. CASE Expire
    BY <1>7, <2>3 DEF Expire, versionVars
  <2>4. QED
    BY <1>8, <1>11, <1>12, <1>14, <2>1, <2>2, <2>3 DEF GlobalStep
<1>15. CASE UNCHANGED allVars
  BY <1>7, <1>15 DEF allVars, vars, versionVars
<1>16. QED
  BY <1>13, <1>14, <1>15 DEF Next

(* Evidence that is stored stays stored. *)
LEMMA ItemsKept ==
  ASSUME MemoryTypeOK, [Next]_allVars
  PROVE  \A t \in Snapshots: items[t] \subseteq items'[t]
<1>1. VersionsTypeOK
  BY DEF MemoryTypeOK
<1>2. ASSUME NEW s, NEW new, items' = [items EXCEPT ![s] = new], items[s] \subseteq new
      PROVE  \A t \in Snapshots: items[t] \subseteq items'[t]
  BY <1>1, <1>2 DEF VersionsTypeOK
<1>3. CASE UNCHANGED items
  BY <1>3
<1>4. ASSUME NEW r \in Runs, Fuse(r) PROVE \A t \in Snapshots: items[t] \subseteq items'[t]
  <2> DEFINE s == SnapshotOf[r]
             new == items[s] \cup ledger[s]
  <2>1. UNCHANGED items \/ items' = [items EXCEPT ![s] = new]
    BY <1>4 DEF Fuse
  <2>2. items[s] \subseteq new
    OBVIOUS
  <2>3. QED
    BY <1>2, <1>3, <2>1, <2>2
<1>5. ASSUME NEW w \in Reviewers, Receive(w) PROVE \A t \in Snapshots: items[t] \subseteq items'[t]
  <2> DEFINE s == review[w].snapshot
             new == IF \E e \in items[s] \cap Human: e.who = w THEN items[s]
                    ELSE items[s] \cup {[who |-> w, polarity |-> Polarity(review[w].action)]}
  <2>1. UNCHANGED items \/ items' = [items EXCEPT ![s] = new]
    BY <1>5 DEF Receive
  <2>2. items[s] \subseteq new
    OBVIOUS
  <2>3. QED
    BY <1>2, <1>3, <2>1, <2>2
<1>6. CASE MemoryStep
  <2>1. CASE VersionStep
    BY <1>3, <1>4, <1>5, <2>1 DEF VersionStep, Collect, Store, Ask, Note, Judge, Retry, storeVars
  <2>2. CASE \/ \E r \in Runs: Retrieve(r) \/ Verify(r) \/ Verified(r) \/ List(r) \/ Consolidate(r)
             \/ \E s \in Snapshots: Forget(s)
    BY <1>3, <2>2 DEF Retrieve, Verify, Verified, List, Consolidate, Forget, versionVars, storeVars
  <2>3. QED
    BY <1>6, <2>1, <2>2 DEF MemoryStep
<1>7. CASE GlobalStep
  BY <1>3, <1>7 DEF GlobalStep, Suggest, Candidate, Propose, Resolve, Decide, Look, Promote, Lost,
                    Expire, Rest, versionVars, storeVars
<1>8. CASE UNCHANGED allVars
  BY <1>3, <1>8 DEF allVars, vars, versionVars, storeVars
<1>9. QED
  BY <1>6, <1>7, <1>8 DEF Next

(* A memory only gets a version from a verification or a consolidation. *)
Verdict(r, m) ==
  [memory[m.of][m.version] EXCEPT
     !.status = IF Outcome(m, SnapshotOf[r]) = "verified" THEN @ ELSE Outcome(m, SnapshotOf[r]),
     !.by = r]
Lesson(row) == [status |-> "accepted", by |-> versions[row.of][row.version].by,
                evidence |-> versions[row.of][row.version].evidence]

(* A verification only writes "accepted" over what was accepted. *)
LEMMA VerdictType ==
  ASSUME MemoryTypeOK, PendingCanBeRead, NEW r \in Runs, NEW m \in pending[r], run[r].at = "verify",
         Outcome(m, SnapshotOf[r]) # "insufficient"
  PROVE  /\ Verdict(r, m) \in MemoryVersion
         /\ m.of \in Snapshots /\ m.version \in DOMAIN memory[m.of]
         /\ Verdict(r, m).evidence = memory[m.of][m.version].evidence
         /\ Verdict(r, m).status = "accepted" => memory[m.of][m.version].status = "accepted"
<1>1. m \in Retrieved /\ m.of \in Snapshots /\ m.version \in DOMAIN memory[m.of]
  BY DEF MemoryTypeOK, MemoriesTypeOK, Retrieved, PendingCanBeRead
<1>2. memory[m.of][m.version] \in MemoryVersion
  BY <1>1 DEF MemoryTypeOK, MemoriesTypeOK
<1>3. Outcome(m, SnapshotOf[r]) \in {"stale", "rejected", "verified"}
  BY DEF Outcome
<1>4. QED
  BY <1>1, <1>2, <1>3 DEF Verdict, MemoryVersion

(* What is consolidated is a version that was accepted. *)
LEMMA LessonType ==
  ASSUME MemoryTypeOK, PendingCanBeRead, NEW r \in Runs, NEW row \in pending[r],
         run[r].at = "consolidate"
  PROVE  /\ Lesson(row) \in MemoryVersion
         /\ row.of \in Snapshots /\ row.version \in DOMAIN versions[row.of]
         /\ versions[row.of][row.version].status = "accepted"
<1>1. row \in Retrieved /\ row.of \in Snapshots /\ row.version \in DOMAIN versions[row.of]
      /\ versions[row.of][row.version].status = "accepted"
  BY DEF MemoryTypeOK, MemoriesTypeOK, Retrieved, PendingCanBeRead
<1>2. versions[row.of][row.version] \in Version
  BY <1>1 DEF MemoryTypeOK, VersionsTypeOK
<1>3. QED
  BY <1>1, <1>2 DEF Lesson, Version, MemoryVersion

(* There is no other step that writes a memory. *)
LEMMA Remembered ==
  ASSUME [Next]_allVars
  PROVE  \/ UNCHANGED memory
         \/ \E r \in Runs: \E m \in pending[r]:
              \/ /\ run[r].at = "verify" /\ Outcome(m, SnapshotOf[r]) # "insufficient"
                 /\ Remember(m.of, Verdict(r, m))
              \/ run[r].at = "consolidate" /\ Remember(m.of, Lesson(m))
<1>1. CASE MemoryStep
  <2>1. CASE VersionStep /\ UNCHANGED memoryVars
    BY <2>1 DEF memoryVars
  <2>2. ASSUME NEW r \in Runs, Retrieve(r) \/ Verified(r) \/ List(r) PROVE UNCHANGED memory
    BY <2>2 DEF Retrieve, Verified, List, memoryVars
  <2>3. ASSUME NEW r \in Runs, Verify(r)
        PROVE  \/ UNCHANGED memory
               \/ \E m \in pending[r]:
                    /\ run[r].at = "verify" /\ Outcome(m, SnapshotOf[r]) # "insufficient"
                    /\ Remember(m.of, Verdict(r, m))
    BY <2>3 DEF Verify, Verdict, At
  <2>4. ASSUME NEW r \in Runs, Consolidate(r)
        PROVE  \/ UNCHANGED memory
               \/ \E m \in pending[r]: run[r].at = "consolidate" /\ Remember(m.of, Lesson(m))
    BY <2>4 DEF Consolidate, Lesson, At
  <2>5. ASSUME NEW s \in Snapshots, Forget(s) PROVE UNCHANGED memory
    BY <2>5 DEF Forget
  <2>6. QED
    BY <1>1, <2>1, <2>2, <2>3, <2>4, <2>5 DEF MemoryStep
<1>2. CASE GlobalStep
  BY <1>2 DEF GlobalStep, Suggest, Candidate, Propose, Resolve, Decide, Look, Promote, Lost, Expire,
              Rest, memoryVars
<1>3. CASE UNCHANGED allVars
  BY <1>3 DEF allVars, vars, memoryVars
<1>4. QED
  BY <1>1, <1>2, <1>3 DEF Next

(* No version of a memory is lost or changed by any step. *)
LEMMA MemoriesKept ==
  ASSUME MemoryTypeOK, PendingCanBeRead, [Next]_allVars
  PROVE  \A t \in Snapshots:
           /\ IsPrefix(memory[t], memory'[t])
           /\ \A i \in DOMAIN memory[t]: i \in DOMAIN memory'[t] /\ memory'[t][i] = memory[t][i]
<1>1. MemoriesTypeOK
  BY DEF MemoryTypeOK
<1>2. CASE UNCHANGED memory
  <2>1. \A t \in Snapshots: IsPrefix(memory[t], memory[t])
    BY <1>1 DEF IsPrefix, MemoriesTypeOK
  <2>2. QED
    BY <1>2, <2>1
<1>3. ASSUME NEW r \in Runs, NEW m \in pending[r],
             \/ /\ run[r].at = "verify" /\ Outcome(m, SnapshotOf[r]) # "insufficient"
                /\ Remember(m.of, Verdict(r, m))
             \/ run[r].at = "consolidate" /\ Remember(m.of, Lesson(m))
      PROVE  \A t \in Snapshots:
               /\ IsPrefix(memory[t], memory'[t])
               /\ \A i \in DOMAIN memory[t]: i \in DOMAIN memory'[t] /\ memory'[t][i] = memory[t][i]
  <2>1. \E version \in MemoryVersion, s \in Snapshots: Remember(s, version)
    BY <1>3, VerdictType, LessonType
  <2>2. QED
    BY <1>1, <2>1, RememberKeeps
<1>4. QED
  BY <1>2, <1>3, Remembered

-----------------------------------------------------------------------------
(* The merge of a run finds what it read as it was, or more of it. *)
LEMMA SeenStep ==
  ASSUME MemoryTypeOK, JudgedIsThere, SeenIsStored, [Next]_allVars
  PROVE  SeenIsStored'
<1>1. VersionsTypeOK /\ \A r \in Runs: SnapshotOf[r] \in Snapshots
  BY VersionsAssumption DEF MemoryTypeOK
<1>2. SUFFICES ASSUME NEW q \in Runs, run'[q].at = "fused"
               PROVE  /\ run'[q].base <= Len(versions'[SnapshotOf[q]])
                      /\ run'[q].seen \subseteq items'[SnapshotOf[q]]
  BY DEF SeenIsStored
<1>3. /\ Len(versions[SnapshotOf[q]]) <= Len(versions'[SnapshotOf[q]])
      /\ items[SnapshotOf[q]] \subseteq items'[SnapshotOf[q]]
  BY <1>1, ItemsKept, VersionsKept
<1>4. run[q].base \in Nat /\ Len(versions[SnapshotOf[q]]) \in Nat /\ Len(versions'[SnapshotOf[q]]) \in Int
  <2>1. run[q] \in Run /\ versions[SnapshotOf[q]] \in Seq(Version)
    BY <1>1 DEF VersionsTypeOK
  <2>2. versions'[SnapshotOf[q]] \in Seq(Version)
    BY <1>1, Appended, FusedByType, JudgedByType, AppendVersionKeeps DEF VersionsTypeOK, Judge
  <2>3. QED
    BY <2>1, <2>2 DEF Run
<1>5. CASE run'[q] = run[q]
  BY <1>2, <1>3, <1>4, <1>5 DEF SeenIsStored
<1>6. ASSUME NEW r \in Runs, NEW phase, Moves(r, phase), phase # "fused"
      PROVE  run'[q] = run[q]
  BY <1>1, <1>2, <1>6 DEF Moves, VersionsTypeOK, Run
<1>7. ASSUME NEW r \in Runs, Fuse(r)
      PROVE  /\ run'[q].base <= Len(versions'[SnapshotOf[q]])
             /\ run'[q].seen \subseteq items'[SnapshotOf[q]]
  <2> DEFINE s == SnapshotOf[r]
             new == [at |-> "fused", base |-> Len(versions[s]), seen |-> ledger[s]]
  <2>1. CASE ledger[s] = {}
    BY <1>5, <1>6, <1>7, <2>1 DEF Fuse
  <2>2. CASE ledger[s] # {}
    <3>1. run' = [run EXCEPT ![r] = new] /\ items' = [items EXCEPT ![s] = @ \cup ledger[s]]
      BY <1>7, <2>2 DEF Fuse
    <3>2. CASE q = r
      <4>1. run'[q] = new
        BY <1>1, <3>1, <3>2 DEF VersionsTypeOK
      <4>2. items'[s] = items[s] \cup ledger[s]
        BY <1>1, <3>1 DEF VersionsTypeOK
      <4>3. QED
        BY <1>3, <1>4, <3>2, <4>1, <4>2
    <3>3. CASE q # r
      BY <1>1, <1>5, <3>1, <3>3 DEF VersionsTypeOK
    <3>4. QED
      BY <3>2, <3>3
  <2>3. QED
    BY <2>1, <2>2
<1>8. CASE MemoryStep
  <2>1. ASSUME NEW r \in Runs, Collect(r) PROVE Moves(r, "verify")
    BY <2>1 DEF Collect
  <2>2. ASSUME NEW r \in Runs, Store(r)
        PROVE  Moves(r, "consolidate") \/ Moves(r, "collect") \/ Moves(r, "merge") \/ Moves(r, "failed")
    BY <2>2 DEF Store
  <2>3. ASSUME NEW w \in Reviewers, Ask(w) \/ Receive(w) \/ Note(w) \/ Judge(w) \/ Retry(w)
        PROVE  UNCHANGED run
    BY <2>3 DEF Ask, Receive, Note, Judge, Retry
  <2>4. ASSUME NEW r \in Runs, Retrieve(r) \/ Verify(r) \/ Verified(r) \/ List(r) \/ Consolidate(r)
        PROVE  \/ Moves(r, "collect") \/ UNCHANGED run \/ Moves(r, "merge")
               \/ Moves(r, "consolidate") \/ Moves(r, "done")
    BY <2>4 DEF Retrieve, Verify, Verified, List, Consolidate, Consolidated, versionVars
  <2>5. ASSUME NEW s \in Snapshots, Forget(s) PROVE UNCHANGED run
    BY <2>5 DEF Forget, versionVars
  <2>6. \/ \E r \in Runs: Fuse(r)
        \/ UNCHANGED run
        \/ \E r \in Runs: \E phase \in Phases \ {"fused"}: Moves(r, phase)
    BY <1>8, <2>1, <2>2, <2>3, <2>4, <2>5 DEF MemoryStep, VersionStep, Phases
  <2>7. QED
    BY <1>5, <1>6, <1>7, <2>6
<1>9. CASE GlobalStep
  BY <1>5, <1>9 DEF GlobalStep, Suggest, Candidate, Propose, Resolve, Decide, Look, Promote, Lost,
                    Expire, Rest, versionVars
<1>10. CASE UNCHANGED allVars
  BY <1>5, <1>10 DEF allVars, vars, versionVars
<1>11. QED
  BY <1>8, <1>9, <1>10 DEF Next

(* What a memory stage still has to look at can be read. *)
LEMMA PendingStep ==
  ASSUME MemoryTypeOK, JudgedIsThere, PendingCanBeRead, [Next]_allVars
  PROVE  PendingCanBeRead'
<1> DEFINE Stages == {"collect", "verify", "consolidate"}
           There(q, m) == /\ run'[q].at \in Stages
                          /\ IF run'[q].at = "consolidate"
                             THEN m.version \in DOMAIN versions'[m.of]
                                  /\ versions'[m.of][m.version].status = "accepted"
                             ELSE m.version \in DOMAIN memory'[m.of]
<1>1. /\ VersionsTypeOK /\ MemoriesTypeOK /\ \A q \in Runs: run[q] \in Run /\ SnapshotOf[q] \in Snapshots
      /\ \A q \in Runs: \A m \in pending[q]: m.of \in Snapshots
  BY VersionsAssumption DEF MemoryTypeOK, VersionsTypeOK, MemoriesTypeOK, Retrieved
<1>2. SUFFICES ASSUME NEW q \in Runs, NEW m \in pending'[q] PROVE There(q, m)
  BY DEF PendingCanBeRead
<1>3. ASSUME m \in pending[q], run'[q].at \in Stages,
             run'[q].at = "consolidate" <=> run[q].at = "consolidate"
      PROVE  There(q, m)
  <2>1. m.of \in Snapshots
    BY <1>1, <1>3
  <2>2. CASE run[q].at = "consolidate"
    <3>1. m.version \in DOMAIN versions[m.of] /\ versions[m.of][m.version].status = "accepted"
      BY <1>3, <2>2 DEF PendingCanBeRead
    <3>2. m.version \in DOMAIN versions'[m.of] /\ versions'[m.of][m.version] = versions[m.of][m.version]
      BY <2>1, <3>1, VersionsKept
    <3>3. QED
      BY <1>3, <2>2, <3>1, <3>2
  <2>3. CASE run[q].at # "consolidate"
    <3>1. m.version \in DOMAIN memory[m.of]
      BY <1>3, <2>3 DEF PendingCanBeRead
    <3>2. m.version \in DOMAIN memory'[m.of]
      BY <2>1, <3>1, MemoriesKept
    <3>3. QED
      BY <1>3, <2>3, <3>2
  <2>4. QED
    BY <2>2, <2>3
<1>4. CASE pending'[q] = pending[q] /\ run'[q] = run[q]
  BY <1>2, <1>3, <1>4 DEF PendingCanBeRead
<1>5. ASSUME NEW r \in Runs, NEW phase, Moves(r, phase)
      PROVE  run'[r].at = phase /\ \A p \in Runs \ {r}: run'[p] = run[p]
  BY <1>1, <1>5 DEF Moves, VersionsTypeOK, Run
<1>6. ASSUME NEW r \in Runs, Collect(r), UNCHANGED memoryVars PROVE There(q, m)
  <2>1. pending' = pending /\ Moves(r, "verify") /\ run[r].at = "collect"
    BY <1>6 DEF Collect, memoryVars, At
  <2>2. QED
    BY <1>2, <1>3, <1>4, <1>5, <2>1
<1>7. ASSUME NEW r \in Runs, run[r].at \in {"merge", "fused"}, UNCHANGED memoryVars,
             \A p \in Runs \ {r}: run'[p] = run[p]
      PROVE  There(q, m)
  <2>1. pending' = pending /\ pending[r] = {}
    BY <1>7 DEF memoryVars, PendingCanBeRead
  <2>2. QED
    BY <1>2, <1>4, <1>7, <2>1
<1>8. ASSUME NEW r \in Runs, Fuse(r) \/ Store(r)
      PROVE  run[r].at \in {"merge", "fused"} /\ \A p \in Runs \ {r}: run'[p] = run[p]
  <2>1. CASE Fuse(r)
    <3>1. \E new: run' = [run EXCEPT ![r] = new]
      <4>1. CASE ledger[SnapshotOf[r]] = {}
        BY <2>1, <4>1 DEF Fuse, Moves
      <4>2. CASE ledger[SnapshotOf[r]] # {}
        BY <2>1, <4>2 DEF Fuse
      <4>3. QED
        BY <4>1, <4>2
    <3>2. QED
      BY <1>1, <2>1, <3>1 DEF Fuse, At, VersionsTypeOK
  <2>2. CASE Store(r)
    <3>1. \E phase: Moves(r, phase)
      BY <2>2 DEF Store
    <3>2. QED
      BY <1>5, <2>2, <3>1 DEF Store, At
  <2>3. QED
    BY <1>8, <2>1, <2>2
<1>9. CASE VersionStep /\ UNCHANGED memoryVars
  <2>1. ASSUME NEW w \in Reviewers, Ask(w) \/ Receive(w) \/ Note(w) \/ Judge(w) \/ Retry(w)
        PROVE  UNCHANGED run
    BY <2>1 DEF Ask, Receive, Note, Judge, Retry
  <2>2. UNCHANGED pending
    BY <1>9 DEF memoryVars
  <2>3. QED
    BY <1>4, <1>6, <1>7, <1>8, <1>9, <2>1, <2>2 DEF VersionStep
<1>10. ASSUME NEW r \in Runs, NEW new, pending' = [pending EXCEPT ![r] = new]
       PROVE  pending'[r] = new /\ \A p \in Runs \ {r}: pending'[p] = pending[p]
  BY <1>1, <1>10 DEF MemoriesTypeOK
<1>11. ASSUME NEW r \in Runs, Retrieve(r) PROVE There(q, m)
  <2>1. PICK chosen \in SUBSET {s \in Snapshots: Retrievable(r, s)} : Retrieve(r)!(chosen)
    BY <1>11 DEF Retrieve
  <2> DEFINE rows == {[of |-> s, version |-> Len(memory[s])]: s \in chosen}
  <2>2. pending' = [pending EXCEPT ![r] = rows] /\ Moves(r, "collect") /\ memory' = memory
    BY <1>1, <2>1 DEF MemoriesTypeOK
  <2>3. CASE q = r
    <3>1. PICK s \in chosen : m = [of |-> s, version |-> Len(memory[s])]
      <4> HIDE DEF rows
      <4>1. m \in rows
        BY <1>2, <1>10, <2>2, <2>3
      <4>2. QED
        BY <4>1 DEF rows
    <3>2. memory[s] \in Seq(MemoryVersion) /\ memory[s] # <<>>
      BY <1>1, <2>1, <3>1 DEF Retrievable, MemoriesTypeOK
    <3>3. Len(memory[s]) \in DOMAIN memory[s]
      BY <3>2
    <3>4. QED
      BY <1>5, <2>2, <2>3, <3>1, <3>3
  <2>4. CASE q # r
    BY <1>4, <1>5, <1>10, <2>2, <2>4
  <2>5. QED
    BY <2>3, <2>4
<1>12. ASSUME NEW r \in Runs, Verify(r) PROVE There(q, m)
  <2>1. \E x: pending' = [pending EXCEPT ![r] = @ \ {x}]
    BY <1>12 DEF Verify
  <2>2. m \in pending[q]
    BY <1>1, <1>2, <2>1 DEF MemoriesTypeOK
  <2>3. run' = run
    BY <1>12 DEF Verify, versionVars
  <2>4. QED
    BY <1>3, <2>2, <2>3 DEF PendingCanBeRead
<1>13. ASSUME NEW r \in Runs, Verified(r) PROVE There(q, m)
  <2>1. pending' = pending /\ Moves(r, "merge") /\ pending[r] = {}
    BY <1>13 DEF Verified, memoryVars
  <2>2. QED
    BY <1>2, <1>4, <1>5, <2>1
<1>14. ASSUME NEW r \in Runs, Consolidated(r), pending'[r] # {} PROVE Moves(r, "consolidate")
  BY <1>14 DEF Consolidated
<1>15. ASSUME NEW r \in Runs, Consolidated(r) PROVE \A p \in Runs \ {r}: run'[p] = run[p]
  BY <1>5, <1>15 DEF Consolidated
<1>16. ASSUME NEW r \in Runs, List(r) PROVE There(q, m)
  <2> DEFINE rows == {[of |-> s, version |-> Len(versions[s])]:
                        s \in {x \in Snapshots: versions[x] # <<>> /\ Latest(x).status = "accepted"}}
  <2>1. pending' = [pending EXCEPT ![r] = rows] /\ Consolidated(r) /\ versions' = versions
    BY <1>16 DEF List, storeVars
  <2>2. CASE q = r
    <3>1. PICK s \in Snapshots : /\ versions[s] # <<>> /\ Latest(s).status = "accepted"
                                 /\ m = [of |-> s, version |-> Len(versions[s])]
      <4> HIDE DEF rows
      <4>1. m \in rows
        BY <1>2, <1>10, <2>1, <2>2
      <4>2. QED
        BY <4>1 DEF rows
    <3>2. versions[s] \in Seq(Version)
      BY <1>1, <3>1 DEF VersionsTypeOK
    <3>3. Len(versions[s]) \in DOMAIN versions[s] /\ versions[s][Len(versions[s])].status = "accepted"
      BY <3>1, <3>2 DEF Latest
    <3>4. run'[r].at = "consolidate"
      BY <1>2, <1>5, <1>14, <2>1, <2>2
    <3>5. QED
      BY <2>1, <2>2, <3>1, <3>3, <3>4
  <2>3. CASE q # r
    BY <1>4, <1>10, <1>15, <2>1, <2>3
  <2>4. QED
    BY <2>2, <2>3
<1>17. ASSUME NEW r \in Runs, Consolidate(r) PROVE There(q, m)
  <2>1. PICK x \in pending[r] : Consolidate(r)!(x)
    BY <1>17 DEF Consolidate
  <2>2. pending' = [pending EXCEPT ![r] = @ \ {x}] /\ Consolidated(r) /\ run[r].at = "consolidate"
    BY <2>1 DEF At
  <2>3. CASE q = r
    <3>1. m \in pending[r] /\ pending'[r] # {}
      BY <1>1, <1>2, <2>2, <2>3 DEF MemoriesTypeOK
    <3>2. run'[r].at = "consolidate"
      BY <1>5, <1>14, <2>2, <3>1
    <3>3. QED
      BY <1>3, <2>2, <2>3, <3>1, <3>2
  <2>4. CASE q # r
    BY <1>4, <1>10, <1>15, <2>2, <2>4
  <2>5. QED
    BY <2>3, <2>4
<1>18. CASE \E s \in Snapshots: Forget(s)
  BY <1>4, <1>18 DEF Forget, versionVars
<1>19. CASE GlobalStep
  BY <1>4, <1>19 DEF GlobalStep, Suggest, Candidate, Propose, Resolve, Decide, Look, Promote, Lost,
                     Expire, Rest, versionVars, memoryVars
<1>20. CASE UNCHANGED allVars
  BY <1>4, <1>20 DEF allVars, vars, versionVars, memoryVars
<1>21. QED
  BY <1>9, <1>11, <1>12, <1>13, <1>16, <1>17, <1>18, <1>19, <1>20 DEF Next, MemoryStep

(* A request about a relation is none about a pattern. *)
LEMMA ApartStep ==
  ASSUME VersionsTypeOK, MemoryStep
  PROVE  \A v \in Reviewers: \/ review'[v] = review[v]
                             \/ review'[v].at \notin {"proposed", "resolving", "resolved", "promoting"}
<1> DEFINE Apart == {"asked", "noted", "judging", "done", "refused", "error"}
<1>1. ASSUME NEW w \in Reviewers, NEW step \in Apart, review' = [review EXCEPT ![w].at = step]
      PROVE  \A v \in Reviewers: review'[v] = review[v] \/ review'[v].at \in Apart
  BY <1>1, GoesOn
<1>2. ASSUME NEW w \in Reviewers, Ask(w)
      PROVE  \A v \in Reviewers: review'[v] = review[v] \/ review'[v].at \in Apart
  BY <1>2 DEF Ask, VersionsTypeOK
<1>3. ASSUME NEW w \in Reviewers, Retry(w)
      PROVE  \A v \in Reviewers: review'[v] = review[v] \/ review'[v].at \in Apart
  <2>1. review' = [review EXCEPT ![w] = [[review[w] EXCEPT !.at = "asked"]
                                           EXCEPT !.asked = review[w].asked + 1]]
    BY <1>3 DEF Retry, VersionsTypeOK
  <2>2. review'[w].at = "asked" /\ \A v \in Reviewers \ {w}: review'[v] = review[v]
    BY <2>1 DEF VersionsTypeOK, Request
  <2>3. QED
    BY <2>2
<1>4. ASSUME NEW w \in Reviewers, Receive(w) \/ Note(w) \/ Judge(w)
      PROVE  \E step \in Apart: review' = [review EXCEPT ![w].at = step]
  BY <1>4 DEF Receive, Note, Judge
<1>5. CASE VersionStep
  <2>1. CASE \E r \in Runs: Collect(r) \/ Fuse(r) \/ Store(r)
    BY <2>1 DEF Collect, Fuse, Store
  <2>2. QED
    BY <1>1, <1>2, <1>3, <1>4, <1>5, <2>1 DEF VersionStep
<1>6. CASE \/ \E r \in Runs: Retrieve(r) \/ Verify(r) \/ Verified(r) \/ List(r) \/ Consolidate(r)
           \/ \E s \in Snapshots: Forget(s)
  BY <1>6 DEF Retrieve, Verify, Verified, List, Consolidate, Forget, versionVars
<1>7. QED
  BY <1>5, <1>6 DEF MemoryStep

(* There is one proposal, of one request, and it is answered once. *)
LEMMA ProposalStep ==
  ASSUME MemoryTypeOK, OneProposal, ActiveIsApproved, [Next]_allVars
  PROVE  OneProposal' /\ ActiveIsApproved'
<1>1. /\ VersionsTypeOK /\ global \in Seq(Lifecycles) /\ proposal \in Proposal
  BY DEF MemoryTypeOK, GlobalTypeOK
<1>2. ASSUME UNCHANGED <<global, proposal>>,
             \A v \in Reviewers: \/ review'[v] = review[v]
                                \/ review'[v].at \notin {"proposed", "resolving", "resolved", "promoting"}
      PROVE  OneProposal' /\ ActiveIsApproved'
  BY <1>2 DEF OneProposal, ActiveIsApproved
<1>3. ASSUME NEW w \in Reviewers, NEW step, Goes(w, step)
      PROVE  review'[w].at = step /\ \A v \in Reviewers \ {w}: review'[v] = review[v]
  BY <1>1, <1>3, GoesOn DEF Goes
<1>4. ASSUME NEW w \in Reviewers, NEW step, NEW action, NEW base, Asks(w, step, action, base)
      PROVE  review'[w].at = step /\ \A v \in Reviewers \ {w}: review'[v] = review[v]
  BY <1>1, <1>4 DEF Asks, VersionsTypeOK, Request
<1>5. CASE MemoryStep /\ UNCHANGED globalVars
  BY <1>1, <1>2, <1>5, ApartStep DEF globalVars
<1>6. ASSUME NEW w \in Reviewers, Suggest(w) PROVE OneProposal' /\ ActiveIsApproved'
  <2>1. Asks(w, "proposing", "accept", 0) /\ UNCHANGED <<global, proposal>>
    BY <1>6 DEF Suggest, globalVars
  <2>2. QED
    BY <1>2, <1>4, <2>1
<1>7. ASSUME NEW w \in Reviewers, Candidate(w) PROVE OneProposal' /\ ActiveIsApproved'
  <2>1. UNCHANGED proposal
    BY <1>7 DEF Candidate
  <2>2. CASE global = <<>>
    <3>1. global' = <<"candidate">> /\ Goes(w, "proposed")
      BY <1>7, <2>2 DEF Candidate
    <3>2. review'[w].at = "proposed" /\ \A v \in Reviewers \ {w}: review'[v] = review[v]
      BY <1>3, <3>1
    <3>3. OneProposal'
      BY <2>1, <2>2, <3>1, <3>2 DEF OneProposal
    <3>4. ActiveIsApproved'
      BY <3>1 DEF ActiveIsApproved
    <3>5. QED
      BY <3>3, <3>4
  <2>3. CASE global # <<>>
    <3>1. Goes(w, "error") /\ UNCHANGED global
      BY <1>7, <2>3 DEF Candidate
    <3>2. QED
      BY <1>2, <1>3, <2>1, <3>1
  <2>4. QED
    BY <2>2, <2>3
<1>8. ASSUME NEW w \in Reviewers, Propose(w) PROVE OneProposal' /\ ActiveIsApproved'
  <2>1. /\ review[w].at = "proposed" /\ proposal' = [lifecycle |-> "candidate", by |-> "nobody"]
        /\ Goes(w, "promoted") /\ global' = global
    BY <1>8 DEF Propose
  <2>2. review'[w].at = "promoted" /\ \A v \in Reviewers \ {w}: review'[v] = review[v]
    BY <1>3, <2>1
  <2>3. proposal.lifecycle = "none" /\ global # <<>>
    BY <2>1 DEF OneProposal
  <2>4. \A v \in Reviewers: review'[v].at \notin {"proposed", "resolved", "promoting"}
    BY <2>1, <2>2, <2>3 DEF OneProposal
  <2>5. proposal'.lifecycle = "candidate"
    BY <2>1
  <2>6. OneProposal'
    BY <2>1, <2>3, <2>4, <2>5 DEF OneProposal
  <2>7. ActiveIsApproved'
    BY <2>1, <2>3 DEF ActiveIsApproved
  <2>8. QED
    BY <2>6, <2>7
<1>9. ASSUME NEW w \in Reviewers, Resolve(w) PROVE OneProposal' /\ ActiveIsApproved'
  <2>1. PICK action \in {"accept", "reject"} : Resolve(w)!(action)
    BY <1>9 DEF Resolve
  <2>2. /\ review'[w].at = (IF proposal.lifecycle = "candidate" THEN "resolving" ELSE "resolved")
        /\ \A v \in Reviewers \ {w}: review'[v] = review[v]
    BY <1>4, <2>1
  <2>3. UNCHANGED <<global, proposal>> /\ proposal.lifecycle # "none"
    BY <2>1 DEF globalVars
  <2>4. proposal.lifecycle \in {"candidate", "active", "deprecated"}
    BY <1>1, <2>3 DEF Proposal, Lifecycles
  <2>5. OneProposal'
    BY <2>2, <2>3, <2>4 DEF OneProposal
  <2>6. ActiveIsApproved'
    BY <2>3 DEF ActiveIsApproved
  <2>7. QED
    BY <2>5, <2>6
<1>10. ASSUME NEW w \in Reviewers, Decide(w) PROVE OneProposal' /\ ActiveIsApproved'
  <2>1. review[w].at = "resolving" /\ global' = global
    BY <1>10 DEF Decide
  <2>2. CASE Forbidden(w) \/ proposal.lifecycle # "candidate"
    <3>1. UNCHANGED proposal /\ \E step \in {"refused", "error"}: Goes(w, step)
      BY <1>10, <2>2 DEF Decide
    <3>2. QED
      BY <1>2, <1>3, <2>1, <3>1
  <2>3. CASE ~(Forbidden(w) \/ proposal.lifecycle # "candidate")
    <3>1. proposal' = [lifecycle |-> Target(w), by |-> w] /\ Goes(w, "resolved")
      BY <1>10, <2>3 DEF Decide
    <3>2. review'[w].at = "resolved" /\ \A v \in Reviewers \ {w}: review'[v] = review[v]
      BY <1>3, <3>1
    <3>3. /\ proposal'.lifecycle \in {"active", "deprecated"}
          /\ proposal'.lifecycle = "active" => proposal'.by \in Authorized
      BY <2>3, <3>1 DEF Target, Forbidden
    <3>4. global # <<>> /\ \A v \in Reviewers: review[v].at # "proposed"
      BY <2>1, <2>3 DEF OneProposal
    <3>5. OneProposal'
      BY <2>1, <3>2, <3>3, <3>4 DEF OneProposal
    <3>6. ActiveIsApproved'
      BY <2>1, <2>3 DEF ActiveIsApproved
    <3>7. QED
      BY <3>5, <3>6
  <2>4. QED
    BY <2>2, <2>3
<1>11. ASSUME NEW w \in Reviewers, Look(w) PROVE OneProposal' /\ ActiveIsApproved'
  <2>1. review[w].at = "resolved" /\ UNCHANGED <<global, proposal>>
    BY <1>11 DEF Look, globalVars
  <2>2. review'[w].at = "promoting" /\ \A v \in Reviewers \ {w}: review'[v] = review[v]
    BY <1>1, <1>11 DEF Look, VersionsTypeOK, Request
  <2>3. OneProposal'
    BY <2>1, <2>2 DEF OneProposal
  <2>4. ActiveIsApproved'
    BY <2>1 DEF ActiveIsApproved
  <2>5. QED
    BY <2>3, <2>4
<1>12. ASSUME NEW w \in Reviewers, Promote(w) PROVE OneProposal' /\ ActiveIsApproved'
  <2>1. review[w].at = "promoting" /\ UNCHANGED proposal
    BY <1>12 DEF Promote
  <2>2. CASE Len(global) = review[w].base
    <3>1. global' = Append(global, proposal.lifecycle) /\ Goes(w, "promoted")
      BY <1>12, <2>2 DEF Promote
    <3>2. review'[w].at = "promoted" /\ \A v \in Reviewers \ {w}: review'[v] = review[v]
      BY <1>3, <3>1
    <3>3. proposal.lifecycle \in Lifecycles
      BY <2>1 DEF OneProposal, Lifecycles
    <3>4. /\ global' # <<>> /\ DOMAIN global' = 1 .. Len(global) + 1 /\ DOMAIN global = 1 .. Len(global)
          /\ \A i \in DOMAIN global: global'[i] = global[i]
          /\ global'[Len(global) + 1] = proposal.lifecycle /\ Len(global) \in Nat
      BY <1>1, <3>1, <3>3, AppendKeeps
    <3>5. OneProposal'
      BY <2>1, <3>2, <3>4 DEF OneProposal
    <3>6. ActiveIsApproved'
      BY <2>1, <3>4 DEF ActiveIsApproved, OneProposal
    <3>7. QED
      BY <3>5, <3>6
  <2>3. CASE Len(global) # review[w].base
    <3>1. Goes(w, "error") /\ UNCHANGED global
      BY <1>12, <2>3 DEF Promote
    <3>2. QED
      BY <1>2, <1>3, <2>1, <3>1
  <2>4. QED
    BY <2>2, <2>3
<1>13. ASSUME NEW w \in Reviewers, Lost(w) PROVE OneProposal' /\ ActiveIsApproved'
  <2>1. Goes(w, "error") /\ UNCHANGED <<global, proposal>>
    BY <1>13 DEF Lost, globalVars
  <2>2. QED
    BY <1>2, <1>3, <2>1
<1>14. CASE Expire
  BY <1>2, <1>14 DEF Expire, versionVars
<1>15. CASE UNCHANGED allVars
  BY <1>2, <1>15 DEF allVars, vars, versionVars, globalVars
<1>16. QED
  BY <1>5, <1>6, <1>7, <1>8, <1>9, <1>10, <1>11, <1>12, <1>13, <1>14, <1>15 DEF Next, GlobalStep

(* The pattern only ever gets longer. *)
LEMMA PatternKept ==
  ASSUME MemoryTypeOK, OneProposal, [Next]_allVars
  PROVE  IsPrefix(global, global')
<1>1. global \in Seq(Lifecycles) /\ proposal \in Proposal
  BY DEF MemoryTypeOK, GlobalTypeOK
<1>2. CASE UNCHANGED global
  BY <1>1, <1>2 DEF IsPrefix
<1>3. ASSUME NEW w \in Reviewers, Candidate(w) PROVE IsPrefix(global, global')
  <2>1. (global = <<>> /\ global' = <<"candidate">>) \/ UNCHANGED global
    BY <1>3 DEF Candidate
  <2>2. IsPrefix(<<>>, <<"candidate">>)
    BY DEF IsPrefix
  <2>3. QED
    BY <1>2, <2>1, <2>2
<1>4. ASSUME NEW w \in Reviewers, Promote(w) PROVE IsPrefix(global, global')
  <2>1. proposal.lifecycle \in Lifecycles
    BY <1>4 DEF Promote, OneProposal, Lifecycles
  <2>2. global' = Append(global, proposal.lifecycle) \/ UNCHANGED global
    BY <1>4 DEF Promote
  <2>3. QED
    BY <1>1, <1>2, <2>1, <2>2, AppendIsPrefix
<1>5. CASE MemoryStep /\ UNCHANGED globalVars
  BY <1>2, <1>5 DEF globalVars
<1>6. CASE GlobalStep
  BY <1>2, <1>3, <1>4, <1>6 DEF GlobalStep, Suggest, Propose, Resolve, Decide, Look, Lost, Expire,
                               globalVars
<1>7. CASE UNCHANGED allVars
  BY <1>2, <1>7 DEF allVars, globalVars
<1>8. QED
  BY <1>5, <1>6, <1>7 DEF Next

-----------------------------------------------------------------------------
(* A version cites what its merge or its reviewer had read, which is stored. *)
LEMMA EvidenceStep ==
  ASSUME MemoryTypeOK, JudgedIsThere, SeenIsStored, EvidenceCanBeRead, [Next]_allVars
  PROVE  EvidenceCanBeRead'
<1>1. VersionsTypeOK
  BY DEF MemoryTypeOK
<1>2. SUFFICES ASSUME NEW s \in Snapshots, NEW i \in DOMAIN versions'[s]
               PROVE  versions'[s][i].evidence \subseteq items[s]
  BY ItemsKept DEF EvidenceCanBeRead
<1>3. CASE UNCHANGED versions
  BY <1>2, <1>3 DEF EvidenceCanBeRead
<1>4. ASSUME NEW r \in Runs, Store(r), AppendVersion(SnapshotOf[r], run[r].base, FusedBy(r))
      PROVE  versions'[s][i].evidence \subseteq items[s]
  <2>1. \/ i \in DOMAIN versions[s] \/ (s = SnapshotOf[r] /\ versions'[s][i] = FusedBy(r))
    BY <1>1, <1>2, <1>4, FusedByType, AppendVersionKeeps
  <2>2. CASE i \in DOMAIN versions[s]
    BY <1>2, <2>2, VersionsKept DEF EvidenceCanBeRead
  <2>3. CASE s = SnapshotOf[r] /\ versions'[s][i] = FusedBy(r)
    <3>1. run[r].seen \subseteq items[s]
      BY <1>4, <2>3 DEF Store, At, SeenIsStored
    <3>2. QED
      BY <1>1, <2>3, <3>1, FusedByType
  <2>4. QED
    BY <2>1, <2>2, <2>3
<1>5. ASSUME NEW w \in Reviewers, Judge(w),
             AppendVersion(review[w].snapshot, review[w].base, JudgedBy(w))
      PROVE  versions'[s][i].evidence \subseteq items[s]
  <2>1. review[w].at = "judging"
    BY <1>5 DEF Judge
  <2>2. i \in DOMAIN versions[s] \/ (s = review[w].snapshot /\ versions'[s][i] = JudgedBy(w))
    BY <1>1, <1>2, <1>5, <2>1, JudgedByType, AppendVersionKeeps
  <2>3. CASE i \in DOMAIN versions[s]
    BY <1>2, <2>3, VersionsKept DEF EvidenceCanBeRead
  <2>4. CASE s = review[w].snapshot /\ versions'[s][i] = JudgedBy(w)
    BY <1>1, <2>1, <2>4, JudgedByType
  <2>5. QED
    BY <2>2, <2>3, <2>4
<1>6. QED
  BY <1>3, <1>4, <1>5, Appended

(* A reviewer's decision stays the version next to the one he was shown. *)
LEMMA DoneStep ==
  ASSUME VersionsTypeOK, JudgedIsThere, [Next]_allVars, NEW w \in Reviewers
  PROVE  \/ review'[w] = review[w]
         \/ review'[w].at # "done"
         \/ Judge(w) /\ review' = [review EXCEPT ![w].at = "done"]
<1>1. ASSUME NEW v \in Reviewers, NEW step, review' = [review EXCEPT ![v].at = step], step # "done"
      PROVE  review'[w] = review[w] \/ review'[w].at # "done"
  BY <1>1, GoesOn
<1>2. ASSUME NEW v \in Reviewers, Ask(v) PROVE review'[w] = review[w] \/ review'[w].at # "done"
  BY <1>2 DEF Ask, VersionsTypeOK
<1>3. ASSUME NEW v \in Reviewers, Retry(v) PROVE review'[w] = review[w] \/ review'[w].at # "done"
  <2>1. review' = [review EXCEPT ![v] = [[review[v] EXCEPT !.at = "asked"]
                                           EXCEPT !.asked = review[v].asked + 1]]
    BY <1>3 DEF Retry, VersionsTypeOK
  <2>2. review'[v].at = "asked" /\ \A u \in Reviewers \ {v}: review'[u] = review[u]
    BY <2>1 DEF VersionsTypeOK, Request
  <2>3. QED
    BY <2>2
<1>4. ASSUME NEW v \in Reviewers, Receive(v) \/ Note(v)
      PROVE  review'[w] = review[w] \/ review'[w].at # "done"
  <2>1. \E step \in Steps \ {"done"}: review' = [review EXCEPT ![v].at = step]
    BY <1>4 DEF Receive, Note, Steps
  <2>2. QED
    BY <1>1, <2>1
<1>5. ASSUME NEW v \in Reviewers, Judge(v)
      PROVE  \/ review'[w] = review[w] \/ review'[w].at # "done"
             \/ Judge(w) /\ review' = [review EXCEPT ![w].at = "done"]
  <2>1. review' = [review EXCEPT ![v].at = "done"] \/ review' = [review EXCEPT ![v].at = "error"]
    BY <1>5 DEF Judge
  <2>2. CASE v = w
    BY <1>1, <1>5, <2>1, <2>2
  <2>3. CASE v # w
    BY <2>1, <2>3, GoesOn
  <2>4. QED
    BY <2>2, <2>3
<1>6. CASE MemoryStep
  <2>1. CASE \E r \in Runs: Collect(r) \/ Fuse(r) \/ Store(r)
    BY <2>1 DEF Collect, Fuse, Store
  <2>2. CASE \/ \E r \in Runs: Retrieve(r) \/ Verify(r) \/ Verified(r) \/ List(r) \/ Consolidate(r)
             \/ \E s \in Snapshots: Forget(s)
    BY <2>2 DEF Retrieve, Verify, Verified, List, Consolidate, Forget, versionVars
  <2>3. QED
    BY <1>2, <1>3, <1>4, <1>5, <1>6, <2>1, <2>2 DEF MemoryStep, VersionStep
<1>7. CASE GlobalStep
  <2>1. ASSUME NEW v \in Reviewers, Suggest(v) \/ Resolve(v)
        PROVE  review'[w] = review[w] \/ review'[w].at # "done"
    <3>1. \E step \in Steps \ {"done"} : \E action, base : Asks(v, step, action, base)
      BY <2>1 DEF Suggest, Resolve, Steps
    <3>2. PICK step \in Steps \ {"done"} : \E action, base : Asks(v, step, action, base)
      BY <3>1
    <3>3. review'[v].at = step /\ \A u \in Reviewers \ {v}: review'[u] = review[u]
      BY <3>2 DEF Asks, VersionsTypeOK, Request
    <3>4. QED
      BY <3>3
  <2>2. ASSUME NEW v \in Reviewers, Look(v) PROVE review'[w] = review[w] \/ review'[w].at # "done"
    <3>1. review'[v].at = "promoting" /\ \A u \in Reviewers \ {v}: review'[u] = review[u]
      BY <2>2 DEF Look, VersionsTypeOK, Request
    <3>2. QED
      BY <3>1
  <2>3. ASSUME NEW v \in Reviewers, Candidate(v) \/ Propose(v) \/ Decide(v) \/ Promote(v) \/ Lost(v)
        PROVE  \E step \in Steps \ {"done"}: review' = [review EXCEPT ![v].at = step]
    <3>1. CASE Candidate(v)
      BY <3>1 DEF Candidate, Goes, Steps
    <3>2. CASE Propose(v)
      BY <3>2 DEF Propose, Goes, Steps
    <3>3. CASE Decide(v)
      BY <3>3 DEF Decide, Goes, Steps
    <3>4. CASE Promote(v)
      BY <3>4 DEF Promote, Goes, Steps
    <3>5. CASE Lost(v)
      BY <3>5 DEF Lost, Goes, Steps
    <3>6. QED
      BY <2>3, <3>1, <3>2, <3>3, <3>4, <3>5
  <2>4. CASE Expire
    BY <2>4 DEF Expire, versionVars
  <2>5. QED
    BY <1>1, <1>7, <2>1, <2>2, <2>3, <2>4 DEF GlobalStep
<1>8. CASE UNCHANGED allVars
  BY <1>8 DEF allVars, vars, versionVars
<1>9. QED
  BY <1>6, <1>7, <1>8 DEF Next

(* A decision that was confirmed stays the version after the one it was about. *)
LEMMA DecisionStep ==
  ASSUME MemoryTypeOK, JudgedIsThere, DecisionIsOnWhatWasSeen, [Next]_allVars
  PROVE  DecisionIsOnWhatWasSeen'
<1>1. VersionsTypeOK
  BY DEF MemoryTypeOK
<1>2. SUFFICES ASSUME NEW w \in Reviewers, review'[w].at = "done", review'[w].base > 0,
                      review'[w].action # "undo"
               PROVE  /\ Len(versions'[review'[w].snapshot]) > review'[w].base
                      /\ versions'[review'[w].snapshot][review'[w].base + 1].by = w
                      /\ versions'[review'[w].snapshot][review'[w].base + 1].status
                           = (IF review'[w].action = "accept" THEN "accepted" ELSE "rejected")
  BY DEF DecisionIsOnWhatWasSeen
<1>3. review[w] \in Request /\ review[w].snapshot \in Snapshots /\ review[w].base \in Nat
  BY <1>1 DEF VersionsTypeOK, Request
<1>4. CASE review'[w] = review[w]
  <2> DEFINE s == review[w].snapshot
             n == review[w].base + 1
  <2>1. Len(versions[s]) > review[w].base /\ versions[s] \in Seq(Version)
    BY <1>1, <1>2, <1>3, <1>4 DEF DecisionIsOnWhatWasSeen, VersionsTypeOK
  <2>2. n \in DOMAIN versions[s]
    BY <1>3, <2>1
  <2>3. n \in DOMAIN versions'[s] /\ versions'[s][n] = versions[s][n]
    BY <1>3, <2>2, VersionsKept
  <2>4. Len(versions[s]) <= Len(versions'[s]) /\ Len(versions'[s]) \in Nat
    <3>1. versions'[s] \in Seq(Version)
      BY <1>1, <1>3, Appended, FusedByType, JudgedByType, AppendVersionKeeps DEF VersionsTypeOK, Judge
    <3>2. QED
      BY <1>3, <3>1, VersionsKept
  <2>5. Len(versions'[s]) > review[w].base
    BY <1>3, <2>1, <2>4
  <2>6. QED
    BY <1>2, <1>4, <2>3, <2>5 DEF DecisionIsOnWhatWasSeen
<1>5. CASE Judge(w) /\ review' = [review EXCEPT ![w].at = "done"]
  <2>1. review[w].at = "judging" /\ UNCHANGED <<ledger, items, feedback, run>>
    BY <1>5 DEF Judge
  <2>2. AppendVersion(review[w].snapshot, review[w].base, JudgedBy(w))
    <3>1. [review EXCEPT ![w].at = "done"] # [review EXCEPT ![w].at = "error"]
      BY <1>1, <1>3 DEF VersionsTypeOK, Request
    <3>2. QED
      BY <1>5, <3>1 DEF Judge, JudgedBy
  <2>3. /\ Len(versions'[review[w].snapshot]) = review[w].base + 1
        /\ versions'[review[w].snapshot][review[w].base + 1] = JudgedBy(w)
    BY <1>1, <2>1, <2>2, JudgedByType, AppendVersionKeeps
  <2>4. /\ review'[w].snapshot = review[w].snapshot /\ review'[w].base = review[w].base
        /\ review'[w].action = review[w].action
    BY <1>1, <1>5, GoesOn
  <2>5. review[w].action \in {"accept", "reject"}
    BY <1>2, <1>3, <2>4 DEF Request
  <2>6. QED
    BY <1>1, <1>3, <2>1, <2>3, <2>4, <2>5, JudgedByType
<1>6. QED
  BY <1>1, <1>2, <1>4, <1>5, DoneStep

(* What is remembered as accepted has an accepted version behind it. *)
LEMMA EarnedStep ==
  ASSUME MemoryTypeOK, JudgedIsThere, PendingCanBeRead, MemoryIsEarned, [Next]_allVars
  PROVE  MemoryIsEarned'
<1> DEFINE Backed(s, evidence) == \E j \in DOMAIN versions[s]:
             versions[s][j].status = "accepted" /\ versions[s][j].evidence = evidence
<1>1. MemoriesTypeOK
  BY DEF MemoryTypeOK
<1>2. ASSUME NEW s \in Snapshots, NEW evidence, Backed(s, evidence)
      PROVE  \E j \in DOMAIN versions'[s]:
               versions'[s][j].status = "accepted" /\ versions'[s][j].evidence = evidence
  BY <1>2, VersionsKept
<1>3. SUFFICES ASSUME NEW s \in Snapshots, NEW i \in DOMAIN memory'[s],
                      memory'[s][i].status = "accepted"
               PROVE  Backed(s, memory'[s][i].evidence)
  BY <1>2 DEF MemoryIsEarned
<1>4. CASE i \in DOMAIN memory[s]
  <2>1. memory'[s][i] = memory[s][i]
    BY <1>4, MemoriesKept
  <2>2. QED
    BY <1>3, <1>4, <2>1 DEF MemoryIsEarned
<1>5. CASE UNCHANGED memory
  BY <1>3, <1>4, <1>5
<1>6. ASSUME NEW r \in Runs, NEW m \in pending[r], run[r].at = "verify",
             Outcome(m, SnapshotOf[r]) # "insufficient", Remember(m.of, Verdict(r, m))
      PROVE  Backed(s, memory'[s][i].evidence)
  <2>1. i \in DOMAIN memory[s] \/ (s = m.of /\ memory'[s][i] = Verdict(r, m))
    BY <1>1, <1>3, <1>6, VerdictType, RememberKeeps
  <2>2. CASE s = m.of /\ memory'[s][i] = Verdict(r, m)
    BY <1>3, <1>6, <2>2, VerdictType DEF MemoryIsEarned
  <2>3. QED
    BY <1>4, <2>1, <2>2
<1>7. ASSUME NEW r \in Runs, NEW m \in pending[r], run[r].at = "consolidate",
             Remember(m.of, Lesson(m))
      PROVE  Backed(s, memory'[s][i].evidence)
  <2>1. i \in DOMAIN memory[s] \/ (s = m.of /\ memory'[s][i] = Lesson(m))
    BY <1>1, <1>3, <1>7, LessonType, RememberKeeps
  <2>2. CASE s = m.of /\ memory'[s][i] = Lesson(m)
    BY <1>7, <2>2, LessonType DEF Lesson
  <2>3. QED
    BY <1>4, <2>1, <2>2
<1>8. QED
  BY <1>5, <1>6, <1>7, Remembered

-----------------------------------------------------------------------------
(* What holds of every state: the types, what a step relies on, and the      *)
(* properties themselves.                                                    *)
MemoryInvariant ==
  /\ MemoryTypeOK /\ JudgedIsThere /\ PendingCanBeRead /\ SeenIsStored
  /\ OneProposal /\ ActiveIsApproved
  /\ EvidenceCanBeRead /\ DecisionIsOnWhatWasSeen /\ MemoryIsEarned

(* The invariant holds at the start. *)
LEMMA InvariantInit == Init => MemoryInvariant
<1> SUFFICES ASSUME Init PROVE MemoryInvariant
  OBVIOUS
<1>1. MemoryTypeOK
  BY TypeInit
<1>2. \A w \in Reviewers: review[w].at = "idle"
  BY DEF Init, VersionsInit, NoRequest
<1>3. JudgedIsThere /\ DecisionIsOnWhatWasSeen
  BY <1>2 DEF JudgedIsThere, DecisionIsOnWhatWasSeen
<1>4. PendingCanBeRead /\ SeenIsStored
  BY DEF Init, VersionsInit, MemoryInit, PendingCanBeRead, SeenIsStored
<1>5. OneProposal /\ ActiveIsApproved
  BY <1>2 DEF Init, OneProposal, ActiveIsApproved
<1>6. EvidenceCanBeRead /\ MemoryIsEarned
  BY DEF Init, VersionsInit, MemoryInit, EvidenceCanBeRead, MemoryIsEarned
<1>7. QED
  BY <1>1, <1>3, <1>4, <1>5, <1>6 DEF MemoryInvariant

(* Every step keeps the invariant. *)
LEMMA InvariantStep == MemoryInvariant /\ [Next]_allVars => MemoryInvariant'
  BY TypeStep, JudgedStep, PendingStep, SeenStep, ProposalStep, EvidenceStep, DecisionStep, EarnedStep
  DEF MemoryInvariant

(* The invariant holds of every state. *)
LEMMA InvariantHolds == Spec => []MemoryInvariant
  BY InvariantInit, InvariantStep, PTL DEF Spec

(* The stores of evidence, relations, memories and patterns keep their types, *)
(* and the row of a memory follows its newest version.                        *)
THEOREM MemoryTypeCorrect == Spec => []MemoryTypeOK
<1>1. MemoryInvariant => MemoryTypeOK
  BY DEF MemoryInvariant
<1>2. QED
  BY <1>1, InvariantHolds, PTL

(* A relation never cites evidence that is not stored, whatever runs and      *)
(* reviewers do at the same time (_fuse_versioned, relation_feedback).        *)
THEOREM EvidenceIsThere == Spec => []EvidenceCanBeRead
<1>1. MemoryInvariant => EvidenceCanBeRead
  BY DEF MemoryInvariant
<1>2. QED
  BY <1>1, InvariantHolds, PTL

(* The optimistic version check gives a reviewer the version next to the one  *)
(* he was shown, for any number of runs and reviewers.                        *)
THEOREM DecisionHolds == Spec => []DecisionIsOnWhatWasSeen
<1>1. MemoryInvariant => DecisionIsOnWhatWasSeen
  BY DEF MemoryInvariant
<1>2. QED
  BY <1>1, InvariantHolds, PTL

(* Nothing is remembered as accepted that was never accepted.                 *)
THEOREM MemoryEarned == Spec => []MemoryIsEarned
<1>1. MemoryInvariant => MemoryIsEarned
  BY DEF MemoryInvariant
<1>2. QED
  BY <1>1, InvariantHolds, PTL

(* A pattern is active only by an answer in time of somebody with authority.  *)
THEOREM ActiveApproved == Spec => []ActiveIsApproved
<1>1. MemoryInvariant => ActiveIsApproved
  BY DEF MemoryInvariant
<1>2. QED
  BY <1>1, InvariantHolds, PTL

(* The histories of relations, memories and the pattern only ever grow.       *)
THEOREM HistoryIsKept == Spec => HistoryKept
<1>1. MemoryInvariant /\ [Next]_allVars =>
        [/\ \A s \in Snapshots: IsPrefix(versions[s], versions'[s]) /\ IsPrefix(memory[s], memory'[s])
         /\ IsPrefix(global, global')]_allVars
  BY VersionsKept, MemoriesKept, PatternKept DEF MemoryInvariant
<1>2. QED
  BY <1>1, InvariantHolds, PTL DEF Spec, HistoryKept
=============================================================================
