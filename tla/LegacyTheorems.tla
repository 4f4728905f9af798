---------------------------- MODULE LegacyTheorems ----------------------------
(* What is proved of an analysis of the legacy engines: what its status says *)
(* of its workers and stores, and what the tab shows of it, whatever fails,  *)
(* breaks off or restarts.                                                   *)
EXTENDS LegacyProperties, SequenceTheorems, TLAPS

StepStatus == WorkerStatus \cup {"none", "skipped"}

(* The steps, and when they are final.                                       *)
StepsSound ==
  /\ engine \in {"manual", "graph"}
  /\ steps \in [Workers -> StepStatus] /\ \A w \in Required: steps[w] # "skipped"
  /\ steps["merge"] # "none" => steps["orm"] # "none"

(* What is known of the outcome when, and what it then says of the steps.    *)
Whole == /\ \A w \in Required: steps[w] = "success"
         /\ steps["orm"] \in {"success", "skipped"}
OutcomeSound ==
  /\ at \in {"idle", "working"} => memory = "none"
  /\ at \in {"idle", "working", "remember", "record"} => record = "none"
  /\ at = "remember" => memory = "none"
  /\ at \in {"remember", "record", "complete", "done"} =>
       /\ status \in RunStatus
       /\ status \in Good => \A w \in Required: steps[w] \in Kept
       /\ status = "completed" => Whole
  /\ at \in {"record", "complete", "done"} /\ status = "completed" => memory = "history"
  /\ at \in {"complete", "done"} => record \in {"none", status}
  /\ at \in {"complete", "done"} /\ status = "completed" => record = "completed"
  /\ memory # "none" => /\ \A w \in Required: steps[w] \in Kept
                        /\ at \in {"record", "complete", "done", "raised"} => status \in Good
  /\ store.status # "completed" \/ store.result
  /\ store.result => at = "done" /\ store.status = status

-----------------------------------------------------------------------------
(* The worst of some statuses is one of them, and none is worse.             *)
LEMMA WorstOf ==
  ASSUME NEW S \in SUBSET RunStatus, S # {}
  PROVE  Combined(S) \in S /\ \A t \in S: Priority[t] <= Priority[Combined(S)]
<1>1. RunStatus = {"completed", "partial", "degraded", "blocked", "failed", "canceled"}
  BY DEF RunStatus, Priority
<1>2. /\ Priority["completed"] = 0 /\ Priority["partial"] = 1 /\ Priority["degraded"] = 2
      /\ Priority["blocked"] = 3 /\ Priority["failed"] = 4 /\ Priority["canceled"] = 5
  BY DEF Priority
<1>3. \E s \in S: \A t \in S: Priority[t] <= Priority[s]
  <2>1. CASE "canceled" \in S
    BY <1>1, <1>2, <2>1
  <2>2. CASE "canceled" \notin S /\ "failed" \in S
    BY <1>1, <1>2, <2>2
  <2>3. CASE "canceled" \notin S /\ "failed" \notin S /\ "blocked" \in S
    BY <1>1, <1>2, <2>3
  <2>4. CASE "canceled" \notin S /\ "failed" \notin S /\ "blocked" \notin S /\ "degraded" \in S
    BY <1>1, <1>2, <2>4
  <2>5. CASE S \subseteq {"completed", "partial"} /\ "partial" \in S
    BY <1>1, <1>2, <2>5
  <2>6. CASE S \subseteq {"completed"}
    <3>1. "completed" \in S
      BY <2>6
    <3>2. \A t \in S: t = "completed"
      BY <2>6
    <3>3. QED
      BY <1>2, <3>1, <3>2
  <2>7. QED
    BY <1>1, <2>1, <2>2, <2>3, <2>4, <2>5, <2>6
<1>4. QED
  BY <1>3 DEF Combined

(* A combination that is good has only good parts, one that is "completed"   *)
(* only completed ones.                                                      *)
LEMMA CombinedIsNoBetter ==
  ASSUME NEW S \in SUBSET RunStatus, NEW t \in S
  PROVE  /\ Combined(S) \in RunStatus
         /\ Combined(S) \in Good => t \in Good
         /\ Combined(S) = "completed" => t = "completed"
<1>1. RunStatus = {"completed", "partial", "degraded", "blocked", "failed", "canceled"}
  BY DEF RunStatus, Priority
<1>2. /\ Priority["completed"] = 0 /\ Priority["partial"] = 1 /\ Priority["degraded"] = 2
      /\ Priority["blocked"] = 3 /\ Priority["failed"] = 4 /\ Priority["canceled"] = 5
  BY DEF Priority
<1>3. Combined(S) \in S /\ Priority[t] <= Priority[Combined(S)]
  BY WorstOf
<1>4. \A r \in RunStatus: /\ Priority[r] \in Int
                         /\ (r \in Good) = (Priority[r] <= 2)
                         /\ (r = "completed") = (Priority[r] <= 0)
  BY <1>1, <1>2 DEF Good
<1>5. QED
  BY <1>3, <1>4

(* A partial failure of memory or of the monitor lowers the status, and      *)
(* leaves a good one good.                                                   *)
LEMMA Lowered ==
  ASSUME NEW s \in RunStatus
  PROVE  /\ Combined({s, "partial"}) \in RunStatus
         /\ Combined({s, "partial"}) # "completed"
         /\ (Combined({s, "partial"}) \in Good) = (s \in Good)
<1>1. {s, "partial"} \in SUBSET RunStatus
  BY DEF RunStatus, Priority
<1>2. Combined({s, "partial"}) \in {s, "partial"}
  BY <1>1, WorstOf
<1>3. QED
  BY <1>1, <1>2, CombinedIsNoBetter DEF Good

(* The reduced status of a run that is good has good required steps.         *)
LEMMA ReducedSays ==
  ASSUME StepsSound
  PROVE  /\ Reduced \in RunStatus
         /\ Reduced \in Good => \A w \in Required: steps[w] \in Kept
         /\ Reduced = "completed" => Whole
<1> DEFINE required == {steps[w]: w \in Required}
           all == required \cup {steps["orm"]}
<1>1. \A w \in Required: steps[w] \in WorkerStatus \cup {"none"} /\ steps[w] \in required
  BY DEF StepsSound, StepStatus, Workers
<1>2. steps["orm"] \in StepStatus
  BY DEF StepsSound, Workers
<1>3. Reduced = IF "none" \in required THEN "failed"
                ELSE IF "cancelled" \in all THEN "canceled"
                ELSE IF "error" \in required THEN "failed"
                ELSE IF "blocked" \in required THEN "blocked"
                ELSE IF "degraded" \in all THEN "degraded"
                ELSE IF "partial" \in all \/ steps["orm"] \in {"error", "blocked"} THEN "partial"
                ELSE "completed"
  BY DEF Reduced
<1>11. required \subseteq all
  OBVIOUS
<1>12. steps["orm"] \in all
  OBVIOUS
<1> HIDE DEF required, all
<1>4. Reduced \in RunStatus
  BY <1>3 DEF RunStatus, Priority
<1>5. Reduced \in Good => /\ "none" \notin required /\ "cancelled" \notin required
                          /\ "error" \notin required /\ "blocked" \notin required
  BY <1>3, <1>11 DEF Good
<1>6. Reduced \in Good => \A w \in Required: steps[w] \in Kept
  BY <1>1, <1>5 DEF WorkerStatus, Kept
<1>7. Reduced = "completed" => /\ "none" \notin required /\ "cancelled" \notin all
                               /\ "degraded" \notin all /\ "partial" \notin all
                               /\ "error" \notin required /\ "blocked" \notin required
                               /\ steps["orm"] \notin {"error", "blocked"}
  BY <1>3
<1>8. Reduced = "completed" => \A w \in Required: steps[w] = "success"
  BY <1>1, <1>7, <1>11 DEF WorkerStatus
<1>9. Reduced = "completed" => steps["orm"] \in {"success", "skipped"}
  <2>1. Reduced = "completed" => steps["orm"] # "none"
    BY <1>8 DEF StepsSound, Required
  <2>2. QED
    BY <1>2, <1>7, <1>12, <2>1 DEF StepStatus, WorkerStatus
<1>10. QED
  BY <1>4, <1>6, <1>8, <1>9 DEF Whole

(* So has the outcome, whichever engine it is of.                            *)
LEMMA OutcomeSays ==
  ASSUME StepsSound
  PROVE  /\ Outcome \in RunStatus
         /\ Outcome \in Good => \A w \in Required: steps[w] \in Kept
         /\ Outcome = "completed" => Whole
<1>1. Folded \in SUBSET RunStatus
  <2>1. \A s \in WorkerStatus: Canonical(s) \in RunStatus
    BY DEF WorkerStatus, Canonical, RunStatus, Priority
  <2>2. QED
    BY <2>1 DEF Folded
<1>2. {Reduced} \cup Folded \in SUBSET RunStatus /\ Reduced \in {Reduced} \cup Folded
  BY <1>1, ReducedSays
<1>3. CASE engine = "manual"
  BY <1>3, ReducedSays DEF Outcome
<1>4. CASE engine # "manual"
  <2>1. Outcome = Combined({Reduced} \cup Folded)
    BY <1>4 DEF Outcome
  <2>2. /\ Outcome \in RunStatus
        /\ Outcome \in Good => Reduced \in Good
        /\ Outcome = "completed" => Reduced = "completed"
    BY <1>2, <2>1, CombinedIsNoBetter
  <2>3. QED
    BY <2>2, ReducedSays
<1>5. QED
  BY <1>3, <1>4

-----------------------------------------------------------------------------
(* No step of a worker is taken back, and merge waits for the ORM step.      *)
LEMMA StepsStep ==
  ASSUME StepsSound, [Next]_vars
  PROVE  StepsSound'
<1>1. /\ engine \in {"manual", "graph"} /\ steps \in [Workers -> StepStatus]
      /\ \A w \in Required: steps[w] # "skipped"
      /\ steps["merge"] # "none" => steps["orm"] # "none"
  BY DEF StepsSound
<1>2. CASE UNCHANGED <<engine, steps>>
  BY <1>2 DEF StepsSound
<1>3. ASSUME NEW how, NEW which \in Engines, Begin(how, which) PROVE StepsSound'
  BY <1>1, <1>3, LegacyAssumption DEF Begin, StepsSound
<1>4. ASSUME NEW w \in Workers, Work(w) PROVE StepsSound'
  <2>1. PICK s \in MayEnd(w) : steps' = [steps EXCEPT ![w] = s]
    BY <1>4 DEF Work
  <2>2. Verdicts[w] \subseteq WorkerStatus
    BY LegacyAssumption
  <2>3. s \in WorkerStatus
    BY <2>1, <2>2 DEF MayEnd, MergeFallback, Fallback, WorkerStatus
  <2>4. s \notin {"none", "skipped"}
    BY <2>3 DEF WorkerStatus
  <2>5. w = "merge" => steps["orm"] # "none"
    BY <1>4 DEF Work, Ready, Before
  <2>6. steps' \in [Workers -> StepStatus] /\ \A v \in Workers: steps'[v] = IF v = w THEN s ELSE steps[v]
    BY <1>1, <2>1, <2>3 DEF StepStatus
  <2>7. engine' = engine
    BY <1>4 DEF Work
  <2>8. QED
    BY <1>1, <2>4, <2>5, <2>6, <2>7 DEF StepsSound, Workers, Required
<1>5. CASE SkipOrm
  <2>1. steps' = [steps EXCEPT !["orm"] = "skipped"] /\ engine' = engine
    BY <1>5 DEF SkipOrm
  <2>2. \A v \in Workers: steps'[v] = IF v = "orm" THEN "skipped" ELSE steps[v]
    BY <1>1, <2>1
  <2>3. QED
    BY <1>1, <2>1, <2>2 DEF StepsSound, StepStatus, Workers, Required
<1>6. CASE Reduce \/ Break \/ Remember \/ Record \/ Complete \/ Crash
  BY <1>2, <1>6 DEF Reduce, Break, Remember, Record, Complete, Crash
<1>7. CASE UNCHANGED serverVars
  BY <1>2, <1>7 DEF serverVars
<1>8. CASE Drop
  BY <1>2, <1>8 DEF Drop
<1>9. QED
  BY <1>3, <1>4, <1>5, <1>6, <1>7, <1>8
  DEF Next, Call, Stream, Serve, WorkLine, SkipOrmLine, Ending, Ends, Closes, Restart, Cut, Follow,
      ReadLine, ReadEnd, FetchExistingRun, vars

(* What is kept follows the outcome, one place after the other.              *)
LEMMA OutcomeStep ==
  ASSUME StepsSound, OutcomeSound, [Next]_vars
  PROVE  OutcomeSound'
<1>1. ASSUME NEW how, NEW which \in Engines, Begin(how, which) PROVE OutcomeSound'
  BY <1>1 DEF Begin, OutcomeSound
<1>2. ASSUME at = "working", at' = "working", UNCHANGED <<status, memory, record, store>>
      PROVE  OutcomeSound'
  BY <1>2 DEF OutcomeSound
<1>3. CASE Reduce
  <2>1. /\ Outcome \in RunStatus /\ Outcome \in Good => \A w \in Required: steps[w] \in Kept
    BY OutcomeSays
  <2>2. Outcome = "completed" => Whole
    BY OutcomeSays
  <2>3. /\ at = "working" /\ at' = "remember" /\ status' = Outcome
        /\ UNCHANGED <<steps, memory, record, store>>
    BY <1>3 DEF Reduce
  <2>4. QED
    BY <2>1, <2>2, <2>3, OutcomeSays DEF OutcomeSound, Whole
<1>4. CASE Break
  <2>1. /\ at = "working" /\ at' = "remember" /\ status' = "failed"
        /\ UNCHANGED <<steps, memory, record, store>>
    BY <1>4 DEF Break
  <2>2. "failed" \in RunStatus /\ "failed" \notin Good
    BY DEF RunStatus, Priority, Good
  <2>3. QED
    BY <2>1, <2>2 DEF OutcomeSound, Whole
<1>5. CASE Remember
  <2>1. /\ at = "remember" /\ at' = "record" /\ memory = "none" /\ status \in RunStatus
        /\ status \in Good => \A w \in Required: steps[w] \in Kept
        /\ UNCHANGED <<steps, record, store>> /\ record = "none"
    BY <1>5 DEF Remember, OutcomeSound
  <2>2. ~store.result /\ (status = "completed" => Whole)
    BY <2>1 DEF OutcomeSound
  <2>3. CASE Worth
    <3>1. /\ status \in Good
          /\ status' = IF memory' = "history" THEN status ELSE Combined({status, "partial"})
      BY <1>5, <2>3 DEF Remember, Worth
    <3>2. /\ status' \in RunStatus /\ status' \in Good
          /\ status' = "completed" => memory' = "history" /\ status = "completed"
      BY <2>1, <3>1, Lowered
    <3>3. QED
      BY <2>1, <2>2, <3>1, <3>2 DEF OutcomeSound, Whole
  <2>4. CASE ~Worth
    <3>1. UNCHANGED <<memory, status>>
      BY <1>5, <2>4 DEF Remember
    <3>2. status # "completed"
      BY <2>2, <2>4 DEF Worth, Whole, Required, Kept, Good
    <3>3. QED
      BY <2>1, <2>2, <3>1, <3>2 DEF OutcomeSound, Whole
  <2>5. QED
    BY <2>3, <2>4
<1>6. CASE Record
  <2>1. /\ at = "record" /\ at' = "complete" /\ UNCHANGED <<steps, memory, store>>
        /\ \/ record' = status /\ status' = status
           \/ status' = Combined({status, "partial"}) /\ record' = record
    BY <1>6 DEF Record
  <2>2. status \in RunStatus /\ ~store.result /\ record = "none"
    BY <2>1 DEF OutcomeSound
  <2>3. /\ status' \in RunStatus /\ (status' \in Good) = (status \in Good)
        /\ status' = "completed" => status = "completed" /\ record' = "completed"
        /\ record' \in {"none", status'}
    BY <2>1, <2>2, Lowered
  <2>4. QED
    BY <2>1, <2>2, <2>3 DEF OutcomeSound, Whole
<1>7. CASE Complete
  <2>1. at = "complete" /\ UNCHANGED <<steps, status, memory, record>>
    BY <1>7 DEF Complete
  <2>2. \/ at' = "raised" /\ UNCHANGED store
        \/ at' = "done" /\ store' = [status |-> status, result |-> TRUE]
    BY <1>7 DEF Complete
  <2>3. ~store.result
    BY <2>1 DEF OutcomeSound
  <2>4. QED
    BY <2>1, <2>2, <2>3 DEF OutcomeSound, Whole
<1>8. CASE Crash
  <2>1. /\ store' = NoRow /\ UNCHANGED <<steps, status, memory, record>>
        /\ (at' = at /\ at \in {"idle", "done", "raised"}) \/ at' = "gone"
    BY <1>8 DEF Crash
  <2>2. QED
    BY <2>1 DEF OutcomeSound, Whole, NoRow
<1>9. CASE UNCHANGED serverVars
  BY <1>9 DEF serverVars, OutcomeSound, Whole
<1>10. CASE Drop
  <2>1. at = "working" /\ at' = "gone" /\ UNCHANGED <<steps, status, memory, record, store>>
    BY <1>10 DEF Drop, AtYield
  <2>2. QED
    BY <2>1 DEF OutcomeSound, Whole
<1>11. ASSUME NEW w \in Workers, Work(w) \/ SkipOrm PROVE OutcomeSound'
  <2>1. at = "working" /\ at' = "working" /\ UNCHANGED <<status, memory, record, store>>
    BY <1>11 DEF Work, SkipOrm, Ready
  <2>2. QED
    BY <1>2, <2>1
<1>12. "orm" \in Workers
  BY DEF Workers
<1>13. QED
  BY <1>1, <1>3, <1>4, <1>5, <1>6, <1>7, <1>8, <1>9, <1>10, <1>11, <1>12
  DEF Next, Call, Stream, Serve, WorkLine, SkipOrmLine, Ending, Ends, Closes, Restart, Cut, Follow,
      ReadLine, ReadEnd, FetchExistingRun, vars

(* Both facts hold in every state: each step above keeps them. *)
LEMMA SoundAlways == Spec => [](StepsSound /\ OutcomeSound)
<1>1. Init => StepsSound
  BY DEF Init, LegacyInit, StepsSound, StepStatus, Workers, Required
<1>2. Init => OutcomeSound
  BY DEF Init, LegacyInit, OutcomeSound, NoRow
<1>3. QED
  BY <1>1, <1>2, StepsStep, OutcomeStep, PTL DEF Spec

(* "completed" means the whole of the work, stored everywhere, whatever the  *)
(* workers say and wherever the process dies or the stream breaks off        *)
(* (workflow/statuses.py, reduce_run_status; orchestrator.py, run).          *)
THEOREM SuccessWhole == Spec => []SuccessIsWhole
<1>1. OutcomeSound => SuccessIsWhole
  BY DEF OutcomeSound, SuccessIsWhole, Whole
<1>2. QED
  BY <1>1, SoundAlways, PTL

(* Memory, monitor and run store never disagree about a run that ended.      *)
THEOREM KeptAgree == Spec => []KeptOutcomesAgree
<1>1. OutcomeSound => KeptOutcomesAgree
  BY DEF OutcomeSound, KeptOutcomesAgree
<1>2. QED
  BY <1>1, SoundAlways, PTL

-----------------------------------------------------------------------------
(* The lines of a response. *)
Lines == [type: LineType, worker: Workers \cup {Nothing},
          status: WorkerStatus \cup RunStatus \cup {"running", "skipped"}]

(* What is known of the lines that the tab has not read, and of what it shows. *)
LineTells(line) ==
  /\ line.type = "node_complete" => /\ line.worker \in Workers /\ line.status = steps[line.worker]
                                    /\ line.status # "none"
  /\ line.type = "complete" => at = "done" /\ line.status = status
TabSound ==
  /\ \A i \in DOMAIN lines: LineTells(lines[i])
  /\ tab.data # Nothing => at = "done" /\ tab.data = status
  /\ tab.at = "shown" => tab.data \in Good
  /\ \A w \in Workers: seen[w] \in {"none", steps[w]}

(* Lines are put behind the others, as far as they are put at all. *)
LEMMA EmitsLines ==
  ASSUME NEW new \in Seq(Lines), lines \in Seq(Lines), Emits(new)
  PROVE  /\ lines' \in Seq(Lines)
         /\ \A i \in DOMAIN lines': \/ i \in DOMAIN lines /\ lines'[i] = lines[i]
                                    \/ \E j \in DOMAIN new: lines'[i] = new[j]
<1>1. CASE lines' = lines
  BY <1>1
<1>2. CASE lines' = lines \o new
  <2>1. lines' \in Seq(Lines)
    BY <1>2
  <2>2. ASSUME NEW i \in DOMAIN lines'
        PROVE  \/ i \in DOMAIN lines /\ lines'[i] = lines[i]
               \/ \E j \in DOMAIN new: lines'[i] = new[j]
    <3>1. i \in 1 .. Len(lines) + Len(new)
      BY <1>2, <2>2
    <3>2. CASE i <= Len(lines)
      BY <1>2, <3>1, <3>2
    <3>3. CASE i > Len(lines)
      <4>1. i - Len(lines) \in DOMAIN new /\ lines'[i] = new[i - Len(lines)]
        BY <1>2, <3>1, <3>3
      <4>2. QED
        BY <4>1
    <3>4. QED
      BY <3>1, <3>2, <3>3
  <2>3. QED
    BY <2>1, <2>2
<1>3. QED
  BY <1>1, <1>2 DEF Emits

(* A worker's lines tell the status that its step has now. *)
LEMMA StepLinesTell ==
  ASSUME StepsSound', NEW w \in Workers
  PROVE  /\ StepLines(w) \in Seq(Lines)
         /\ \A j \in DOMAIN StepLines(w): LET line == StepLines(w)[j] IN
              /\ line.type = "node_complete" /\ line.worker \in Workers
              /\ line.status = steps'[line.worker] /\ line.status # "none"
<1> DEFINE together == Superstep(w)
<1>1. together \in Seq(Workers)
  <2>1. "column" \in Workers /\ "name" \in Workers
    BY DEF Workers, Required
  <2>2. <<"column", "name">> \in Seq(Workers) /\ <<w>> \in Seq(Workers)
    BY <2>1
  <2>3. QED
    BY <2>2 DEF Superstep
<1>2. CASE engine = "graph" /\ \A i \in DOMAIN together: steps'[together[i]] # "none"
  <2>1. StepLines(w) = [i \in DOMAIN together |-> Line("node_complete", together[i], steps'[together[i]])]
    BY <1>2 DEF StepLines
  <2>2. \A i \in DOMAIN together: together[i] \in Workers /\ steps'[together[i]] \in StepStatus \ {"none"}
    BY <1>1, <1>2 DEF StepsSound
  <2>3. \A i \in DOMAIN together: Line("node_complete", together[i], steps'[together[i]]) \in Lines
    BY <2>2 DEF Line, Lines, LineType, StepStatus
  <2>4. DOMAIN together = 1 .. Len(together) /\ Len(together) \in Nat
    BY <1>1
  <2>5. StepLines(w) \in Seq(Lines)
    <3> HIDE DEF together
    <3>1. [i \in 1 .. Len(together) |-> Line("node_complete", together[i], steps'[together[i]])] \in Seq(Lines)
      BY <2>3, <2>4
    <3>2. QED
      BY <2>1, <2>4, <3>1
  <2>6. \A j \in DOMAIN StepLines(w): LET line == StepLines(w)[j] IN
              /\ line.type = "node_complete" /\ line.worker \in Workers
              /\ line.status = steps'[line.worker] /\ line.status # "none"
    BY <2>1, <2>2 DEF Line
  <2>7. QED
    BY <2>5, <2>6
<1>3. CASE ~(engine = "graph" /\ \A i \in DOMAIN together: steps'[together[i]] # "none")
  BY <1>3 DEF StepLines
<1>4. QED
  BY <1>2, <1>3

(* Every variable keeps to its domain. *)
LEMMA TypeStep ==
  ASSUME LegacyTypeOK, StepsSound, StepsSound', OutcomeSound, TabSound, [Next]_vars
  PROVE  LegacyTypeOK'
<1> USE DEF LegacyTypeOK
<1>1. /\ lines \in Seq(Lines)
      /\ Lines = [type: LineType, worker: Workers \cup {Nothing},
                  status: WorkerStatus \cup RunStatus \cup {"running", "skipped"}]
  BY DEF Lines
<1>2. steps' \in [Workers -> WorkerStatus \cup {"none", "skipped"}] /\ engine' \in {"manual", "graph"}
  BY DEF StepsSound, StepStatus
<1>3. ASSUME NEW how \in {"call", "stream"}, NEW which \in Engines, Begin(how, which),
             wire' \in {"none", "open", "closed", "broken"},
             tab' \in [at: {"idle", "reading", "fetching", "shown", "failed"},
                       data: RunStatus \cup {Nothing}], seen' = seen, lines' \in Seq(Lines)
      PROVE  LegacyTypeOK'
  BY <1>1, <1>2, <1>3 DEF Begin
<1>4. ASSUME NEW which \in Engines, Call(which) PROVE LegacyTypeOK'
  BY <1>1, <1>3, <1>4 DEF Call, tabVars
<1>5. ASSUME NEW which \in Engines, Stream(which) PROVE LegacyTypeOK'
  <2>1. Line("started", Nothing, "running") \in Lines
    BY DEF Line, Lines, LineType
  <2>2. <<Line("started", Nothing, "running")>> \in Seq(Lines)
    BY <2>1
  <2>3. QED
    BY <1>1, <1>3, <1>5, <2>2 DEF Stream
<1>6. ASSUME NEW w \in Workers, WorkLine(w) PROVE LegacyTypeOK'
  <2>1. lines' \in Seq(Lines)
    BY <1>1, <1>6, StepLinesTell, EmitsLines DEF WorkLine
  <2>2. QED
    BY <1>1, <1>2, <1>6, <2>1 DEF WorkLine, Work
<1>7. CASE SkipOrmLine
  <2>1. lines' \in Seq(Lines)
    BY <1>1, <1>7, StepLinesTell, EmitsLines DEF SkipOrmLine, Workers
  <2>2. QED
    BY <1>1, <1>2, <1>7, <2>1 DEF SkipOrmLine, SkipOrm
<1>8. CASE Reduce /\ UNCHANGED tabVars
  BY <1>1, <1>2, <1>8, OutcomeSays DEF Reduce, tabVars
<1>9. CASE Break /\ UNCHANGED tabVars
  BY <1>1, <1>2, <1>9 DEF Break, tabVars, RunStatus, Priority
<1>10. CASE Remember /\ UNCHANGED tabVars
  <2>1. status \in RunStatus
    BY <1>10 DEF Remember, OutcomeSound
  <2>2. status' \in RunStatus /\ memory' \in {"none", "relations", "history"}
    BY <1>10, <2>1, Lowered DEF Remember
  <2>3. QED
    BY <1>1, <1>2, <1>10, <2>2 DEF Remember, tabVars
<1>11. CASE Record /\ UNCHANGED tabVars
  <2>1. status \in RunStatus
    BY <1>11 DEF Record, OutcomeSound
  <2>2. status' \in RunStatus /\ record' \in RunStatus \cup {"none"}
    BY <1>11, <2>1, Lowered DEF Record
  <2>3. QED
    BY <1>1, <1>2, <1>11, <2>2 DEF Record, tabVars
<1>12. CASE Ends
  <2>1. status \in RunStatus
    BY <1>12 DEF Ends, Complete, OutcomeSound
  <2>2. /\ Line("complete", Nothing, status) \in Lines
        /\ Line("error", Nothing, "failed") \in Lines
    BY <2>1 DEF Line, Lines, LineType, RunStatus, Priority
  <2>3. <<Line("complete", Nothing, status)>> \in Seq(Lines) /\ <<Line("error", Nothing, "failed")>> \in Seq(Lines)
    BY <2>2
  <2>4. lines' \in Seq(Lines) /\ wire' \in {"none", "open", "closed", "broken"}
    <3>1. CASE at' = "raised"
      BY <1>1, <1>12, <3>1 DEF Ends
    <3>2. CASE at' # "raised" /\ Broke /\ at' = "done"
      BY <1>1, <1>12, <2>3, <3>2, EmitsLines DEF Ends
    <3>3. CASE at' # "raised" /\ ~(Broke /\ at' = "done")
      BY <1>1, <1>12, <2>3, <3>3, EmitsLines DEF Ends
    <3>4. QED
      BY <3>1, <3>2, <3>3
  <2>5. /\ at' \in {"raised", "done"} /\ store' \in {store, [status |-> status, result |-> TRUE]}
        /\ UNCHANGED <<request, engine, steps, status, memory, record, crashes, tab, seen>>
    BY <1>12 DEF Ends, Complete
  <2>6. store' \in [status: RunStatus \cup {"none", "running"}, result: BOOLEAN]
    <3>1. [status |-> status, result |-> TRUE] \in [status: RunStatus \cup {"none", "running"}, result: BOOLEAN]
      BY <2>1
    <3>2. QED
      BY <2>5, <3>1
  <2>7. QED
    BY <1>1, <1>2, <2>1, <2>4, <2>5, <2>6
<1>13. CASE Closes
  BY <1>1, <1>2, <1>13 DEF Closes, serverVars
<1>14. CASE Drop
  BY <1>1, <1>2, <1>14 DEF Drop, tabVars
<1>15. CASE Restart
  <2>1. lines' \in Seq(Lines)
    BY <1>1, <1>15 DEF Restart
  <2>2. crashes' \in 0 .. MaxCrashes
    BY <1>15, LegacyAssumption DEF Restart, Crash
  <2>3. QED
    BY <1>1, <1>2, <1>15, <2>1, <2>2 DEF Restart, Crash, NoRow
<1>16. CASE Cut
  <2>1. lines' \in Seq(Lines)
    BY <1>16 DEF Cut
  <2>2. QED
    BY <1>1, <1>2, <1>16, <2>1 DEF Cut, serverVars
<1>17. CASE ReadLine
  <2> DEFINE line == Head(lines)
  <2>1. lines' \in Seq(Lines) /\ line \in Lines /\ 1 \in DOMAIN lines /\ line = lines[1]
    <3>1. lines \in Seq(Lines) /\ lines # <<>> /\ lines' = Tail(lines)
      BY <1>1, <1>17 DEF ReadLine
    <3>2. Head(lines) \in Lines /\ Tail(lines) \in Seq(Lines)
      BY <3>1, HeadTailProperties
    <3>3. 1 \in DOMAIN lines /\ Head(lines) = lines[1]
      BY <3>1
    <3>4. QED
      BY <3>1, <3>2, <3>3
  <2>2. LineTells(line) /\ UNCHANGED <<serverVars, wire>>
    BY <1>17, <2>1 DEF TabSound, ReadLine
  <2>3. seen' \in [Workers -> StepStatus]
    <3>1. \/ seen' = seen
          \/ line.type = "node_complete" /\ seen' = [seen EXCEPT ![line.worker] = line.status]
      BY <1>17 DEF ReadLine
    <3>2. line.type = "node_complete" => line.worker \in Workers /\ line.status \in StepStatus
      BY <2>2 DEF LineTells, StepsSound
    <3>3. QED
      BY <3>1, <3>2 DEF StepStatus
  <2>4. tab' \in [at: {"idle", "reading", "fetching", "shown", "failed"}, data: RunStatus \cup {Nothing}]
    <3>1. \/ tab' = tab
          \/ line.type = "complete" /\ tab' = [tab EXCEPT !.data = line.status]
          \/ tab' = [tab EXCEPT !.at = "failed"]
      BY <1>17 DEF ReadLine
    <3>2. line.type = "complete" => line.status \in RunStatus
      BY <2>2 DEF LineTells, OutcomeSound
    <3>3. QED
      BY <3>1, <3>2
  <2>5. QED
    BY <1>1, <1>2, <2>1, <2>2, <2>3, <2>4 DEF serverVars, StepStatus
<1>18. CASE ReadEnd
  BY <1>1, <1>2, <1>18 DEF ReadEnd, serverVars
<1>19. CASE FetchExistingRun
  BY <1>1, <1>2, <1>19 DEF FetchExistingRun, Fetched, Good, RunStatus, Priority, serverVars
<1>20. CASE UNCHANGED vars
  BY <1>1, <1>2, <1>20 DEF vars, serverVars, tabVars
<1>21. QED
  BY <1>4, <1>5, <1>6, <1>7, <1>8, <1>9, <1>10, <1>11, <1>12, <1>13, <1>14, <1>15, <1>16, <1>17,
     <1>18, <1>19, <1>20 DEF Next, Serve, Ending, Follow

(* The lines and the tab keep to what the run has come to. *)
LEMMA TabStep ==
  ASSUME LegacyTypeOK, StepsSound, StepsSound', OutcomeSound, TabSound, [Next]_vars
  PROVE  TabSound'
<1>1. /\ lines \in Seq(Lines)
      /\ tab \in [at: {"idle", "reading", "fetching", "shown", "failed"},
                  data: RunStatus \cup {Nothing}]
      /\ seen \in [Workers -> StepStatus]
  BY DEF LegacyTypeOK, Lines, StepStatus
\* What is told stays true while steps are only added and the outcome stands.
<1>2. ASSUME \A w \in Workers: steps[w] # "none" => steps'[w] = steps[w],
             at = "done" => at' = "done" /\ status' = status
      PROVE  /\ \A i \in DOMAIN lines: LineTells(lines[i]) /\ (\A line: LineTells(line) => LineTells(line)')
             /\ tab.data # Nothing => at' = "done" /\ tab.data = status'
             /\ \A w \in Workers: seen[w] \in {"none", steps'[w]}
  <2>1. \A line: LineTells(line) => LineTells(line)'
    BY <1>2 DEF LineTells
  <2>2. QED
    BY <1>2, <2>1 DEF TabSound
\* So a step that adds no untrue line and leaves the tab alone keeps everything.
<1>3. ASSUME \A w \in Workers: steps[w] # "none" => steps'[w] = steps[w],
             at = "done" => at' = "done" /\ status' = status,
             UNCHANGED <<tab, seen>>,
             \A i \in DOMAIN lines': \/ i \in DOMAIN lines /\ lines'[i] = lines[i]
                                     \/ \A line: line = lines'[i] => LineTells(line)'
      PROVE  TabSound'
  BY <1>2, <1>3 DEF TabSound
<1>4. ASSUME NEW which \in Engines, Call(which) \/ Stream(which) PROVE TabSound'
  <2>1. steps' = steps /\ at # "done"
    BY <1>4 DEF Call, Stream, Begin
  <2>2. CASE Call(which)
    BY <1>3, <2>1, <2>2 DEF Call, tabVars
  <2>3. CASE Stream(which)
    <3>1. lines' = <<Line("started", Nothing, "running")>> /\ tab' = [tab EXCEPT !.at = "reading"] /\ seen' = seen
      BY <2>3 DEF Stream
    <3>2. \A i \in DOMAIN lines': lines'[i].type = "started"
      BY <3>1 DEF Line
    <3>3. \A i \in DOMAIN lines': LineTells(lines[i])'
      BY <3>2 DEF LineTells
    <3>4. QED
      BY <1>1, <1>2, <2>1, <3>1, <3>3 DEF TabSound
  <2>4. QED
    BY <1>4, <2>2, <2>3
<1>5. ASSUME NEW w \in Workers, WorkLine(w) \/ (SkipOrmLine /\ w = "orm") PROVE TabSound'
  <2>1. steps[w] = "none" /\ at = "working"
    BY <1>5 DEF WorkLine, Work, SkipOrmLine, SkipOrm, Ready
  <2>2. \A v \in Workers: steps[v] # "none" => steps'[v] = steps[v]
    BY <1>5, <2>1 DEF WorkLine, Work, SkipOrmLine, SkipOrm, StepsSound
  <2>3. Emits(StepLines(w)) /\ UNCHANGED <<tab, seen>>
    BY <1>5 DEF WorkLine, SkipOrmLine
  <2>4. \A i \in DOMAIN lines': \/ i \in DOMAIN lines /\ lines'[i] = lines[i]
                               \/ \E j \in DOMAIN StepLines(w): lines'[i] = StepLines(w)[j]
    BY <1>1, <2>3, StepLinesTell, EmitsLines
  <2>5. ASSUME NEW line, NEW j \in DOMAIN StepLines(w), line = StepLines(w)[j] PROVE LineTells(line)'
    BY <2>5, StepLinesTell DEF LineTells
  <2>6. QED
    BY <1>3, <2>1, <2>2, <2>3, <2>4, <2>5
<1>6. CASE Ending /\ UNCHANGED tabVars
  <2>1. steps' = steps /\ at # "done" /\ UNCHANGED <<lines, tab, seen>>
    BY <1>6 DEF Ending, Reduce, Break, Remember, Record, tabVars
  <2>2. QED
    BY <1>3, <2>1
<1>7. CASE Ends
  <2>1. steps' = steps /\ status' = status /\ at = "complete" /\ UNCHANGED <<tab, seen>>
    BY <1>7 DEF Ends, Complete
  <2>2. CASE lines' = lines
    BY <1>3, <2>1, <2>2
  <2>3. ASSUME NEW l \in Lines, Emits(<<l>>), LineTells(l)' PROVE TabSound'
    <3>1. <<l>> \in Seq(Lines) /\ DOMAIN <<l>> = {1} /\ <<l>>[1] = l
      OBVIOUS
    <3>2. \A i \in DOMAIN lines': \/ i \in DOMAIN lines /\ lines'[i] = lines[i]
                                 \/ lines'[i] = l
      BY <1>1, <2>3, <3>1, EmitsLines
    <3>3. QED
      BY <1>3, <2>1, <2>3, <3>2
  <2>4. CASE at' = "raised"
    BY <1>7, <2>2, <2>4 DEF Ends
  <2>5. CASE Broke /\ at' = "done"
    <3>1. Line("error", Nothing, "failed") \in Lines /\ LineTells(Line("error", Nothing, "failed"))'
      BY DEF Line, Lines, LineType, LineTells, RunStatus, Priority
    <3>2. Emits(<<Line("error", Nothing, "failed")>>)
      BY <1>7, <2>5 DEF Ends
    <3>3. QED
      BY <2>3, <3>1, <3>2
  <2>6. CASE at' # "raised" /\ ~(Broke /\ at' = "done")
    <3>1. at' = "done" /\ status \in RunStatus
      BY <1>7, <2>6 DEF Ends, Complete, OutcomeSound
    <3>2. Line("complete", Nothing, status) \in Lines
      BY <3>1 DEF Line, Lines, LineType
    <3>3. Emits(<<Line("complete", Nothing, status)>>)
      BY <1>7, <2>6 DEF Ends
    <3>4. ASSUME NEW l, l = Line("complete", Nothing, status) PROVE LineTells(l)'
      BY <2>1, <3>1, <3>4 DEF LineTells, Line
    <3>5. QED
      BY <2>3, <3>2, <3>3, <3>4
  <2>7. QED
    BY <2>4, <2>5, <2>6
<1>8. CASE Closes \/ Drop
  <2>1. steps' = steps /\ (at = "done" => at' = "done" /\ status' = status) /\ UNCHANGED <<lines, tab, seen>>
    BY <1>8 DEF Closes, Drop, AtYield, serverVars, tabVars
  <2>2. QED
    BY <1>3, <2>1
<1>9. CASE Restart \/ Cut
  <2>1. steps' = steps /\ (at = "done" => at' = "done" /\ status' = status) /\ UNCHANGED <<tab, seen>>
    BY <1>9 DEF Restart, Crash, Cut, serverVars
  <2>2. lines' = lines \/ lines' = <<>>
    BY <1>9 DEF Restart, Cut
  <2>3. QED
    BY <1>3, <2>1, <2>2
<1>10. CASE ReadLine
  <2> DEFINE line == Head(lines)
  <2>1. /\ line = lines[1] /\ 1 \in DOMAIN lines
        /\ \A i \in DOMAIN lines': i+1 \in DOMAIN lines /\ lines'[i] = lines[i+1]
    BY <1>1, <1>10, HeadTailProperties DEF ReadLine
  <2>2. steps' = steps /\ (at = "done" => at' = "done" /\ status' = status)
    BY <1>10 DEF ReadLine, serverVars
  <2>3. \A i \in DOMAIN lines': LineTells(lines[i])'
    BY <1>2, <2>1, <2>2
  <2>4. \A l: l = line => LineTells(l)'
    BY <1>2, <2>1, <2>2
  <2>5. (tab'.data # Nothing => at' = "done" /\ tab'.data = status') /\ (tab'.at = "shown" => tab'.data \in Good)
    BY <1>1, <1>2, <1>10, <2>2, <2>4 DEF ReadLine, LineTells, TabSound
  <2>6. \A w \in Workers: seen'[w] \in {"none", steps'[w]}
    BY <1>1, <1>2, <1>10, <2>2, <2>4 DEF ReadLine, LineTells, TabSound
  <2>7. QED
    BY <2>3, <2>5, <2>6 DEF TabSound
<1>11. CASE ReadEnd \/ FetchExistingRun
  <2>1. steps' = steps /\ at' = at /\ status' = status /\ UNCHANGED <<lines, seen>>
    BY <1>11 DEF ReadEnd, FetchExistingRun, serverVars
  <2>2. (tab'.data # Nothing => at' = "done" /\ tab'.data = status') /\ (tab'.at = "shown" => tab'.data \in Good)
    <3>1. CASE ReadEnd
      BY <1>1, <1>2, <2>1, <3>1 DEF ReadEnd, TabSound
    <3>2. CASE FetchExistingRun
      BY <1>1, <1>2, <2>1, <3>2 DEF FetchExistingRun, Fetched, TabSound, OutcomeSound, Good, Nothing
    <3>3. QED
      BY <1>11, <3>1, <3>2
  <2>3. \A i \in DOMAIN lines': LineTells(lines[i])'
    BY <1>2, <2>1
  <2>4. QED
    BY <1>2, <2>1, <2>2, <2>3 DEF TabSound
<1>12. CASE UNCHANGED vars
  BY <1>3, <1>12 DEF vars, serverVars, tabVars
<1>13. "orm" \in Workers
  BY DEF Workers
<1>14. QED
  BY <1>4, <1>5, <1>6, <1>7, <1>8, <1>9, <1>10, <1>11, <1>12, <1>13 DEF Next, Serve, Follow

(* Every variable keeps to its domain, and the tab to the run.               *)
LEMMA TabAlways == Spec => [](LegacyTypeOK /\ StepsSound /\ OutcomeSound /\ TabSound)
<1>1. Init => LegacyTypeOK
  BY LegacyAssumption DEF Init, LegacyInit, LegacyTypeOK, NoRow, Workers, Nothing
<1>2. Init => TabSound
  BY DEF Init, LegacyInit, TabSound
<1>3. Spec => [](StepsSound /\ OutcomeSound)
  BY SoundAlways
<1>4. QED
  BY <1>1, <1>2, <1>3, StepsStep, TypeStep, TabStep, PTL DEF Spec

(* The type invariant of the legacy engines and of the tab.                  *)
THEOREM LegacyTypes == Spec => []LegacyTypeOK
BY TabAlways, PTL

(* What the tab shows is what the run came to: relations only of a run whose *)
(* required workers all gave a result, under the status that the monitor has *)
(* if it has one, and steps as they ended, however lines are lost, the       *)
(* process restarts or the tab has to ask again (useAnalysis.ts).            *)
THEOREM TabTellsTheOutcome == Spec => []TabShowsTheOutcome
<1>1. LegacyTypeOK /\ OutcomeSound /\ TabSound => TabShowsTheOutcome
  BY DEF LegacyTypeOK, OutcomeSound, TabSound, TabShowsTheOutcome, Good, Nothing
<1>2. QED
  BY <1>1, TabAlways, PTL
=============================================================================
