----------------------- MODULE RecoveryRunProperties -----------------------
(***************************************************************************)
(* What a recovery run must guarantee, over the complete model of one run. *)
(***************************************************************************)
EXTENDS RecoveryRun

(* Every variable keeps to its domain. *)
TypeOK ==
  /\ run \in Row
  /\ ctl \in [{"review"} \cup Resumer \cup Canceller ->
              {"none", "pending", "resolved", "expired"}]
  /\ exec \in [Unit -> [st : {"none", "running"} \cup StageStatus, in : Input,
                        res : Result]]
  /\ log \in Seq(Status)
  /\ lapsed \in BOOLEAN
  /\ pc \in [Task -> Pc]
  /\ mem \in [Task -> Row]
  /\ node \in [Task -> StageNode]
  /\ why \in [Task -> {"none", "lock", "infra", "other"}]
  /\ DOMAIN call \subseteq CallId /\ call \in [DOMAIN call -> Call]
  /\ token \in BOOLEAN /\ compatible \in BOOLEAN
  /\ crashes \in Nat /\ executes \in Nat
  /\ tries \in [Resumer \cup Canceller -> Nat]
  /\ wins \in [Unit -> Nat]

-----------------------------------------------------------------------------
(* Optimistic locking: the version identifies the row.  A copy that could  *)
(* still be written back is the row itself, so no write of one request ever *)
(* undoes what another one has written.                                    *)
CopiesAreTheRow ==
  \A t \in Task : /\ mem[t].version <= run.version
                  /\ mem[t].version = run.version => mem[t] = run

(* Consequence over steps: a recorded cancellation, decision, takeover or  *)
(* finished unit is never lost from the row, whoever writes it next and    *)
(* however old the copy it worked on.                                      *)
NothingLost ==
  [][/\ run.cancelReq => run'.cancelReq
     /\ run.decisions \subseteq run'.decisions
     /\ run.done \subseteq run'.done
     /\ run.fallbacks <= run'.fallbacks
     /\ run.version <= run'.version]_vars

(* The run keeps the lifecycle: its status walks the graph, terminal is    *)
(* final, only a decision leads from the review back to work, whichever    *)
(* engine, request or failure handler writes it.  Under the manual engine  *)
(* there is one decision.  The graph replays its interrupt node for a late  *)
(* resume request and puts a decided run to review again; then, unless the *)
(* manual engine has taken over, only the same request can decide it.      *)
Life == INSTANCE RunLifecycle
          WITH status <- run.status, decisions <- run.decisions,
               cancelled <- run.cancelReq, Reviewer <- Resumer,
               OneReview <- FirstEngine = "manual",
               OneVoice <- FirstEngine = "manual" \/ ~AutoFallback
LifecycleSpec == Life!Spec

(* "completed" is earned: the survey, the fan-out and the merge of this run *)
(* completed, nothing but a memory stage ended badly, nothing at all is    *)
(* degraded, and there is a result to show.                                *)
CompletedIsEarned ==
  run.status = "completed" =>
    /\ run.result /\ HasMerge(run)
    /\ \A w \in FanOut \cup {"survey", "merge"} :
         \E d \in run.done : d[1][1] = w /\ d[2] = "completed"
    /\ \A d \in run.done :
         d[2] = "completed" \/ (d[1][1] \in Memory /\ d[2] # "degraded")

(* What a request was told is so: a cancel request that was answered has   *)
(* ended the run, and a resume request is acknowledged only once a decision *)
(* is on record.                                                           *)
AckedIsDone ==
  /\ \A c \in Canceller : ctl[c] = "resolved" => run.status \in Terminal
  /\ \A r \in Resumer : ctl[r] = "resolved" => run.decisions # {}

(* A cancel request on record is never followed by a successful end. *)
CancelledNeverCompletes ==
  run.cancelReq => run.status \notin {"completed", "partial", "degraded"}

(* The event stream tells the truth: each terminal event names the status  *)
(* the row has, and with one process watchers see at most one of them.     *)
StreamIsTruthful ==
  /\ \A i \in 1 .. Len(log) : log[i] = run.status
  /\ OneLoop => Len(log) <= 1

(* A success on record is final: whatever is replayed, by a restart, a      *)
(* takeover or a second request, the stage does not do its work again and   *)
(* its record is not overwritten.                                          *)
SuccessIsReplayed ==
  [][\A u \in Unit : exec[u].st \in Good =>
       wins'[u] = wins[u] /\ exec'[u] = exec[u]]_vars

(* A stage is idempotent to the run: it does its work successfully once.    *)
StageSucceedsOnce == \A u \in Unit : wins[u] <= 1

(* The manual engine takes over between stages: when the row changes hands *)
(* no stage coroutine is at work, whoever awaits it, but one that repeats a *)
(* stage after a failure, whose record still names that failure.           *)
TakeoverIsQuiet ==
  [][run'.engine # run.engine =>
       \A c \in DOMAIN call :
         call[c].st = "running" => exec[c[2]].st \in StageStatus \ Good]_vars

(* No resume request leaves a run that no request drives. *)
ResumeLeavesItSettled ==
  [][\A r \in Resumer :
       (pc[r] # "idle" /\ pc'[r] = "idle" /\ crashes' = crashes) =>
         \/ run'.status \notin {"queued", "running"}
         \/ \E t \in Driver \ {r} : pc[t] # "idle"]_vars

(* Evidence the critic asked for was collected before the run completed. *)
RequestedEvidenceCollected ==
  run.status = "completed" =>
    \A k \in 1 .. run.round : DoneUnit(run, <<"evidence", k>>)

(* It was, wherever no crash and no takeover came in between, in one        *)
(* process: the last round that the limit allows is served like the others. *)
UninterruptedEvidenceCollected ==
  OneLoop /\ crashes = 0 /\ run.fallbacks = 0 => RequestedEvidenceCollected

(* A run executed again never meets its own earlier stages as a conflict.  *)
NoSelfConflict == \A c \in DOMAIN call : call[c].res.code # "input_conflict"

-----------------------------------------------------------------------------
(* Once POST /runs has begun, it answers, and the run it leaves rests: it  *)
(* ended, waits for a reviewer, or a reviewer's request drives it.         *)
ExecuteSettles ==
  (pc["exec"] # "idle") ~>
    /\ pc["exec"] = "idle"
    /\ \/ run.status \notin {"queued", "running"}
       \/ \E r \in Resumer : pc[r] # "idle"

(* A recorded cancellation ends the run.  Only a review can save it: the    *)
(* graph's interrupt node, in its thread, may pause or resume the run while *)
(* cancel holds the loop.  Then the caller has an OptimisticLockError, never *)
(* an acknowledgement.                                                     *)
CancelEnds ==
  run.cancelReq ~> \/ run.status \in Terminal
                   \/ /\ run.interrupt \/ run.decisions # {}
                      /\ \A c \in Canceller : pc[c] = "idle" /\ ctl[c] = "pending"
=============================================================================
