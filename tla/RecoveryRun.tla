---------------------------- MODULE RecoveryRun ----------------------------
(***************************************************************************)
(* The run service on top of the engines (services/recovery_run_service.py *)
(* execute, resume, cancel and the failure handler) and the takeover of a  *)
(* run by the manual engine (engines/fallback.py), with the restarts and   *)
(* the clock they live with.  Spec is the complete life of one run.        *)
(***************************************************************************)
EXTENDS RecoveryEngine

(* What a step of the service leaves alone *)
engines == <<exec, node, call, wins>>
quiet == <<engines, lapsed, token, compatible, bounded>>

Init ==
  /\ run = NewRow
  /\ ctl = [i \in {"review"} \cup Resumer \cup Canceller |-> "none"]
  /\ exec = [u \in Unit |-> [st |-> "none", in |-> NoInput, res |-> NoResult]]
  /\ log = <<>>
  /\ lapsed = FALSE
  /\ pc = [t \in Task |-> "idle"]
  /\ mem = [t \in Task |-> NoCopy]
  /\ node = [t \in Task |-> "survey"]
  /\ why = [t \in Task |-> "none"]
  /\ call = [c \in {} |-> NoResult]
  /\ token = FALSE
  /\ compatible = TRUE
  /\ crashes = 0 /\ executes = 0
  /\ tries = [t \in Resumer \cup Canceller |-> 0]
  /\ wins = [u \in Unit |-> 0]

Load(t) == mem' = [mem EXCEPT ![t] = run]

-----------------------------------------------------------------------------
(* execute *)

(* POST /runs executes the run it created; an operator may execute again a *)
(* run that a restart or a failed request left running and nobody drives.  *)
Execute ==
  /\ \A t \in Driver : pc[t] = "idle"
  /\ MayStep("exec")
  /\ run.status \in {"queued", "running"}
  /\ executes < MaxExecutes
  /\ executes' = executes + 1
  /\ Load("exec")
  /\ Goto("exec", IF compatible THEN "enter" ELSE "incompatible")
  /\ UNCHANGED <<run, ctl, log, why, engines, lapsed, token, compatible,
                 crashes, tries>>

(* _settled_state: the engine returned, the row says what came of it.       *)
Settle ==
  /\ pc["exec"] = "return" /\ MayStep("exec")
  /\ \/ /\ run.status \in {"queued", "running"}
        /\ Goto("exec", "raised")
        /\ why' = [why EXCEPT !["exec"] = "infra"]
        /\ UNCHANGED mem
     \/ /\ run.status \notin {"queued", "running"}
        /\ Answer("exec")
  /\ UNCHANGED <<run, ctl, log, quiet>>

(* _may_fallback and the infrastructure test *)
MayFallBack ==
  /\ AutoFallback /\ run.engine = "langgraph" /\ run.status \notin Terminal
  /\ why["exec"] = "infra"

(* mutant: nobody looks for running stages *)
NothingInFlightAssumed == TRUE

NothingInFlight == \A u \in Unit : exec[u].st # "running"

(* FallbackCoordinator.takeover, then a new bundle runs the manual engine.  *)
Takeover ==
  /\ pc["exec"] = "raised" /\ MayStep("exec")
  /\ MayFallBack
  /\ run.fallbacks < MaxFallbacks
  /\ NothingInFlight
  /\ run' = Bump([run EXCEPT !.engine = "manual", !.fallbacks = @ + 1])
  /\ mem' = [mem EXCEPT !["exec"] = run']
  /\ Goto("exec", "enter")
  /\ why' = [why EXCEPT !["exec"] = "none"]
  /\ token' = FALSE
  /\ UNCHANGED <<ctl, log, engines, lapsed, compatible, bounded>>

(* mutants: the status is not looked at; the row is not written *)
FailBlindly ==
  /\ pc["exec"] = "raised" /\ MayStep("exec") /\ ~MayFallBack
  /\ run' = Bump([run EXCEPT !.status = "failed"])
  /\ mem' = [mem EXCEPT !["exec"] = run']
  /\ Goto("exec", "fail_note")
  /\ UNCHANGED <<ctl, log, why, quiet>>
FailSilently ==
  /\ pc["exec"] = "raised" /\ MayStep("exec") /\ ~MayFallBack
  /\ Answer("exec")
  /\ UNCHANGED <<run, ctl, log, quiet>>

(* Somebody else may write the row between two transactions of task t. *)
Rivals(t) == \E u \in Task \ {t} : pc[u] # "idle" /\ (OneLoop => InThread(u))

(* Any other exception, or a takeover refused or lost to another writer:    *)
(* _fail_execution reads the row and fails it, whoever moved it meanwhile.  *)
(* Two lost saves are an exception for the caller.                         *)
Fail ==
  /\ pc["exec"] = "raised" /\ MayStep("exec")
  /\ \/ ~(MayFallBack /\ run.fallbacks < MaxFallbacks /\ NothingInFlight)
     \/ Rivals("exec")
  /\ \/ /\ run.status \in Terminal \/ Rivals("exec")
        /\ Answer("exec")
        /\ UNCHANGED run
     \/ /\ run.status \notin Terminal
        /\ run' = Bump([run EXCEPT !.status =
                          IF @ = "waiting_approval" THEN "blocked" ELSE "failed"])
        /\ mem' = [mem EXCEPT !["exec"] = run']
        /\ Goto("exec", "fail_note")
        /\ UNCHANGED why
  /\ UNCHANGED <<ctl, log, quiet>>

(* _block_incompatible, of execute and of resume *)
Block(t) ==
  /\ pc[t] = "incompatible" /\ MayStep(t)
  /\ \/ /\ mem[t].status \in Terminal
        /\ Answer(t)
        /\ UNCHANGED run
     \/ /\ mem[t].status \notin Terminal
        /\ Save(t, [mem[t] EXCEPT !.status = "blocked"], "fail_note")
  /\ UNCHANGED <<ctl, log, quiet>>

(* The event that closes a failure, a cancellation or an expiry.  It is    *)
(* appended whether or not its sequence number still fits into the row;    *)
(* an expiry has an event of its own and no run.expired.                   *)
Note(t) ==
  /\ pc[t] \in {"fail_note", "c_note", "e_note"} /\ MayStep(t)
  /\ log' = IF pc[t] = "e_note" THEN log ELSE Append(log, mem[t].status)
  /\ run' = IF Fresh(t) THEN Bump(mem[t]) ELSE run
  /\ Answer(t)
  /\ UNCHANGED <<ctl, quiet>>

(* An exception of resume or cancel goes to the caller and nowhere else.    *)
Report(t) ==
  /\ t # "exec" /\ pc[t] = "raised" /\ MayStep(t)
  /\ Answer(t)
  /\ UNCHANGED <<run, ctl, log, quiet>>

-----------------------------------------------------------------------------
(* resume *)

Tried(t) ==
  /\ tries[t] < MaxTries
  /\ tries' = [tries EXCEPT ![t] = @ + 1]

(* The checks of resume.  A request that lost to another one is told it is  *)
(* done once the run is over.                                              *)
Resume(r) ==
  /\ pc[r] = "idle" /\ MayStep(r) /\ Tried(r)
  /\ ctl["review"] # "none"
  /\ LET over == ctl[r] = "pending" /\ run.status \in Terminal /\ run.decisions # {}
         waits == run.status = "waiting_approval" /\ run.interrupt
     IN \/ /\ ~compatible
           /\ Load(r) /\ Goto(r, "incompatible")
           /\ UNCHANGED ctl
        \/ /\ compatible /\ over
           /\ ctl' = [ctl EXCEPT ![r] = "resolved"]
           /\ UNCHANGED <<mem, pc>>
        \/ /\ compatible /\ ctl[r] # "resolved" /\ waits
           /\ Load(r) /\ Goto(r, IF lapsed THEN "e_save" ELSE "r_ctl")
           /\ UNCHANGED ctl
  /\ UNCHANGED <<run, log, why, engines, lapsed, token, compatible, crashes,
                 executes>>

(* mutant: the control is recorded as resolved *)
ControlAcknowledges(r) ==
  /\ pc[r] = "r_ctl" /\ MayStep(r)
  /\ ctl' = [ctl EXCEPT ![r] = "resolved"]
  /\ Goto(r, "r_int")
  /\ UNCHANGED <<run, log, mem, why, quiet>>

(* append_control; an earlier attempt of this request may have left it.    *)
ResumeControl(r) ==
  /\ pc[r] = "r_ctl" /\ MayStep(r)
  /\ ctl' = [ctl EXCEPT ![r] = "pending"]
  /\ Goto(r, "r_int")
  /\ UNCHANGED <<run, log, mem, why, quiet>>

ResolveInterrupt(r) ==
  /\ pc[r] = "r_int" /\ MayStep(r)
  /\ ctl' = [ctl EXCEPT !["review"] = IF @ = "pending" THEN "resolved" ELSE @]
  /\ Goto(r, IF mem[r].engine = "langgraph" THEN "r_graph" ELSE "r_save")
  /\ UNCHANGED <<run, log, mem, why, quiet>>

(* The graph replays its interrupt node, which reads the row: if the        *)
(* interrupt is gone, it pauses the run once more ...                      *)
ReplayInterrupt(r) ==
  /\ pc[r] = "r_graph" /\ MayStep(r)
  /\ Load(r)
  /\ Goto(r, IF run.interrupt THEN "r_art" ELSE "r_again")
  /\ UNCHANGED <<run, ctl, log, why, quiet>>

PauseAgain(r) ==
  /\ pc[r] = "r_again" /\ MayStep(r)
  /\ Save(r, [mem[r] EXCEPT !.status = "waiting_approval", !.interrupt = TRUE], "r_art")
  /\ UNCHANGED <<ctl, log, quiet>>

(* ... and then stores the decision under a name all requests share.        *)
StoreDecision(r) ==
  /\ pc[r] = "r_art" /\ MayStep(r)
  /\ \/ /\ ctl["review"] = "expired" \/ run.decisions \ {r} # {}
        /\ Goto(r, "raised")
        /\ why' = [why EXCEPT ![r] = "other"]
        /\ UNCHANGED ctl
     \/ /\ ctl["review"] # "expired" /\ run.decisions \subseteq {r}
        /\ ctl' = [ctl EXCEPT !["review"] = "resolved"]
        /\ Goto(r, "r_save")
        /\ UNCHANGED why
  /\ UNCHANGED <<run, log, mem, quiet>>

(* The decision is committed and the run goes on. *)
TakeDecision(r) ==
  /\ pc[r] = "r_save" /\ MayStep(r)
  /\ LET m == mem[r] IN
     Save(r, [m EXCEPT !.status = "running", !.interrupt = FALSE,
                       !.decisions = @ \cup {r}],
          IF m.engine = "langgraph" THEN "consolidate" ELSE "enter")
  /\ UNCHANGED <<ctl, log, quiet>>

(* The engine came back, whatever it reached. *)
Back(r) ==
  /\ pc[r] = "return" /\ MayStep(r)
  /\ Goto(r, "r_ack")
  /\ UNCHANGED <<run, ctl, log, mem, why, quiet>>

AckResume(r) ==
  /\ pc[r] = "r_ack" /\ MayStep(r)
  /\ ctl' = [ctl EXCEPT ![r] = "resolved"]
  /\ Answer(r)
  /\ UNCHANGED <<run, log, quiet>>

Expire(r) ==
  /\ pc[r] = "e_save" /\ MayStep(r)
  /\ Save(r, [mem[r] EXCEPT !.status = "expired"], "e_ctl")
  /\ UNCHANGED <<ctl, log, quiet>>

ExpireInterrupt(r) ==
  /\ pc[r] = "e_ctl" /\ MayStep(r)
  /\ ctl' = [ctl EXCEPT !["review"] = IF @ = "pending" THEN "expired" ELSE @]
  /\ Goto(r, "e_note")
  /\ UNCHANGED <<run, log, mem, why, quiet>>

-----------------------------------------------------------------------------
(* cancel *)

Cancel(c) ==
  /\ pc[c] = "idle" /\ MayStep(c) /\ Tried(c)
  /\ Load(c) /\ Goto(c, "c_ctl")
  /\ UNCHANGED <<run, ctl, log, why, engines, lapsed, token, compatible, crashes,
                 executes>>

CancelControl(c) ==
  /\ pc[c] = "c_ctl" /\ MayStep(c)
  /\ \/ /\ ctl[c] = "resolved"
        /\ Answer(c)
        /\ UNCHANGED ctl
     \/ /\ ctl[c] # "resolved"
        /\ ctl' = [ctl EXCEPT ![c] = "pending"]
        /\ Goto(c, IF mem[c].status \in Terminal THEN "c_ack_terminal" ELSE "c_flag")
        /\ UNCHANGED <<mem, why>>
  /\ UNCHANGED <<run, log, quiet>>

(* Nothing left to cancel. *)
AckTerminal(c) ==
  /\ pc[c] = "c_ack_terminal" /\ MayStep(c)
  /\ ctl' = [ctl EXCEPT ![c] = "resolved"]
  /\ Answer(c)
  /\ UNCHANGED <<run, log, quiet>>

(* mutant: putting the request on record is taken for the cancellation *)
FlagAcknowledges(c) ==
  /\ pc[c] = "c_flag" /\ MayStep(c)
  /\ Save(c, [mem[c] EXCEPT !.cancelReq = TRUE], "c_ack")
  /\ UNCHANGED <<ctl, log, quiet>>

(* The request goes on record ... *)
Flag(c) ==
  /\ pc[c] = "c_flag" /\ MayStep(c)
  /\ Save(c, [mem[c] EXCEPT !.cancelReq = TRUE], "c_stop")
  /\ UNCHANGED <<ctl, log, quiet>>

(* ... the stages of this process are told, the row is read again ...      *)
Stop(c) ==
  /\ pc[c] = "c_stop" /\ MayStep(c)
  /\ token' \in IF OneLoop THEN {TRUE} ELSE {TRUE, token}
  /\ Load(c)
  /\ Goto(c, IF run.status = "canceled" THEN "c_ack" ELSE "c_save")
  /\ UNCHANGED <<run, ctl, log, why, engines, lapsed, compatible, bounded>>

(* ... and the run is canceled, unless another request was faster.         *)
SaveCanceled(c) ==
  /\ pc[c] = "c_save" /\ MayStep(c)
  /\ \/ /\ ~Fresh(c) /\ run.status = "canceled"
        /\ Load(c) /\ Goto(c, "c_ack")
        /\ UNCHANGED <<run, why>>
     \/ /\ Fresh(c) \/ run.status # "canceled"
        /\ Save(c, [mem[c] EXCEPT !.status = "canceled"], "c_ack")
  /\ UNCHANGED <<ctl, log, quiet>>

AckCancel(c) ==
  /\ pc[c] = "c_ack" /\ MayStep(c)
  /\ ctl' = [ctl EXCEPT ![c] = "resolved"]
  /\ Goto(c, "c_note")
  /\ UNCHANGED <<run, log, mem, why, quiet>>

-----------------------------------------------------------------------------
(* The world around it *)

(* A process dies and is started again, perhaps in a newer version: what   *)
(* its tasks and stages held in memory is gone.                            *)
Dies(T) ==
  /\ crashes < MaxCrashes
  /\ crashes' = crashes + 1
  /\ pc' = [t \in Task |-> IF t \in T THEN "idle" ELSE pc[t]]
  /\ mem' = [t \in Task |-> IF t \in T THEN NoCopy ELSE mem[t]]
  /\ why' = [t \in Task |-> IF t \in T THEN "none" ELSE why[t]]
  /\ call' = Without({c \in DOMAIN call : c[1] \in T})
  /\ token' \in IF OneLoop THEN {FALSE} ELSE {token}
  /\ compatible' \in {compatible} \cup (IF Upgrade THEN {FALSE} ELSE {})
  /\ UNCHANGED <<durable, lapsed, node, executes, tries, wins>>

Crash ==
  \/ OneLoop /\ Dies(Task)
  \/ ~OneLoop /\ \E t \in Task : pc[t] # "idle" /\ Dies({t})

(* The review's 24 hours are over. *)
Lapse ==
  /\ run.interrupt /\ ~lapsed
  /\ lapsed' = TRUE
  /\ UNCHANGED <<durable, pc, mem, node, why, call, token, compatible,
                 bounded, wins>>

-----------------------------------------------------------------------------
Drive(t) ==
  \/ Enter(t) \/ Skip(t) \/ Launch(t) \/ Join(t) \/ Deepen(t)
  \/ Pause(t) \/ PauseSave(t) \/ Finalize(t) \/ Announce(t)

ExecStep == Drive("exec") \/ Settle \/ Takeover \/ Fail \/ Block("exec") \/ Note("exec")

ResumeStep(r) ==
  \/ Drive(r) \/ Block(r) \/ Note(r) \/ Report(r)
  \/ ResumeControl(r) \/ ResolveInterrupt(r) \/ ReplayInterrupt(r) \/ PauseAgain(r)
  \/ StoreDecision(r) \/ TakeDecision(r) \/ Back(r) \/ AckResume(r)
  \/ Expire(r) \/ ExpireInterrupt(r)

CancelStep(c) ==
  \/ CancelControl(c) \/ AckTerminal(c) \/ Flag(c) \/ Stop(c) \/ SaveCanceled(c)
  \/ AckCancel(c) \/ Note(c) \/ Report(c)

CallStep(c) == Reserve(c) \/ Complete(c) \/ ForgetOrphan(c)
CallOf(t) == \E c \in DOMAIN call : c[1] = t /\ CallStep(c)

(* What the program does of itself, and what happens to it *)
Program ==
  \/ ExecStep
  \/ \E r \in Resumer : ResumeStep(r)
  \/ \E c \in Canceller : CancelStep(c)
  \/ \E c \in DOMAIN call : CallStep(c)

World ==
  \/ Execute
  \/ \E r \in Resumer : Resume(r)
  \/ \E c \in Canceller : Cancel(c)
  \/ \E t \in Driver : GraphFails(t)
  \/ \E c \in DOMAIN call : Raise(c)
  \/ Crash \/ Lapse

Next == Program \/ World

Spec == Init /\ [][Next]_vars

(* A started request keeps its turn on the loop, and a stage ends: its call *)
(* is wrapped in a timeout.  Nobody has to start a request.                *)
FairSpec ==
  /\ Spec
  /\ WF_vars(ExecStep)
  /\ \A r \in Resumer : WF_vars(ResumeStep(r))
  /\ \A c \in Canceller : WF_vars(CancelStep(c))
  /\ \A t \in Driver : WF_vars(CallOf(t))
=============================================================================
