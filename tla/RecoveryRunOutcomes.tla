------------------------- MODULE RecoveryRunOutcomes -------------------------
(***************************************************************************)
(* What a recovery run comes to, and what its callers and watchers are     *)
(* told of it, for every value of the constants: a request that was        *)
(* acknowledged is done (AckedCorrect), the event stream names the end the *)
(* run has come to (StreamCorrect), "completed" is earned                  *)
(* (CompletedCorrect), under the manual engine no cancelled run succeeds   *)
(* (CancelCorrect), the manual engine takes over between stages            *)
(* (TakeoverQuiet), the run keeps the lifecycle promised to its users      *)
(* (LifecycleKept), and a completed run has the evidence that its critic   *)
(* asked for (EvidenceCollected).                                          *)
(***************************************************************************)
EXTENDS RecoveryRunTheorems

(* A copy of a run that has ended shows the end the run has come to.        *)
EndsAgree == \A t \in Task : mem[t].status \in Terminal => mem[t].status = run.status

(* What every step preserves of the row, by its shape alone.                *)
Onward ==
  /\ run.status \in Terminal => run'.status = run.status
  /\ run.decisions \subseteq run'.decisions

(* A step changes no end of the run and drops no decision.                 *)
LEMMA StepIsOnward ==
  ASSUME IInv, CopiesAreTheRow, [Next]_vars
  PROVE  Onward /\ Shape
<1>1. Shape /\ CanMove(run.status, run'.status) /\ run.decisions \subseteq run'.decisions
  BY StepShape, RowFollows DEF Keeps
<1>2. run'.status \in Status
  BY <1>1 DEF Shape, IInv, TypeOK, Row
<1>3. QED
  BY <1>1, <1>2, TerminalIsFinal DEF Onward

(* A copy of an ended run stays true, for the end stays.                   *)
LEMMA EndsAgreeStep ==
  ASSUME EndsAgree, Onward, Shape
  PROVE  EndsAgree'
  BY DEF EndsAgree, Onward, Shape, CopyStep, NoCopy, NewRow, Terminal

-----------------------------------------------------------------------------
(* Acknowledgements                                                        *)

(* Where a cancel request may be only when the run has ended, and a resume  *)
(* request only when a decision is on record.                              *)
EndedPc == {"c_ack_terminal", "c_ack", "c_note"}
DecidedPc == EnginePc \cup {"return", "r_ack"}

AcksEarned ==
  /\ \A c \in Canceller : pc[c] \in EndedPc \/ ctl[c] = "resolved" =>
       run.status \in Terminal
  /\ \A r \in Resumer : pc[r] \in DecidedPc \/ ctl[r] = "resolved" =>
       run.decisions # {}

(* The same of one step of task t: what it newly claims is so by now.       *)
ClaimsEarned(t) ==
  /\ \E p : pc' = [pc EXCEPT ![t] = p]
  /\ \A i \in (Resumer \cup Canceller) \ {t} : ctl'[i] = ctl[i]
  /\ t \in Canceller =>
       (pc'[t] \in EndedPc \/ ctl'[t] = "resolved" =>
          pc[t] \in EndedPc \/ ctl[t] = "resolved" \/ run'.status \in Terminal)
  /\ t \in Resumer =>
       (pc'[t] \in DecidedPc \/ ctl'[t] = "resolved" =>
          pc[t] \in DecidedPc \/ ctl[t] = "resolved" \/ run'.decisions # {})

(* One task that claims only what is so leaves every claim so.             *)
LEMMA ClaimsKeepAcks ==
  ASSUME IInv, AcksEarned, Onward, NEW t \in Task, ClaimsEarned(t)
  PROVE  AcksEarned'
<1>1. /\ Resumer \subseteq Task /\ Canceller \subseteq Task
      /\ \A u \in Task : u # t => pc'[u] = pc[u]
  BY DEF Task, ClaimsEarned, IInv, TypeOK
<1>2. ASSUME NEW c \in Canceller, pc'[c] \in EndedPc \/ ctl'[c] = "resolved"
      PROVE  run'.status \in Terminal
  BY <1>1, <1>2 DEF AcksEarned, Onward, ClaimsEarned
<1>3. ASSUME NEW r \in Resumer, pc'[r] \in DecidedPc \/ ctl'[r] = "resolved"
      PROVE  run'.decisions # {}
  BY <1>1, <1>3 DEF AcksEarned, Onward, ClaimsEarned
<1>4. QED
  BY <1>2, <1>3 DEF AcksEarned

(* A step that moves no task and touches no control claims nothing.         *)
LEMMA SilentKeepsAcks ==
  ASSUME AcksEarned, Onward, UNCHANGED <<pc, ctl>>
  PROVE  AcksEarned'
  BY DEF AcksEarned, Onward

(* Requests of different kinds are different tasks; "review" is no request. *)
LEMMA KindsOfTasks ==
  /\ \A t \in Driver : t \in Task /\ t \notin Canceller
  /\ \A c \in Canceller : c \in Task /\ c \notin Resumer /\ c # "review"
  /\ \A r \in Resumer : r \in Task /\ r \in Driver /\ r # "review"
  BY ConstantsAssumption DEF Driver, Task

(* An engine's step claims nothing new: the decision was there before.     *)
LEMMA DriveClaims ==
  ASSUME IInv, NEW t \in Driver, Drive(t)
  PROVE  ClaimsEarned(t)
<1>1. pc[t] \in EnginePc
  BY DEF Drive, Enter, Skip, Launch, Join, Deepen, Pause, PauseSave, Finalize, Announce,
         EnginePc
<1>2. \E p : pc' = [pc EXCEPT ![t] = p]
  BY DEF Drive, Enter, Skip, Launch, Join, Deepen, Pause, PauseSave, Finalize, Announce,
         Save, Goto
<1>3. \A i \in Resumer \cup Canceller : ctl'[i] = ctl[i]
  <2>1. CASE Pause(t)
    BY <2>1, KindsOfTasks DEF Pause, IInv, TypeOK
  <2>2. CASE ~Pause(t)
    BY <2>2 DEF Drive, Enter, Skip, Launch, Join, Deepen, PauseSave, Finalize, Announce,
                durable
  <2>3. QED
    BY <2>1, <2>2
<1>4. QED
  BY <1>1, <1>2, <1>3, KindsOfTasks DEF ClaimsEarned, DecidedPc

(* The execute request acknowledges nothing.                               *)
LEMMA ExecClaims ==
  ASSUME IInv, Settle \/ Takeover \/ Fail \/ Block("exec") \/ Note("exec") \/ Execute
  PROVE  ClaimsEarned("exec")
<1>1. \E p : pc' = [pc EXCEPT !["exec"] = p]
  BY DEF Settle, Takeover, Fail, Block, Note, Execute, Save, Goto, Answer
<1>2. UNCHANGED ctl
  BY DEF Settle, Takeover, Fail, Block, Note, Execute
<1>3. QED
  BY <1>1, <1>2, ConstantsAssumption DEF ClaimsEarned

(* A resume request gets where it may acknowledge by committing its decision.*)
LEMMA ResumeClaims ==
  ASSUME IInv, NEW r \in Resumer,
         (ResumeStep(r) /\ ~Drive(r)) \/ Resume(r)
  PROVE  ClaimsEarned(r)
<1>0. /\ r \in Task /\ r # "review" /\ r \notin Canceller /\ pc[r] \in Pc
      /\ pc \in [Task -> Pc] /\ mem \in [Task -> Row]
      /\ ctl \in [{"review"} \cup Resumer \cup Canceller ->
                  {"none", "pending", "resolved", "expired"}]
  BY KindsOfTasks DEF IInv, TypeOK
<1>1. CASE Block(r) \/ Note(r) \/ Report(r) \/ Expire(r) \/ PauseAgain(r) \/ ReplayInterrupt(r)
  <2>1. \E p \in {"idle", "raised", "fail_note", "e_ctl", "r_art", "r_again"} : Goto(r, p)
    BY <1>1 DEF Block, Note, Report, Expire, PauseAgain, ReplayInterrupt, Save, Answer, Goto
  <2>2. UNCHANGED ctl
    BY <1>1 DEF Block, Note, Report, Expire, PauseAgain, ReplayInterrupt
  <2>3. QED
    BY <1>0, <2>1, <2>2 DEF Goto, ClaimsEarned, DecidedPc, EnginePc, StageNode
<1>2. CASE ResumeControl(r) \/ ResolveInterrupt(r) \/ StoreDecision(r) \/ ExpireInterrupt(r)
  <2>1. \E p \in {"r_int", "r_graph", "r_save", "raised", "e_note"} : Goto(r, p)
    BY <1>2 DEF ResumeControl, ResolveInterrupt, StoreDecision, ExpireInterrupt, Goto
  <2>2. \/ ctl' = [ctl EXCEPT ![r] = "pending"]
        \/ \E s : ctl' = [ctl EXCEPT !["review"] = s]
        \/ UNCHANGED ctl
    BY <1>2 DEF ResumeControl, ResolveInterrupt, StoreDecision, ExpireInterrupt
  <2>3. /\ \A i \in (Resumer \cup Canceller) \ {r} : ctl'[i] = ctl[i]
        /\ ctl'[r] = "resolved" => ctl[r] = "resolved"
    <3>1. CASE ctl' = [ctl EXCEPT ![r] = "pending"]
      BY <1>0, <3>1
    <3>2. ASSUME NEW s, ctl' = [ctl EXCEPT !["review"] = s]
          PROVE  \A i \in Resumer \cup Canceller : ctl'[i] = ctl[i]
      BY <1>0, <3>2, KindsOfTasks
    <3>3. QED
      BY <2>2, <3>1, <3>2
  <2>4. pc'[r] \notin DecidedPc /\ \E p : pc' = [pc EXCEPT ![r] = p]
    BY <1>0, <2>1 DEF Goto, DecidedPc, EnginePc, StageNode
  <2>5. QED
    BY <1>0, <2>3, <2>4 DEF ClaimsEarned
<1>3. CASE Back(r) \/ AckResume(r)
  BY <1>0, <1>3 DEF Back, AckResume, Answer, Goto, ClaimsEarned, DecidedPc
<1>4. CASE TakeDecision(r)
  <2> DEFINE n == [mem[r] EXCEPT !.status = "running", !.interrupt = FALSE,
                                 !.decisions = @ \cup {r}]
             p == IF mem[r].engine = "langgraph" THEN "consolidate" ELSE "enter"
  <2>1. n.decisions # {} /\ Bump(n).decisions = n.decisions
    BY <1>0 DEF Row, Bump
  <2>2. Save(r, n, p) /\ UNCHANGED ctl
    BY <1>4 DEF TakeDecision
  <2> HIDE DEF n, p
  <2>3. QED
    BY <1>0, <2>1, <2>2 DEF Save, Goto, ClaimsEarned, DecidedPc, EnginePc, StageNode
<1>5. CASE Resume(r)
  <2>1. CASE /\ run.decisions # {} /\ ctl' = [ctl EXCEPT ![r] = "resolved"]
             /\ UNCHANGED <<pc, run>>
    <3>1. pc' = [pc EXCEPT ![r] = pc[r]]
      BY <1>0, <2>1
    <3>2. QED
      BY <1>0, <2>1, <3>1 DEF ClaimsEarned
  <2>2. ASSUME NEW p \in {"incompatible", "e_save", "r_ctl"}, Goto(r, p), UNCHANGED ctl
        PROVE  ClaimsEarned(r)
    BY <1>0, <2>2 DEF Goto, ClaimsEarned, DecidedPc, EnginePc, StageNode
  <2>3. QED
    BY <1>5, <2>1, <2>2 DEF Resume
<1>6. QED
  BY <1>1, <1>2, <1>3, <1>4, <1>5 DEF ResumeStep

(* A cancel request gets there once the run has ended, by it or another.   *)
LEMMA CancelClaims ==
  ASSUME IInv, EndsAgree, NEW c \in Canceller, CancelStep(c) \/ Cancel(c)
  PROVE  ClaimsEarned(c)
<1>0. /\ c \in Task /\ c # "review" /\ c \notin Resumer
      /\ pc \in [Task -> Pc] /\ mem \in [Task -> Row] /\ run \in Row
      /\ ctl \in [{"review"} \cup Resumer \cup Canceller ->
                  {"none", "pending", "resolved", "expired"}]
  BY KindsOfTasks DEF IInv, TypeOK
<1>1. CASE Note(c) \/ Report(c) \/ Cancel(c) \/ Flag(c)
  BY <1>0, <1>1 DEF Note, Report, Cancel, Flag, Save, Answer, Goto, ClaimsEarned, EndedPc
<1>2. CASE CancelControl(c)
  BY <1>0, <1>2 DEF CancelControl, Answer, Goto, ClaimsEarned, EndedPc, EndsAgree
<1>3. CASE AckTerminal(c) \/ AckCancel(c)
  BY <1>0, <1>3 DEF AckTerminal, AckCancel, Answer, Goto, ClaimsEarned, EndedPc
<1>4. CASE Stop(c)
  BY <1>0, <1>4 DEF Stop, Goto, ClaimsEarned, EndedPc, Terminal
<1>5. CASE SaveCanceled(c)
  <2>1. CASE run.status = "canceled" /\ UNCHANGED <<run, ctl>> /\ Goto(c, "c_ack")
    BY <1>0, <2>1 DEF Goto, ClaimsEarned, Terminal
  <2>2. CASE Save(c, [mem[c] EXCEPT !.status = "canceled"], "c_ack") /\ UNCHANGED ctl
    <3>1. Bump([mem[c] EXCEPT !.status = "canceled"]).status = "canceled"
      BY <1>0 DEF Bump, Row
    <3>2. QED
      BY <1>0, <2>2, <3>1 DEF Save, Goto, ClaimsEarned, EndedPc, Terminal
  <2>3. QED
    BY <1>5, <2>1, <2>2 DEF SaveCanceled
<1>6. QED
  BY <1>1, <1>2, <1>3, <1>4, <1>5 DEF CancelStep

(* Every step keeps what was acknowledged earned.                           *)
LEMMA AcksStep ==
  ASSUME IInv, CopiesAreTheRow, EndsAgree, AcksEarned, [Next]_vars
  PROVE  AcksEarned'
<1>0. Onward /\ "exec" \in Task
  BY StepIsOnward DEF Task
<1>1. CASE ExecStep \/ Execute
  BY <1>0, <1>1, DriversAreTasks, DriveClaims, ExecClaims, ClaimsKeepAcks DEF ExecStep
<1>2. ASSUME NEW r \in Resumer, ResumeStep(r) \/ Resume(r)
      PROVE  AcksEarned'
  BY <1>0, <1>2, KindsOfTasks, DriveClaims, ResumeClaims, ClaimsKeepAcks
<1>3. ASSUME NEW c \in Canceller, CancelStep(c) \/ Cancel(c)
      PROVE  AcksEarned'
  BY <1>0, <1>3, KindsOfTasks, CancelClaims, ClaimsKeepAcks
<1>4. ASSUME NEW t \in Task, \/ \E p \in {"raised"} : pc' = [pc EXCEPT ![t] = p]
                             \/ UNCHANGED pc,
             UNCHANGED ctl
      PROVE  AcksEarned'
  <2>1. \E p : pc' = [pc EXCEPT ![t] = p]
    BY <1>4 DEF IInv, TypeOK
  <2>2. ClaimsEarned(t)
    BY <1>4, <2>1 DEF ClaimsEarned, EndedPc, DecidedPc, EnginePc, StageNode, IInv, TypeOK
  <2>3. QED
    BY <1>0, <2>2, ClaimsKeepAcks
<1>5. ASSUME NEW c \in DOMAIN call, CallStep(c) \/ Raise(c)
      PROVE  AcksEarned'
  <2>1. c[1] \in Task
    BY TypeParts, CallsOfTasks DEF IInv
  <2>2. QED
    BY <1>4, <1>5, <2>1 DEF CallStep, Reserve, Complete, ForgetOrphan, Raise, Break, Goto, durable
<1>6. ASSUME NEW t \in Driver, GraphFails(t)
      PROVE  AcksEarned'
  BY <1>4, <1>6, DriversAreTasks DEF GraphFails, Goto, durable
<1>7. ASSUME NEW T, Dies(T)
      PROVE  AcksEarned'
  BY <1>0, <1>7, KindsOfTasks DEF Dies, durable, AcksEarned, EndedPc, DecidedPc, EnginePc,
     StageNode, Onward
<1>8. CASE Lapse \/ UNCHANGED vars
  BY <1>0, <1>8, SilentKeepsAcks DEF Lapse, vars, durable
<1>9. QED
  BY <1>1, <1>2, <1>3, <1>5, <1>6, <1>7, <1>8 DEF Next, Program, World, Crash

(* An answered cancel request has ended the run, and a resume request is    *)
(* acknowledged only with a decision on record, whoever else writes, dies   *)
(* or retries (recovery_run_service.py, cancel and resume).                *)
THEOREM AckedCorrect == Spec => []AckedIsDone
<1>1. Init => EndsAgree /\ AcksEarned
  BY KindsOfTasks DEF Init, EndsAgree, AcksEarned, NoCopy, NewRow, Terminal, EndedPc,
     DecidedPc, EnginePc, StageNode
<1>2. IInv /\ CopiesAreTheRow /\ EndsAgree /\ AcksEarned /\ [Next]_vars =>
        EndsAgree' /\ AcksEarned'
  BY StepIsOnward, EndsAgreeStep, AcksStep
<1>3. AcksEarned => AckedIsDone
  BY DEF AcksEarned, AckedIsDone
<1>4. QED
  BY <1>1, <1>2, <1>3, TypeIsInvariant, CopiesCorrect, PTL DEF Spec

-----------------------------------------------------------------------------
(* The event stream                                                        *)

(* A task at one of these nodes drives the run, or has ended it.            *)
BusyPc == EnginePc \ {"enter", "pause_save"}
NotePc == {"fail_note", "c_ack", "c_note"}

(* The statuses a task can hold where it stands.                            *)
StandsRight(t) ==
  /\ pc[t] \in BusyPc => mem[t].status \in {"running"} \cup Terminal
  /\ pc[t] \in NotePc \cup {"announce"} => mem[t].status \in Terminal
  /\ pc[t] = "enter" /\ mem[t].engine = "langgraph" =>
       mem[t].status \in {"queued", "running"}

(* A task that has ended the run owes the stream its event.                 *)
Owes(t) == pc[t] \in NotePc \/ (pc[t] \in BusyPc /\ mem[t].status \in Terminal)

(* The events there are name the end of the run.                            *)
EventsAgree == \A i \in 1 .. Len(log) : log[i] = run.status /\ run.status \in Terminal

(* Nodes whose thread could end the run, were the copy it works on the row. *)
DecisiveNodes == {"deepen", "evidence", "fanout", "await", "finalize", "announce"}

(* On one loop a cancel request holds the loop, but for the graph's threads. *)
(* Its flag made their copies old, and those that read the row again only   *)
(* pause or resume the run: nobody else ends it.                            *)
AloneCancels(c) ==
  /\ pc[c] \in {"c_flag", "c_save"} => mem[c].status \notin Terminal
  /\ pc[c] \in {"c_stop", "c_save"} =>
       /\ run.status \notin Terminal
       /\ \A u \in Task \ {c} : pc[u] \in DecisiveNodes => ~Fresh(u)

(* On one loop a single task owes the event, and only while there is none.  *)
OneDebtor ==
  OneLoop =>
    /\ \A t \in Task : Owes(t) => log = <<>> /\ run.status \in Terminal
    /\ \A t, u \in Task : Owes(t) /\ Owes(u) => t = u
    /\ Len(log) <= 1
    /\ \A c \in Canceller : AloneCancels(c)

StreamInv == (\A t \in Task : StandsRight(t)) /\ EventsAgree /\ OneDebtor

(* What one step of task t may do to its position, its debt and the stream. *)
Speaks(t) ==
  /\ \A u \in Task \ {t} : pc'[u] = pc[u] /\ mem'[u] = mem[u]
  /\ StandsRight(t)'
  /\ Owes(t)' => \/ Owes(t)
                 \/ run.status \notin Terminal /\ run'.status \in Terminal
                 \/ ~OneLoop
  /\ \/ log' = log
     \/ log' = Append(log, mem[t].status) /\ mem[t].status \in Terminal
        /\ Owes(t) /\ ~Owes(t)'

(* The part of StreamInv that needs nothing of cancel requests follows.     *)
LEMMA SpokenWell ==
  ASSUME IInv, EndsAgree, StreamInv, Onward, NEW t \in Task, Speaks(t)
  PROVE  /\ \A u \in Task : StandsRight(u)'
         /\ EventsAgree'
         /\ OneLoop => /\ \A u \in Task : Owes(u)' => log' = <<>> /\ run'.status \in Terminal
                       /\ \A u, v \in Task : Owes(u)' /\ Owes(v)' => u = v
                       /\ Len(log') <= 1
<1>0. log \in Seq(Status) /\ mem \in [Task -> Row] /\ pc \in [Task -> Pc]
  BY DEF IInv, TypeOK
<1>1. \A u \in Task \ {t} : (StandsRight(u)' <=> StandsRight(u)) /\ (Owes(u)' <=> Owes(u))
  BY DEF Speaks, StandsRight, Owes
<1>2. \A u \in Task : StandsRight(u)'
  BY <1>1 DEF Speaks, StreamInv
<1>3. CASE log' = log
  <2>1. EventsAgree'
    BY <1>3 DEF EventsAgree, StreamInv, Onward
  <2>2. ASSUME OneLoop, run.status \notin Terminal
        PROVE  log = <<>> /\ \A u \in Task : ~Owes(u)
    <3>1. Len(log) = 0
      BY <1>0, <2>2 DEF StreamInv, EventsAgree
    <3>2. QED
      BY <1>0, <2>2, <3>1 DEF StreamInv, OneDebtor
  <2>3. ASSUME OneLoop, NEW u \in Task, Owes(u)'
        PROVE  log' = <<>> /\ run'.status \in Terminal
    BY <1>1, <1>3, <2>2, <2>3 DEF Speaks, StreamInv, OneDebtor, Onward
  <2>4. ASSUME OneLoop, NEW u \in Task, NEW v \in Task, Owes(u)', Owes(v)'
        PROVE  u = v
    BY <1>1, <2>2, <2>4 DEF Speaks, StreamInv, OneDebtor
  <2>5. OneLoop => Len(log') <= 1
    BY <1>3 DEF StreamInv, OneDebtor
  <2>6. QED
    BY <1>2, <2>1, <2>3, <2>4, <2>5
<1>4. CASE /\ log' = Append(log, mem[t].status) /\ mem[t].status \in Terminal
           /\ Owes(t) /\ ~Owes(t)'
  <2>1. mem[t].status = run.status /\ run'.status = run.status /\ run.status \in Terminal
    BY <1>4 DEF EndsAgree, Onward
  <2>2. Len(log') = Len(log) + 1 /\ \A i \in 1 .. Len(log') :
          log'[i] = IF i <= Len(log) THEN log[i] ELSE mem[t].status
    BY <1>0, <1>4
  <2>3. EventsAgree'
    BY <1>0, <2>1, <2>2 DEF EventsAgree, StreamInv
  <2>4. ASSUME OneLoop
        PROVE  Len(log') <= 1 /\ \A u \in Task : ~Owes(u)'
    BY <1>1, <1>4, <2>2, <2>4 DEF StreamInv, OneDebtor
  <2>5. QED
    BY <1>2, <2>3, <2>4
<1>5. QED
  BY <1>3, <1>4 DEF Speaks

(* A save writes a row it has read, or raises.                              *)
LEMMA SaveOrRaise ==
  ASSUME IInv, CopiesAreTheRow, NEW t \in Task, NEW new \in Row, NEW next, Save(t, new, next)
  PROVE  /\ pc' = [pc EXCEPT ![t] = next] \/ pc' = [pc EXCEPT ![t] = "raised"]
         /\ \A u \in Task \ {t} : pc'[u] = pc[u] /\ mem'[u] = mem[u]
         /\ \/ /\ pc'[t] = next /\ mem[t] = run
               /\ mem'[t] = run' /\ run' = Bump(new)
               /\ run'.status = new.status /\ run'.engine = new.engine
            \/ pc'[t] = "raised" /\ UNCHANGED <<run, mem>>
<1>1. pc \in [Task -> Pc] /\ mem \in [Task -> Row]
  BY DEF IInv, TypeOK
<1>2. Bump(new).status = new.status /\ Bump(new).engine = new.engine
  BY DEF Bump, Row
<1>3. Fresh(t) => mem[t] = run
  BY DEF CopiesAreTheRow, Fresh
<1>4. QED
  BY <1>1, <1>2, <1>3 DEF Save, Goto

(* A task that saves, and leaves the stream alone, speaks well if the new   *)
(* status suits where it goes, and a task that goes on with a terminal copy *)
(* was already in debt.                                                    *)
LEMMA SaveSpeaks ==
  ASSUME IInv, CopiesAreTheRow, NEW t \in Task, NEW new \in Row, NEW next,
         Save(t, new, next), UNCHANGED log,
         next \in BusyPc => new.status \in {"running"} \cup Terminal,
         next \in NotePc \cup {"announce"} => new.status \in Terminal,
         next = "enter" => new.status \in {"queued", "running"},
         next \in NotePc \cup BusyPc /\ new.status \in Terminal /\ mem[t].status \in Terminal
           => Owes(t) \/ ~OneLoop
  PROVE  Speaks(t)
<1>1. CASE pc'[t] = "raised" /\ \A u \in Task \ {t} : pc'[u] = pc[u] /\ mem'[u] = mem[u]
  BY <1>1 DEF Speaks, StandsRight, Owes, BusyPc, NotePc, EnginePc, StageNode
<1>2. CASE /\ pc'[t] = next /\ mem[t] = run /\ mem'[t] = run'
           /\ run'.status = new.status /\ run'.engine = new.engine
           /\ \A u \in Task \ {t} : pc'[u] = pc[u] /\ mem'[u] = mem[u]
  <2>1. StandsRight(t)'
    BY <1>2 DEF StandsRight
  <2>2. Owes(t)' => next \in NotePc \cup BusyPc /\ new.status \in Terminal
    BY <1>2 DEF Owes
  <2>3. QED
    BY <1>2, <2>1, <2>2 DEF Speaks
<1>3. QED
  BY <1>1, <1>2, SaveOrRaise

(* A task that goes where nothing is owed speaks well.                      *)
LEMMA MoveSpeaks ==
  ASSUME IInv, NEW t \in Task, NEW p, Goto(t, p), UNCHANGED log,
         p \notin BusyPc \cup NotePc \cup {"enter"},
         \/ UNCHANGED mem
         \/ \E m : mem' = [mem EXCEPT ![t] = m]
  PROVE  Speaks(t)
<1>1. pc \in [Task -> Pc] /\ mem \in [Task -> Row]
  BY DEF IInv, TypeOK
<1>2. QED
  BY <1>1 DEF Goto, Speaks, StandsRight, Owes, BusyPc, EnginePc

(* A task that goes on among the busy nodes with its copy speaks well.      *)
LEMMA GoOnSpeaks ==
  ASSUME IInv, StreamInv, NEW t \in Task, NEW p \in BusyPc \ {"announce"}, pc[t] \in BusyPc,
         Goto(t, p), UNCHANGED <<log, mem>>
  PROVE  Speaks(t)
<1>1. pc \in [Task -> Pc] /\ mem \in [Task -> Row] /\ p \notin NotePc
  BY DEF IInv, TypeOK, BusyPc, EnginePc, StageNode, NotePc
<1>2. QED
  BY <1>1 DEF Goto, Speaks, StandsRight, Owes, StreamInv, BusyPc

-----------------------------------------------------------------------------
(* The steps of the engines *)

LEMMA EnterSpeaks ==
  ASSUME IInv, CopiesAreTheRow, StreamInv, NEW t \in Driver, Enter(t)
  PROVE  Speaks(t)
<1> DEFINE m == mem[t]
<1>0. t \in Task /\ m \in Row /\ pc[t] = "enter" /\ UNCHANGED log
  BY KindsOfTasks DEF IInv, TypeOK, Enter
<1>1. CASE Save(t, [m EXCEPT !.status = "canceled"], "announce") /\ m.status \in {"queued", "running"}
  <2>1. [m EXCEPT !.status = "canceled"] \in Row /\ [m EXCEPT !.status = "canceled"].status = "canceled"
    BY <1>0 DEF Row, Status, Terminal
  <2>2. QED
    BY <1>0, <1>1, <2>1, SaveSpeaks DEF Terminal
<1>2. CASE Save(t, [m EXCEPT !.status = "running"], "survey")
  <2>1. [m EXCEPT !.status = "running"] \in Row /\ [m EXCEPT !.status = "running"].status = "running"
    BY <1>0 DEF Row, Status
  <2>2. QED
    BY <1>0, <1>2, <2>1, SaveSpeaks DEF Terminal, NotePc
<1>3. CASE Goto(t, "return") /\ UNCHANGED mem
  BY <1>0, <1>3, MoveSpeaks DEF BusyPc, EnginePc, StageNode, NotePc
<1>4. CASE Goto(t, "survey") /\ UNCHANGED mem /\ m.engine # "manual" /\ m.status # "queued"
  <2>1. m.status = "running"
    BY <1>0, <1>4 DEF StreamInv, StandsRight, Row, Engine
  <2>2. pc \in [Task -> Pc] /\ mem \in [Task -> Row]
    BY DEF IInv, TypeOK
  <2>3. QED
    BY <1>0, <1>4, <2>1, <2>2 DEF Goto, Speaks, StandsRight, Owes, NotePc, Terminal
<1>5. QED
  BY <1>1, <1>2, <1>3, <1>4 DEF Enter

LEMMA SkipSpeaks ==
  ASSUME IInv, StreamInv, NEW t \in Driver, Skip(t)
  PROVE  Speaks(t)
<1>1. Following(pc[t], mem[t].engine) \in BusyPc \ {"announce"} /\ pc[t] \in BusyPc
  BY DEF Skip, Following, BusyPc, EnginePc, StageNode
<1>2. QED
  BY <1>1, KindsOfTasks, GoOnSpeaks DEF Skip, durable

LEMMA LaunchSpeaks ==
  ASSUME IInv, CopiesAreTheRow, StreamInv, NEW t \in Driver, Launch(t)
  PROVE  Speaks(t)
<1> DEFINE m == mem[t]
           us == UnitsAt(pc[t], m)
           n == [m EXCEPT !.pending = @ \cup us]
<1>0. t \in Task /\ m \in Row /\ pc[t] \in BusyPc /\ UNCHANGED log /\ us \in SUBSET Unit
  BY KindsOfTasks, UnitsAreUnits DEF IInv, TypeOK, Launch, BusyPc, EnginePc, StageNode
<1>1. CASE Save(t, n, "await")
  <2>1. n \in Row /\ n.status = m.status
    BY <1>0 DEF Row
  <2>2. m.status \in {"running"} \cup Terminal /\ (m.status \in Terminal => Owes(t))
    BY <1>0 DEF StreamInv, StandsRight, Owes
  <2> HIDE DEF n
  <2>3. QED
    BY <1>0, <1>1, <2>1, <2>2, SaveSpeaks DEF NotePc
<1>2. CASE Goto(t, "await") /\ UNCHANGED mem
  BY <1>0, <1>2, GoOnSpeaks DEF BusyPc, EnginePc
<1>3. QED
  BY <1>1, <1>2 DEF Launch

(* A joined group stops the run with a terminal status, or lets it be.      *)
LEMMA JoinedStatus ==
  ASSUME NEW m \in Row, NEW us \in SUBSET Unit, NEW res \in [us -> Result]
  PROVE  Joined(m, us, res).status \in {m.status, "blocked", "failed", "canceled"}
<1> DEFINE asked == {Asked(u, res[u]) : u \in us} \cup {"none"}
<1>1. asked \in SUBSET {"none", "blocked", "failed", "canceled"} /\ asked # {}
  BY DEF Asked
<1> HIDE DEF asked
<1>2. Gravest(asked) \in {"none", "blocked", "failed", "canceled"}
  BY <1>1, GravestIsAsked
<1>3. Joined(m, us, res).status =
        IF Gravest(asked) = "none" THEN m.status ELSE Gravest(asked)
  BY DEF Joined, asked, Row
<1>4. QED
  BY <1>2, <1>3

LEMMA JoinSpeaks ==
  ASSUME IInv, CopiesAreTheRow, StreamInv, NEW t \in Driver, Join(t)
  PROVE  Speaks(t)
<1> DEFINE m == mem[t]
           us == {c[2] : c \in {d \in Awaited(t) :
                   m.engine = "langgraph" /\ node[t] \in {"fanout", "evidence"} =>
                     ~DoneUnit(m, d[2])}}
           res == [u \in us |-> call[<<t, u, TRUE>>].res]
           new == Joined(m, us, res)
           asked == IF node[t] = "merge" THEN res[<<"merge", m.round>>].next
                    ELSE "accept"
<1>0. /\ t \in Task /\ m \in Row /\ pc[t] \in BusyPc /\ UNCHANGED log
      /\ CallsOK /\ node[t] \in StageNode
  BY KindsOfTasks, TypeParts DEF IInv, TypeOK, Join, BusyPc, EnginePc
<1>1. us \in SUBSET Unit /\ res \in [us -> Result]
  <2>1. \A c \in Awaited(t) : /\ c[2] \in Unit /\ <<t, c[2], TRUE>> \in DOMAIN call
                              /\ call[<<t, c[2], TRUE>>].res \in Result
    BY <1>0, CallsOfTasks DEF Awaited, Call
  <2>2. QED
    BY <2>1
<1>2. new \in Row /\ new.status \in {m.status, "blocked", "failed", "canceled"}
  <2> HIDE DEF us, res, m
  <2>1. QED
    BY <1>0, <1>1, JoinedIsRow, JoinedStatus
<1>3. Save(t, new, Route(node[t], new, asked))
  BY DEF Join
<1> HIDE DEF us, res, new, asked
<1>4. /\ m.status \in {"running"} \cup Terminal
      /\ m.status \in Terminal => Owes(t)
      /\ new.status \in {"running"} \cup Terminal
  BY <1>0, <1>2 DEF StreamInv, StandsRight, Owes, Terminal
<1>5. /\ Route(node[t], new, asked) \in BusyPc
      /\ Route(node[t], new, asked) = "announce" => new.status # "running"
  BY <1>0 DEF Route, Following, BusyPc, EnginePc, StageNode
<1>6. Route(node[t], new, asked) \notin NotePc \cup {"enter"}
  BY <1>5 DEF BusyPc, EnginePc, StageNode, NotePc
<1>7. QED
  BY <1>0, <1>2, <1>3, <1>4, <1>5, <1>6, SaveSpeaks

LEMMA DeepenSpeaks ==
  ASSUME IInv, CopiesAreTheRow, StreamInv, NEW t \in Driver, Deepen(t)
  PROVE  Speaks(t)
<1> DEFINE m == mem[t]
           n == [m EXCEPT !.round = @ + 1]
<1>0. t \in Task /\ m \in Row /\ pc[t] \in BusyPc /\ UNCHANGED log
  BY KindsOfTasks DEF IInv, TypeOK, Deepen, BusyPc, EnginePc
<1>1. n \in Row /\ n.status = m.status
  <2>1. m.round + 1 \in 0 .. MaxRounds
    BY <1>0, ConstantsAssumption DEF Deepen, IInv, DeepensInBounds, Row
  <2>2. QED
    BY <1>0, <2>1 DEF Row
<1>2. m.status \in {"running"} \cup Terminal /\ (m.status \in Terminal => Owes(t))
  BY <1>0 DEF StreamInv, StandsRight, Owes
<1>3. Save(t, n, "evidence")
  BY DEF Deepen
<1> HIDE DEF n
<1>4. QED
  BY <1>0, <1>1, <1>2, <1>3, SaveSpeaks DEF NotePc

LEMMA PauseSpeaks ==
  ASSUME IInv, CopiesAreTheRow, NEW t \in Driver, Pause(t) \/ PauseSave(t)
  PROVE  Speaks(t)
<1>0. t \in Task /\ mem[t] \in Row /\ UNCHANGED log
  BY KindsOfTasks DEF IInv, TypeOK, Pause, PauseSave
<1>1. CASE Pause(t)
  <2>1. /\ Goto(t, "return") \/ Goto(t, "pause_save")
        /\ UNCHANGED mem \/ mem' = [mem EXCEPT ![t] = run]
    BY <1>1 DEF Pause
  <2>2. QED
    BY <1>0, <2>1, MoveSpeaks DEF BusyPc, EnginePc, StageNode, NotePc
<1>2. CASE PauseSave(t)
  <2> DEFINE n == [mem[t] EXCEPT !.status = "waiting_approval", !.interrupt = TRUE]
  <2>1. n \in Row /\ Save(t, n, "return")
    BY <1>0, <1>2 DEF PauseSave, Row, Status
  <2> HIDE DEF n
  <2>2. QED
    BY <1>0, <2>1, SaveSpeaks DEF BusyPc, EnginePc, StageNode, NotePc
<1>3. QED
  BY <1>1, <1>2

LEMMA FinalizeSpeaks ==
  ASSUME IInv, CopiesAreTheRow, StreamInv, NEW t \in Driver, Finalize(t)
  PROVE  Speaks(t)
<1> DEFINE m == mem[t]
           s == IF m.engine = "langgraph" /\ m.status # "running" THEN m.status
                ELSE Verdict(m)
           n == [m EXCEPT !.status = s, !.result = @ \/ HasMerge(m)]
<1>0. t \in Task /\ m \in Row /\ pc[t] \in BusyPc /\ UNCHANGED log
  BY KindsOfTasks DEF IInv, TypeOK, Finalize, BusyPc, EnginePc
<1>1. m.status \in {"running"} \cup Terminal /\ (m.status \in Terminal => Owes(t))
  BY <1>0 DEF StreamInv, StandsRight, Owes
<1>2. s \in Terminal
  <2>1. Verdict(m) \in Terminal
    BY VerdictIsTerminal DEF Verdict, HasMerge
  <2>2. QED
    BY <1>1, <2>1
<1>3. n \in Row /\ n.status = s
  <2> HIDE DEF s
  <2>1. (m.result \/ HasMerge(m)) \in BOOLEAN
    BY DEF HasMerge
  <2>2. QED
    BY <1>0, <1>2, <2>1 DEF Row, Status
<1>4. Save(t, n, "announce")
  BY DEF Finalize
<1> HIDE DEF n, s
<1>5. QED
  BY <1>0, <1>1, <1>2, <1>3, <1>4, SaveSpeaks DEF NotePc

LEMMA AnnounceSpeaks ==
  ASSUME IInv, CopiesAreTheRow, StreamInv, NEW t \in Driver, Announce(t)
  PROVE  Speaks(t)
<1>0. t \in Task /\ mem[t] \in Row /\ pc[t] = "announce"
  BY KindsOfTasks DEF IInv, TypeOK, Announce
<1>1. mem[t].status \in Terminal /\ Owes(t)
  BY <1>0 DEF StreamInv, StandsRight, Owes, BusyPc, EnginePc
<1>2. /\ \A u \in Task \ {t} : pc'[u] = pc[u] /\ mem'[u] = mem[u]
      /\ pc'[t] \in {"return", "raised"}
  BY <1>0, SaveOrRaise DEF Announce
<1>3. QED
  BY <1>1, <1>2 DEF Announce, Speaks, StandsRight, Owes, BusyPc, NotePc, EnginePc, StageNode

LEMMA DriveSpeaks ==
  ASSUME IInv, CopiesAreTheRow, StreamInv, NEW t \in Driver, Drive(t)
  PROVE  Speaks(t)
  BY EnterSpeaks, SkipSpeaks, LaunchSpeaks, JoinSpeaks, DeepenSpeaks, PauseSpeaks,
     FinalizeSpeaks, AnnounceSpeaks DEF Drive

-----------------------------------------------------------------------------
(* The steps of the service *)

LEMMA ExecSpeaks ==
  ASSUME IInv, CopiesAreTheRow, StreamInv, Settle \/ Takeover \/ Fail \/ Execute
  PROVE  Speaks("exec")
<1>0. /\ "exec" \in Task /\ run \in Row /\ pc \in [Task -> Pc] /\ mem \in [Task -> Row]
      /\ UNCHANGED log
  BY DEF Task, IInv, TypeOK, Settle, Takeover, Fail, Execute
<1>1. CASE Settle
  <2>1. /\ Goto("exec", "raised") \/ Goto("exec", "idle")
        /\ UNCHANGED mem \/ mem' = [mem EXCEPT !["exec"] = NoCopy]
    BY <1>1 DEF Settle, Answer
  <2>2. QED
    BY <1>0, <2>1, MoveSpeaks DEF BusyPc, EnginePc, StageNode, NotePc
<1>2. CASE Takeover
  <2>1. run'.engine = "manual"
    BY <1>0, <1>2 DEF Takeover, Bump, Row
  <2>2. QED
    BY <1>0, <1>2, <2>1 DEF Takeover, Goto, Speaks, StandsRight, Owes, BusyPc, NotePc
<1>3. CASE Fail
  <2>1. CASE Answer("exec")
    BY <1>0, <2>1, MoveSpeaks DEF Answer, BusyPc, EnginePc, StageNode, NotePc
  <2>2. CASE /\ run.status \notin Terminal
             /\ run' = Bump([run EXCEPT !.status =
                               IF @ = "waiting_approval" THEN "blocked" ELSE "failed"])
             /\ mem' = [mem EXCEPT !["exec"] = run'] /\ Goto("exec", "fail_note")
    <3>1. run'.status \in {"blocked", "failed"}
      BY <1>0, <2>2 DEF Bump, Row
    <3>2. QED
      BY <1>0, <2>2, <3>1 DEF Goto, Speaks, StandsRight, Owes, BusyPc, EnginePc, StageNode,
         Terminal
  <2>3. QED
    BY <1>3, <2>1, <2>2 DEF Fail
<1>4. CASE Execute
  <2>1. /\ mem' = [mem EXCEPT !["exec"] = run] /\ run.status \in {"queued", "running"}
        /\ Goto("exec", "enter") \/ Goto("exec", "incompatible")
    BY <1>4 DEF Execute, Load
  <2>2. QED
    BY <1>0, <2>1 DEF Goto, Speaks, StandsRight, Owes, BusyPc, EnginePc, StageNode, NotePc
<1>5. QED
  BY <1>1, <1>2, <1>3, <1>4

LEMMA BlockSpeaks ==
  ASSUME IInv, CopiesAreTheRow, NEW t \in Task, Block(t)
  PROVE  Speaks(t)
<1>0. mem[t] \in Row /\ UNCHANGED log
  BY DEF IInv, TypeOK, Block
<1>1. CASE Answer(t)
  BY <1>0, <1>1, MoveSpeaks DEF Answer, BusyPc, EnginePc, StageNode, NotePc
<1>2. CASE mem[t].status \notin Terminal /\ Save(t, [mem[t] EXCEPT !.status = "blocked"], "fail_note")
  <2>1. /\ [mem[t] EXCEPT !.status = "blocked"] \in Row
        /\ [mem[t] EXCEPT !.status = "blocked"].status = "blocked"
    BY <1>0 DEF Row, Status, Terminal
  <2>2. QED
    BY <1>0, <1>2, <2>1, SaveSpeaks DEF Terminal, BusyPc, EnginePc, StageNode
<1>3. QED
  BY <1>1, <1>2 DEF Block

LEMMA NoteSpeaks ==
  ASSUME IInv, StreamInv, NEW t \in Task, Note(t)
  PROVE  Speaks(t)
<1>0. pc \in [Task -> Pc] /\ mem \in [Task -> Row]
  BY DEF IInv, TypeOK
<1>1. CASE pc[t] = "e_note"
  BY <1>1, MoveSpeaks DEF Note, Answer, BusyPc, EnginePc, StageNode, NotePc
<1>2. CASE pc[t] \in NotePc /\ log' = Append(log, mem[t].status)
  <2>1. mem[t].status \in Terminal /\ Owes(t)
    BY <1>2 DEF StreamInv, StandsRight, Owes
  <2>2. Goto(t, "idle") /\ mem' = [mem EXCEPT ![t] = NoCopy]
    BY DEF Note, Answer
  <2>3. QED
    BY <1>0, <1>2, <2>1, <2>2 DEF Goto, Speaks, StandsRight, Owes, BusyPc, EnginePc, StageNode,
       NotePc
<1>3. QED
  BY <1>1, <1>2 DEF Note, NotePc

LEMMA ResumeSpeaks ==
  ASSUME IInv, CopiesAreTheRow, StreamInv, NEW r \in Resumer, ResumeStep(r) \/ Resume(r)
  PROVE  Speaks(r)
<1>0. r \in Task /\ r \in Driver /\ mem[r] \in Row
  BY KindsOfTasks DEF IInv, TypeOK
<1>1. CASE Drive(r) \/ Block(r) \/ Note(r)
  BY <1>0, <1>1, DriveSpeaks, BlockSpeaks, NoteSpeaks
<1>2. ASSUME NEW p, p \notin BusyPc \cup NotePc \cup {"enter"}, Goto(r, p), UNCHANGED log,
             UNCHANGED mem \/ mem' = [mem EXCEPT ![r] = run]
                           \/ mem' = [mem EXCEPT ![r] = NoCopy]
      PROVE  Speaks(r)
  BY <1>0, <1>2, MoveSpeaks
<1>3. CASE Report(r) \/ AckResume(r)
  BY <1>2, <1>3 DEF Report, AckResume, Answer, BusyPc, EnginePc, StageNode, NotePc
<1>4. CASE ResumeControl(r) \/ ResolveInterrupt(r) \/ ReplayInterrupt(r) \/ StoreDecision(r)
  <2>1. /\ \E p \in {"r_int", "r_graph", "r_save", "r_art", "r_again", "raised"} : Goto(r, p)
        /\ UNCHANGED log
        /\ UNCHANGED mem \/ mem' = [mem EXCEPT ![r] = run]
    BY <1>4 DEF ResumeControl, ResolveInterrupt, ReplayInterrupt, StoreDecision, Load
  <2>2. QED
    BY <1>2, <2>1 DEF BusyPc, EnginePc, StageNode, NotePc
<1>5. CASE Back(r) \/ ExpireInterrupt(r)
  BY <1>2, <1>5 DEF Back, ExpireInterrupt, BusyPc, EnginePc, StageNode, NotePc
<1>6. ASSUME NEW n \in Row, NEW p \in {"r_art", "e_ctl"}, Save(r, n, p), UNCHANGED log
      PROVE  Speaks(r)
  BY <1>0, <1>6, SaveSpeaks DEF BusyPc, EnginePc, StageNode, NotePc
<1>7. CASE PauseAgain(r)
  <2>1. [mem[r] EXCEPT !.status = "waiting_approval", !.interrupt = TRUE] \in Row
    BY <1>0 DEF Row, Status
  <2>2. QED
    BY <1>6, <1>7, <2>1 DEF PauseAgain
<1>8. CASE Expire(r)
  <2>1. [mem[r] EXCEPT !.status = "expired"] \in Row
    BY <1>0 DEF Row, Status, Terminal
  <2>2. QED
    BY <1>6, <1>8, <2>1 DEF Expire
<1>9. CASE TakeDecision(r)
  <2> DEFINE n == [mem[r] EXCEPT !.status = "running", !.interrupt = FALSE,
                                 !.decisions = @ \cup {r}]
             p == IF mem[r].engine = "langgraph" THEN "consolidate" ELSE "enter"
  <2>1. n \in Row /\ n.status = "running"
    <3>1. mem[r].decisions \cup {r} \in SUBSET Resumer
      BY <1>0 DEF Row
    <3>2. QED
      BY <1>0, <3>1 DEF Row, Status
  <2>2. Save(r, n, p) /\ UNCHANGED log
    BY <1>9 DEF TakeDecision
  <2> HIDE DEF n
  <2>3. QED
    BY <1>0, <2>1, <2>2, SaveSpeaks DEF Terminal, NotePc
<1>10. CASE Resume(r)
  <2>1. CASE UNCHANGED <<mem, pc, log>>
    BY <1>0, <2>1 DEF Speaks, StreamInv, StandsRight, Owes
  <2>2. CASE Goto(r, "incompatible") \/ Goto(r, "e_save") \/ Goto(r, "r_ctl")
    BY <1>2, <1>10, <2>2 DEF Resume, Load, BusyPc, EnginePc, StageNode, NotePc
  <2>3. QED
    BY <1>10, <2>1, <2>2 DEF Resume
<1>11. QED
  BY <1>1, <1>3, <1>4, <1>5, <1>7, <1>8, <1>9, <1>10 DEF ResumeStep

LEMMA CancelSpeaks ==
  ASSUME IInv, CopiesAreTheRow, StreamInv, NEW c \in Canceller, CancelStep(c) \/ Cancel(c)
  PROVE  Speaks(c)
<1>0. c \in Task /\ mem[c] \in Row /\ pc \in [Task -> Pc] /\ mem \in [Task -> Row]
  BY KindsOfTasks DEF IInv, TypeOK
<1>1. CASE Note(c)
  BY <1>0, <1>1, NoteSpeaks
<1>2. CASE Report(c) \/ AckTerminal(c) \/ Cancel(c) \/ CancelControl(c)
  <2>1. /\ \E p \in {"idle", "c_ctl", "c_ack_terminal", "c_flag"} : Goto(c, p)
        /\ UNCHANGED log
        /\ \/ UNCHANGED mem \/ mem' = [mem EXCEPT ![c] = run]
           \/ mem' = [mem EXCEPT ![c] = NoCopy]
    BY <1>2 DEF Report, AckTerminal, Cancel, CancelControl, Answer, Load
  <2>2. QED
    BY <1>0, <2>1, MoveSpeaks DEF BusyPc, EnginePc, StageNode, NotePc
<1>3. CASE Flag(c)
  <2> DEFINE n == [mem[c] EXCEPT !.cancelReq = TRUE]
  <2>1. n \in Row /\ Save(c, n, "c_stop") /\ UNCHANGED log
    BY <1>0, <1>3 DEF Row, Flag
  <2> HIDE DEF n
  <2>2. QED
    BY <1>0, <2>1, SaveSpeaks DEF BusyPc, EnginePc, StageNode, NotePc
<1>4. ASSUME pc[c] \in {"c_stop", "c_save"}, run.status = "canceled", UNCHANGED log,
             mem' = [mem EXCEPT ![c] = run], Goto(c, "c_ack")
      PROVE  Speaks(c)
  <2>1. ~OneLoop
    BY <1>4 DEF StreamInv, OneDebtor, AloneCancels, Terminal
  <2>2. QED
    BY <1>0, <1>4, <2>1 DEF Goto, Speaks, StandsRight, Terminal
<1>5. CASE Stop(c)
  <2>1. CASE run.status # "canceled"
    BY <1>0, <1>5, <2>1, MoveSpeaks DEF Stop, Load, BusyPc, EnginePc, StageNode, NotePc
  <2>2. QED
    BY <1>4, <1>5, <2>1 DEF Stop, Load
<1>6. CASE SaveCanceled(c)
  <2> DEFINE n == [mem[c] EXCEPT !.status = "canceled"]
  <2>1. CASE Save(c, n, "c_ack")
    <3>1. n \in Row /\ n.status = "canceled" /\ UNCHANGED log
      BY <1>0, <1>6 DEF Row, Status, Terminal, SaveCanceled
    <3>2. mem[c].status \in Terminal => ~OneLoop
      BY <1>6 DEF SaveCanceled, StreamInv, OneDebtor, AloneCancels
    <3> HIDE DEF n
    <3>3. QED
      BY <1>0, <2>1, <3>1, <3>2, SaveSpeaks DEF BusyPc, EnginePc, StageNode, Terminal
  <2>2. QED
    BY <1>4, <1>6, <2>1 DEF SaveCanceled, Load
<1>7. CASE AckCancel(c)
  <2>1. pc[c] = "c_ack" /\ Goto(c, "c_note") /\ UNCHANGED <<log, mem>>
    BY <1>7 DEF AckCancel
  <2>2. QED
    BY <1>0, <2>1 DEF Goto, Speaks, StandsRight, Owes, StreamInv, NotePc, BusyPc, EnginePc,
       StageNode
<1>8. QED
  BY <1>1, <1>2, <1>3, <1>5, <1>6, <1>7 DEF CancelStep

(* An exception of a stage, or of the graph itself, takes its task away     *)
(* from the nodes.                                                         *)
LEMMA AsideSpeaks ==
  ASSUME IInv, StreamInv, NEW t \in Task, UNCHANGED <<mem, log>>,
         Goto(t, "raised") \/ UNCHANGED pc
  PROVE  Speaks(t)
<1>1. CASE Goto(t, "raised")
  BY <1>1, MoveSpeaks DEF BusyPc, EnginePc, StageNode, NotePc
<1>2. CASE UNCHANGED pc
  BY <1>2 DEF Speaks, StreamInv, StandsRight, Owes
<1>3. QED
  BY <1>1, <1>2

LEMMA CallSpeaks ==
  ASSUME IInv, StreamInv, NEW c \in DOMAIN call, CallStep(c) \/ Raise(c)
  PROVE  Speaks(c[1])
<1>1. c[1] \in Task
  BY TypeParts, CallsOfTasks DEF IInv
<1>2. UNCHANGED <<mem, log>> /\ (Goto(c[1], "raised") \/ UNCHANGED pc)
  BY DEF CallStep, Reserve, Complete, ForgetOrphan, Raise, Break, durable
<1>3. QED
  BY <1>1, <1>2, AsideSpeaks

-----------------------------------------------------------------------------
(* While a cancel request holds the loop, only itself and the graph's       *)
(* threads take steps.                                                     *)
ThreadStep(u) ==
  \/ Drive(u) \/ GraphFails(u)
  \/ ReplayInterrupt(u) \/ PauseAgain(u) \/ StoreDecision(u) \/ TakeDecision(u)

LEMMA CancelIsAlone ==
  ASSUME IInv, OneLoop, NEW c \in Canceller, pc[c] \in {"c_stop", "c_save"}, [Next]_vars
  PROVE  \/ CancelStep(c) \/ Dies(Task) \/ UNCHANGED <<run, mem, pc>>
         \/ \E u \in Driver : InThread(u) /\ ThreadStep(u)
<1>1. ~Awaits(c) /\ c \in Task /\ c \notin Driver
  BY KindsOfTasks DEF Awaits, InThread, EnginePc, StageNode
<1>2. \A t \in Task \ {c} : MayStep(t) => InThread(t) /\ t \in Driver
  BY <1>1 DEF MayStep, InThread
<1>3. ~CallsMayStep
  BY <1>1 DEF CallsMayStep
<1>4. ASSUME NEW t \in Task \ {c}, InThread(t)
      PROVE  pc[t] \in {"deepen", "pause", "pause_save", "finalize", "announce", "fanout",
                        "evidence", "await", "r_graph", "r_again", "r_art", "r_save"}
  BY <1>4 DEF InThread, GraphOnly, Grouped
<1>5. ASSUME NEW t \in Task \ {c}
      PROVE  ~Block(t) /\ ~Note(t) /\ ~Report(t)
  BY <1>2, <1>4, <1>5 DEF Block, Note, Report
<1>6. ASSUME NEW t \in Driver, Drive(t) \/ GraphFails(t)
      PROVE  InThread(t) /\ ThreadStep(t)
  <2>1. t \in Task \ {c} /\ MayStep(t)
    BY <1>1, <1>6, KindsOfTasks DEF Drive, Enter, Skip, Launch, Join, Deepen, Pause, PauseSave,
       Finalize, Announce, GraphFails
  <2>2. QED
    BY <1>2, <1>6, <2>1 DEF ThreadStep
<1>7. ASSUME ExecStep \/ Execute
      PROVE  InThread("exec") /\ ThreadStep("exec")
  <2>1. "exec" \in Task \ {c} /\ "exec" \in Driver
    BY ConstantsAssumption DEF Task, Driver
  <2>2. ~Settle /\ ~Takeover /\ ~Fail /\ ~Execute
    BY <1>2, <1>4, <2>1 DEF Settle, Takeover, Fail, Execute
  <2>3. QED
    BY <1>5, <1>6, <1>7, <2>1, <2>2 DEF ExecStep
<1>8. ASSUME NEW r \in Resumer, ResumeStep(r) \/ Resume(r)
      PROVE  InThread(r) /\ ThreadStep(r)
  <2>1. r \in Task \ {c} /\ r \in Driver
    BY <1>1, KindsOfTasks
  <2>2. ~Resume(r) /\ ~ResumeControl(r) /\ ~ResolveInterrupt(r) /\ ~Back(r) /\ ~AckResume(r)
        /\ ~Expire(r) /\ ~ExpireInterrupt(r)
    BY <1>2, <1>4, <2>1 DEF Resume, ResumeControl, ResolveInterrupt, Back, AckResume, Expire,
       ExpireInterrupt
  <2>3. ASSUME ReplayInterrupt(r) \/ PauseAgain(r) \/ StoreDecision(r) \/ TakeDecision(r)
        PROVE  InThread(r) /\ ThreadStep(r)
    <3>1. MayStep(r)
      BY <2>3 DEF ReplayInterrupt, PauseAgain, StoreDecision, TakeDecision
    <3>2. QED
      BY <1>2, <2>1, <2>3, <3>1 DEF ThreadStep
  <2>4. QED
    BY <1>5, <1>6, <1>8, <2>1, <2>2, <2>3 DEF ResumeStep
<1>9. \A d \in Canceller \ {c} : ~CancelStep(d) /\ ~Cancel(d)
  <2>1. \A d \in Canceller \ {c} : d \in Task \ {c} /\ ~MayStep(d)
    BY <1>2, KindsOfTasks
  <2>2. QED
    BY <1>5, <2>1 DEF CancelStep, Cancel, CancelControl, AckTerminal, Flag, Stop,
       SaveCanceled, AckCancel
<1>10. ~Cancel(c) /\ \A d \in DOMAIN call : ~CallStep(d) /\ ~Raise(d)
  BY <1>3 DEF Cancel, CallStep, Reserve, Complete, ForgetOrphan, Raise
<1>11. CASE Lapse \/ UNCHANGED vars
  BY <1>11 DEF Lapse, durable, vars
<1>12. "exec" \in Driver /\ \A r \in Resumer : r \in Driver
  BY DEF Driver
<1>13. CASE Program
  BY <1>7, <1>8, <1>9, <1>10, <1>12, <1>13 DEF Program
<1>14. CASE World
  BY <1>6, <1>7, <1>8, <1>9, <1>10, <1>11, <1>12, <1>14 DEF World, Crash
<1>15. QED
  BY <1>11, <1>13, <1>14 DEF Next

(* What a thread does meanwhile: it reaches no decisive node, and what it   *)
(* writes leaves the run waiting or running.                                *)
StaysAside(u) ==
  /\ pc'[u] \notin DecisiveNodes
  /\ \A v \in Task \ {u} : pc'[v] = pc[v] /\ mem'[v] = mem[v]
  /\ run' = run \/ (run'.version = run.version + 1 /\ run'.status \notin Terminal)

LEMMA StaleSave ==
  ASSUME IInv, NEW t \in Task, NEW new, NEW next, Save(t, new, next), ~Fresh(t)
  PROVE  StaysAside(t)
  BY DEF Save, StaysAside, DecisiveNodes, Goto, IInv, TypeOK

LEMMA OpenSave ==
  ASSUME IInv, CopiesAreTheRow, NEW t \in Task, NEW new \in Row, NEW next, next \notin DecisiveNodes,
         Save(t, new, next), new.status \notin Terminal, new.version = mem[t].version
  PROVE  StaysAside(t)
<1>1. pc \in [Task -> Pc] /\ mem \in [Task -> Row]
  BY DEF IInv, TypeOK
<1>2. Bump(new).status = new.status /\ Bump(new).version = new.version + 1
  BY DEF Bump, Row
<1>3. QED
  BY <1>1, <1>2 DEF Save, Goto, Fresh, StaysAside, DecisiveNodes

LEMMA ThreadsStayAside ==
  ASSUME IInv, CopiesAreTheRow, NEW t \in Driver, InThread(t), ThreadStep(t),
         pc[t] \in DecisiveNodes => ~Fresh(t)
  PROVE  StaysAside(t)
<1>0. /\ t \in Task /\ mem[t] \in Row /\ run \in Row
      /\ pc \in [Task -> Pc] /\ mem \in [Task -> Row]
  BY KindsOfTasks DEF IInv, TypeOK
<1>1. ASSUME NEW p \in Pc \ DecisiveNodes, Goto(t, p), UNCHANGED run,
             UNCHANGED mem \/ \E m : mem' = [mem EXCEPT ![t] = m]
      PROVE  StaysAside(t)
  BY <1>0, <1>1 DEF Goto, StaysAside
<1>2. CASE Skip(t)
  <2>1. pc[t] \in {"fanout", "evidence"} /\ mem[t].engine = "langgraph"
    BY <1>2 DEF Skip, InThread, GraphOnly, StageNode, Grouped
  <2>2. Following(pc[t], mem[t].engine) = "verify"
    BY <2>1 DEF Following
  <2>3. Goto(t, "verify") /\ UNCHANGED <<run, mem>>
    BY <1>2, <2>2 DEF Skip, durable
  <2>4. QED
    BY <1>1, <2>3 DEF Pc, EnginePc, StageNode, DecisiveNodes
<1>3. CASE Launch(t)
  <2>1. pc[t] \in {"fanout", "evidence"} /\ mem[t].engine = "langgraph" /\ ~Fresh(t)
    BY <1>3 DEF Launch, InThread, GraphOnly, StageNode, Grouped, DecisiveNodes
  <2>2. \E new : Save(t, new, "await")
    BY <1>3, <2>1 DEF Launch, Grouped
  <2>3. QED
    BY <1>0, <2>1, <2>2, StaleSave
<1>4. CASE Join(t) \/ Deepen(t) \/ Finalize(t) \/ Announce(t)
  <2>1. ~Fresh(t) /\ \E new, next : Save(t, new, next)
    BY <1>4 DEF Join, Deepen, Finalize, Announce, DecisiveNodes
  <2>2. QED
    BY <1>0, <2>1, StaleSave
<1>5. CASE Pause(t)
  <2>1. /\ \E p \in {"return", "pause_save"} : Goto(t, p)
        /\ UNCHANGED run /\ (UNCHANGED mem \/ mem' = [mem EXCEPT ![t] = run])
    BY <1>5 DEF Pause
  <2>2. QED
    BY <1>1, <2>1 DEF Pc, EnginePc, StageNode, DecisiveNodes
<1>6. CASE PauseSave(t) \/ PauseAgain(t)
  <2> DEFINE n == [mem[t] EXCEPT !.status = "waiting_approval", !.interrupt = TRUE]
  <2>1. /\ n \in Row /\ n.status \notin Terminal /\ n.version = mem[t].version
        /\ Save(t, n, "return") \/ Save(t, n, "r_art")
    BY <1>0, <1>6 DEF PauseSave, PauseAgain, Row, Status, Terminal
  <2> HIDE DEF n
  <2>2. "return" \notin DecisiveNodes /\ "r_art" \notin DecisiveNodes
    BY DEF DecisiveNodes
  <2>3. QED
    BY <1>0, <2>1, <2>2, OpenSave
<1>7. CASE TakeDecision(t)
  <2> DEFINE n == [mem[t] EXCEPT !.status = "running", !.interrupt = FALSE,
                                 !.decisions = @ \cup {t}]
  <2>1. mem[t].engine = "langgraph" /\ pc[t] = "r_save" /\ Save(t, n, "consolidate")
    BY <1>7 DEF TakeDecision, InThread, GraphOnly
  <2>2. n.status = "running" /\ n.version = mem[t].version /\ Bump(n).status = "running"
        /\ Bump(n).version = mem[t].version + 1
    BY <1>0 DEF Row, Bump
  <2> HIDE DEF n
  <2>3. QED
    BY <1>0, <2>1, <2>2 DEF Save, Goto, Fresh, StaysAside, DecisiveNodes, Terminal
<1>8. CASE ReplayInterrupt(t) \/ StoreDecision(t) \/ GraphFails(t)
  <2>1. /\ \E p \in {"r_art", "r_again", "r_save", "raised"} : Goto(t, p)
        /\ UNCHANGED run /\ (UNCHANGED mem \/ mem' = [mem EXCEPT ![t] = run])
    BY <1>8 DEF ReplayInterrupt, StoreDecision, GraphFails, Load, durable
  <2>2. QED
    BY <1>1, <2>1 DEF Pc, EnginePc, StageNode, DecisiveNodes
<1>9. ~Enter(t)
  BY DEF Enter, InThread, GraphOnly, Grouped
<1>10. QED
  BY <1>2, <1>3, <1>4, <1>5, <1>6, <1>7, <1>8, <1>9 DEF ThreadStep, Drive

(* Old copies stay old when the row moves on without them.                  *)
LEMMA StaysAlone ==
  ASSUME IInv, CopiesAreTheRow, OneLoop, NEW c \in Canceller, AloneCancels(c),
         NEW t \in Driver, StaysAside(t)
  PROVE  AloneCancels(c)'
<1>0. /\ c \in Task /\ t \in Task /\ t # c /\ run.version \in Nat
      /\ \A u \in Task : mem[u].version \in Nat /\ mem[u].version <= run.version
  BY KindsOfTasks DEF IInv, TypeOK, CopiesAreTheRow, Row
<1>1. pc'[c] = pc[c] /\ mem'[c] = mem[c]
  BY <1>0 DEF StaysAside
<1>2. pc[c] \in {"c_stop", "c_save"} => run'.status \notin Terminal
  BY DEF StaysAside, AloneCancels
<1>3. ASSUME pc[c] \in {"c_stop", "c_save"}, NEW u \in Task \ {c}, pc'[u] \in DecisiveNodes
      PROVE  ~Fresh(u)'
  <2>1. u # t /\ pc'[u] = pc[u] /\ mem'[u] = mem[u]
    BY <1>3 DEF StaysAside
  <2>2. mem[u].version # run.version
    BY <1>3, <2>1 DEF AloneCancels, Fresh
  <2>3. run'.version = run.version \/ run'.version = run.version + 1
    BY DEF StaysAside
  <2>4. mem[u].version # run'.version
    BY <1>0, <2>2, <2>3
  <2>5. QED
    BY <2>1, <2>4 DEF Fresh
<1>4. QED
  BY <1>1, <1>2, <1>3 DEF AloneCancels

(* Its own steps leave it alone.                                           *)
LEMMA OwnSteps ==
  ASSUME IInv, CopiesAreTheRow, NEW c \in Canceller, AloneCancels(c), CancelStep(c) \/ Cancel(c)
  PROVE  AloneCancels(c)'
<1>0. /\ c \in Task /\ mem[c] \in Row /\ run \in Row /\ run.version \in Nat
      /\ pc \in [Task -> Pc] /\ mem \in [Task -> Row]
      /\ \A u \in Task : mem[u].version \in Nat /\ mem[u].version <= run.version
  BY KindsOfTasks DEF IInv, TypeOK, CopiesAreTheRow, Row
<1>1. CASE Note(c) \/ Report(c) \/ AckTerminal(c) \/ AckCancel(c) \/ Cancel(c)
  <2>1. pc'[c] \in {"idle", "c_note", "c_ctl"}
    BY <1>0, <1>1 DEF Note, Report, AckTerminal, AckCancel, Cancel, Answer, Goto
  <2>2. QED
    BY <2>1 DEF AloneCancels
<1>2. CASE CancelControl(c)
  BY <1>0, <1>2 DEF CancelControl, Answer, Goto, AloneCancels
<1>3. CASE Flag(c)
  <2> DEFINE n == [mem[c] EXCEPT !.cancelReq = TRUE]
  <2>1. n \in Row /\ n.status = mem[c].status /\ n.version = mem[c].version
        /\ Save(c, n, "c_stop")
    BY <1>0, <1>3 DEF Row, Flag
  <2>2. Bump(n).version = mem[c].version + 1
    BY <2>1 DEF Bump, Row
  <2> HIDE DEF n
  <2>3. CASE pc'[c] = "raised"
    BY <2>3 DEF AloneCancels
  <2>4. CASE pc'[c] = "c_stop" /\ run' = Bump(n) /\ run'.status = n.status /\ Fresh(c)
             /\ \A u \in Task \ {c} : mem'[u] = mem[u]
    <3>1. mem[c].status \notin Terminal
      BY <1>3 DEF Flag, AloneCancels
    <3>2. \A u \in Task \ {c} : ~Fresh(u)'
      BY <1>0, <2>2, <2>4 DEF Fresh
    <3>3. QED
      BY <2>1, <2>4, <3>1, <3>2 DEF AloneCancels
  <2>5. QED
    <3>1. Bump(n).status = n.status
      BY <2>1 DEF Bump, Row
    <3>2. QED
      BY <1>0, <2>1, <2>3, <2>4, <3>1 DEF Save, Goto
<1>4. CASE Stop(c)
  <2>1. /\ pc[c] = "c_stop" /\ run' = run /\ mem' = [mem EXCEPT ![c] = run]
        /\ Goto(c, "c_ack") \/ Goto(c, "c_save")
    BY <1>4 DEF Stop, Load
  <2>2. /\ pc'[c] \in {"c_ack", "c_save"} /\ mem'[c] = run
        /\ \A u \in Task \ {c} : pc'[u] = pc[u] /\ mem'[u] = mem[u]
    BY <1>0, <2>1 DEF Goto
  <2>3. QED
    BY <2>1, <2>2 DEF AloneCancels, Fresh
<1>5. CASE SaveCanceled(c)
  <2>1. pc'[c] \in {"c_ack", "raised"}
    BY <1>0, <1>5 DEF SaveCanceled, Save, Goto
  <2>2. QED
    BY <2>1 DEF AloneCancels
<1>6. QED
  BY <1>1, <1>2, <1>3, <1>4, <1>5 DEF CancelStep

(* Whoever moves, a cancel request under way on one loop is alone.         *)
LEMMA AloneStep ==
  ASSUME IInv, CopiesAreTheRow, StreamInv, OneLoop, NEW c \in Canceller, [Next]_vars,
         \/ CancelStep(c) \/ Cancel(c) \/ Dies(Task)
         \/ pc'[c] \in {pc[c], "raised"} /\ mem'[c] = mem[c]
  PROVE  AloneCancels(c)'
<1>0. AloneCancels(c) /\ c \in Task
  BY KindsOfTasks DEF StreamInv, OneDebtor
<1>1. CASE CancelStep(c) \/ Cancel(c)
  BY <1>0, <1>1, OwnSteps
<1>2. CASE Dies(Task)
  BY <1>0, <1>2 DEF Dies, AloneCancels
<1>3. CASE pc'[c] = pc[c] /\ mem'[c] = mem[c]
  <2>1. CASE pc[c] \in {"c_stop", "c_save"}
    <3>1. CASE UNCHANGED <<run, mem, pc>>
      BY <1>0, <3>1 DEF AloneCancels, Fresh
    <3>2. ASSUME NEW u \in Driver, InThread(u), ThreadStep(u)
          PROVE  AloneCancels(c)'
      <4>1. u \in Task \ {c}
        BY KindsOfTasks
      <4>2. pc[u] \in DecisiveNodes => ~Fresh(u)
        BY <1>0, <2>1, <4>1 DEF AloneCancels
      <4>3. QED
        BY <1>0, <3>2, <4>2, ThreadsStayAside, StaysAlone
    <3>3. QED
      BY <1>1, <1>2, <2>1, <3>1, <3>2, CancelIsAlone
  <2>2. CASE pc[c] \notin {"c_stop", "c_save"}
    BY <1>0, <1>3, <2>2 DEF AloneCancels
  <2>3. QED
    BY <2>1, <2>2
<1>4. CASE pc'[c] = "raised"
  BY <1>4 DEF AloneCancels
<1>5. QED
  BY <1>1, <1>2, <1>3, <1>4

(* A step of one task keeps the stream true.                                *)
LEMMA SpeakingStep ==
  ASSUME IInv, CopiesAreTheRow, EndsAgree, StreamInv, Onward, [Next]_vars,
         NEW t \in Task, Speaks(t),
         t \in Canceller =>
           \/ CancelStep(t) \/ Cancel(t)
           \/ pc'[t] \in {pc[t], "raised"} /\ mem'[t] = mem[t]
  PROVE  StreamInv'
<1>1. \A c \in Canceller :
        \/ CancelStep(c) \/ Cancel(c)
        \/ pc'[c] \in {pc[c], "raised"} /\ mem'[c] = mem[c]
  BY KindsOfTasks DEF Speaks
<1>2. OneLoop => \A c \in Canceller : AloneCancels(c)'
  BY <1>1, AloneStep
<1>3. QED
  BY <1>2, SpokenWell DEF StreamInv, OneDebtor

(* Deaths owe nothing.                                                      *)
LEMMA DeathStep ==
  ASSUME IInv, CopiesAreTheRow, StreamInv, [Next]_vars, NEW T,
         Dies(T) /\ (OneLoop => T = Task)
  PROVE  StreamInv'
<1>1. UNCHANGED <<run, log>>
  BY DEF Dies, durable
<1>2. ASSUME NEW u \in Task
      PROVE  StandsRight(u)' /\ (Owes(u)' => Owes(u))
  <2>1. pc'[u] = "idle" \/ (pc'[u] = pc[u] /\ mem'[u] = mem[u])
    BY DEF Dies
  <2>2. CASE pc'[u] = "idle"
    BY <2>2 DEF StandsRight, Owes, BusyPc, EnginePc, StageNode, NotePc
  <2>3. CASE pc'[u] = pc[u] /\ mem'[u] = mem[u]
    BY <2>3 DEF StandsRight, Owes, StreamInv
  <2>4. QED
    BY <2>1, <2>2, <2>3
<1>3. OneLoop => \A c \in Canceller : AloneCancels(c)'
  BY AloneStep
<1>4. EventsAgree'
  BY <1>1 DEF StreamInv, EventsAgree
<1>5. QED
  BY <1>1, <1>2, <1>3, <1>4 DEF StreamInv, OneDebtor

(* A step that moves no task, no row and no event changes nothing of it.    *)
LEMMA QuietStep ==
  ASSUME StreamInv, UNCHANGED <<run, log, pc, mem>>
  PROVE  StreamInv'
  BY DEF StreamInv, EventsAgree, OneDebtor, StandsRight, Owes, AloneCancels, Fresh

(* Every step keeps the stream true.                                       *)
LEMMA StreamStep ==
  ASSUME IInv, CopiesAreTheRow, EndsAgree, StreamInv, [Next]_vars
  PROVE  StreamInv'
<1>0. Onward /\ "exec" \in Task /\ "exec" \notin Canceller
  BY StepIsOnward, ConstantsAssumption DEF Task
<1>1. CASE ExecStep \/ Execute
  <2>1. Speaks("exec")
    BY <1>0, <1>1, DriversAreTasks, DriveSpeaks, ExecSpeaks, BlockSpeaks, NoteSpeaks
       DEF ExecStep
  <2>2. QED
    BY <1>0, <2>1, SpeakingStep
<1>2. ASSUME NEW r \in Resumer, ResumeStep(r) \/ Resume(r)
      PROVE  StreamInv'
  <2>1. r \in Task /\ r \notin Canceller
    BY KindsOfTasks
  <2>2. QED
    BY <1>0, <1>2, <2>1, ResumeSpeaks, SpeakingStep
<1>3. ASSUME NEW c \in Canceller, CancelStep(c) \/ Cancel(c)
      PROVE  StreamInv'
  BY <1>0, <1>3, KindsOfTasks, CancelSpeaks, SpeakingStep
<1>4. ASSUME NEW t \in Driver, GraphFails(t)
      PROVE  StreamInv'
  <2>1. Speaks(t) /\ t \in Task /\ t \notin Canceller
    BY <1>4, KindsOfTasks, AsideSpeaks DEF GraphFails, durable
  <2>2. QED
    BY <1>0, <2>1, SpeakingStep
<1>5. ASSUME NEW c \in DOMAIN call, CallStep(c) \/ Raise(c)
      PROVE  StreamInv'
  <2>1. Speaks(c[1]) /\ c[1] \in Task
    BY <1>5, CallSpeaks, TypeParts, CallsOfTasks DEF IInv
  <2>2. Goto(c[1], "raised") \/ UNCHANGED pc
    BY <1>5 DEF CallStep, Reserve, Complete, ForgetOrphan, Raise, Break, durable
  <2>3. pc'[c[1]] \in {pc[c[1]], "raised"} /\ mem'[c[1]] = mem[c[1]]
    BY <1>5, <2>1, <2>2 DEF Goto, IInv, TypeOK, CallStep, Reserve, Complete, ForgetOrphan,
       Raise, durable
  <2>4. QED
    BY <1>0, <2>1, <2>3, SpeakingStep
<1>6. CASE Crash
  BY <1>6, DeathStep DEF Crash
<1>7. CASE Lapse \/ UNCHANGED vars
  BY <1>7, QuietStep DEF Lapse, durable, vars
<1>8. QED
  BY <1>1, <1>2, <1>3, <1>4, <1>5, <1>6, <1>7 DEF Next, Program, World

(* The event stream tells the truth: an event names the end the run has     *)
(* come to, whoever appends it and however late, and with one process there *)
(* is at most one (recovery_run_service.py, cancel and _fail_execution;     *)
(* manual.py, _finish_stopped).                                            *)
THEOREM StreamCorrect == Spec => []StreamIsTruthful
<1>1. Init => EndsAgree /\ StreamInv
  BY KindsOfTasks DEF Init, EndsAgree, NoCopy, NewRow, Terminal, StreamInv, StandsRight, Owes,
     EventsAgree, OneDebtor, AloneCancels, BusyPc, EnginePc, StageNode, NotePc
<1>2. IInv /\ CopiesAreTheRow /\ EndsAgree /\ StreamInv /\ [Next]_vars =>
        EndsAgree' /\ StreamInv'
  BY StepIsOnward, EndsAgreeStep, StreamStep
<1>3. StreamInv => StreamIsTruthful
  BY DEF StreamInv, EventsAgree, OneDebtor, StreamIsTruthful
<1>4. QED
  BY <1>1, <1>2, <1>3, TypeIsInvariant, CopiesCorrect, PTL DEF Spec

-----------------------------------------------------------------------------
(* The verdict                                                             *)

(* The row has a result of worker w; of the survey; of the whole fan-out.   *)
Has(m, w) == \E d \in m.done : d[1][1] = w
Surveyed(m) == Has(m, "survey")
Covered(m) == \A w \in FanOut : Has(m, w)

(* What "completed" rests on.                                               *)
Earned(m) ==
  /\ m.result /\ HasMerge(m)
  /\ \A w \in FanOut \cup {"survey", "merge"} :
       \E d \in m.done : d[1][1] = w /\ d[2] = "completed"
  /\ \A d \in m.done : d[2] = "completed" \/ (d[1][1] \in Memory /\ d[2] # "degraded")

(* A row, or a copy of one, is whole: what it has was preceded by what it   *)
(* needs, and the units of a fan-out are pending or done together.          *)
WholeRow(m) ==
  /\ HasMerge(m) => Surveyed(m) /\ Covered(m) /\ Has(m, "merge")
  /\ m.snapshot => Surveyed(m)
  /\ DoneWorker(m, "column") => Covered(m)
  /\ \A k \in 0 .. MaxRounds : <<"column", k>> \in m.pending =>
       \A w \in FanOut : <<w, k>> \in m.pending \/ Has(m, w)
  /\ \A u \in m.pending : u[1] # "merge" /\ (u[1] = "evidence" => Covered(m))
  /\ m.status = "completed" => Earned(m)

(* Nodes after the survey, and after the fan-out, up to the merge.          *)
AfterSurvey == {"retrieve", "frontier", "fanout", "verify", "merge", "evidence", "deepen"}
AfterFanOut == {"verify", "merge", "evidence", "deepen"}
NodeOf(t) == IF pc[t] = "await" THEN node[t] ELSE pc[t]

(* A task is in order: its copy has what the node it stands at presupposes, *)
(* and it awaits exactly the units of its node.                             *)
InOrder(t) ==
  /\ NodeOf(t) \in AfterSurvey => Surveyed(mem[t])
  /\ NodeOf(t) \in AfterFanOut => Covered(mem[t])
  /\ pc[t] \in BusyPc \ {"announce"} => mem[t].status # "completed"
  /\ {c[2] : c \in Awaited(t)} =
       IF pc[t] = "await" THEN UnitsAt(node[t], mem[t]) ELSE {}

VerdictInv ==
  /\ WholeRow(run)
  /\ \A t \in Task : WholeRow(mem[t]) /\ InOrder(t)

(* What one step of task t may do to them.                                  *)
Advances(t) ==
  /\ \A u \in Task \ {t} : /\ pc'[u] = pc[u] /\ mem'[u] = mem[u] /\ node'[u] = node[u]
                           /\ Awaited(u)' = Awaited(u)
  /\ InOrder(t)'
  /\ WholeRow(run')

(* A new run, and a request that holds no copy, are whole.                 *)
LEMMA NewRowsWhole == WholeRow(NewRow) /\ WholeRow(NoCopy)
  BY DEF WholeRow, NoCopy, NewRow, HasMerge, DoneWorker

(* A step of one task that is in order leaves all of them in order.        *)
LEMMA AdvanceKeeps ==
  ASSUME VerdictInv, Shape, NEW t \in Task, Advances(t)
  PROVE  VerdictInv'
<1>1. ASSUME NEW u \in Task
      PROVE  WholeRow(mem'[u]) /\ InOrder(u)'
  <2>1. WholeRow(mem'[u])
    BY NewRowsWhole DEF Shape, CopyStep, VerdictInv, Advances
  <2>2. InOrder(u)'
    BY DEF Advances, VerdictInv, InOrder, NodeOf
  <2>3. QED
    BY <2>1, <2>2
<1>2. QED
  BY <1>1 DEF Advances, VerdictInv

(* A row that differs in nothing the verdict reads is as whole as before.   *)
SameRecord(m, n) ==
  /\ n.done = m.done /\ n.refs = m.refs /\ n.pending = m.pending
  /\ n.snapshot = m.snapshot /\ n.result = m.result
  /\ n.status \in {m.status} \cup (Status \ {"completed"})

(* The status may change, but not to completed.                            *)
LEMMA SameRecordWhole ==
  ASSUME NEW m, NEW n, WholeRow(m), SameRecord(m, n)
  PROVE  WholeRow(n)
<1>1. /\ HasMerge(n) = HasMerge(m) /\ Surveyed(n) = Surveyed(m) /\ Covered(n) = Covered(m)
      /\ DoneWorker(n, "column") = DoneWorker(m, "column")
      /\ \A w : Has(n, w) = Has(m, w)
  BY DEF SameRecord, HasMerge, Surveyed, Covered, Has, DoneWorker
<1>2. n.status = "completed" => m.status = "completed"
  BY DEF SameRecord
<1>3. Earned(m) => Earned(n)
  BY <1>1 DEF SameRecord, Earned
<1>4. QED
  BY <1>1, <1>2, <1>3 DEF WholeRow, SameRecord

(* Counting the version is such an update.                                 *)
LEMMA BumpWhole ==
  ASSUME NEW m \in Row, WholeRow(m)
  PROVE  WholeRow(Bump(m))
<1>1. SameRecord(m, Bump(m))
  BY DEF SameRecord, Bump, Row
<1>2. QED
  BY <1>1, SameRecordWhole

(* The verdict "completed" is given only to a row that earns it.            *)
LEMMA VerdictEarned ==
  ASSUME NEW m \in Row, WholeRow(m), Verdict(m) = "completed"
  PROVE  /\ HasMerge(m)
         /\ \A w \in FanOut \cup {"survey", "merge"} :
              \E d \in m.done : d[1][1] = w /\ d[2] = "completed"
         /\ \A d \in m.done : d[2] = "completed" \/ (d[1][1] \in Memory /\ d[2] # "degraded")
<1>1. /\ ~\E d \in m.done : d[1][1] \in Required /\ d[2] \notin Good
      /\ ~\E d \in m.done : d[1][1] = "orm" /\ d[2] \notin Good
      /\ ~\E d \in m.done : d[2] = "degraded"
      /\ HasMerge(m)
  <2> DEFINE a == \E d \in m.done : d[1][1] \in Required /\ d[2] \notin Good
             b == \E d \in m.done : d[1][1] = "orm" /\ d[2] \notin Good
             c == \E d \in m.done : d[2] = "degraded"
             e == HasMerge(m)
  <2>1. a \in BOOLEAN /\ b \in BOOLEAN /\ c \in BOOLEAN /\ e \in BOOLEAN
    BY DEF HasMerge
  <2>2. TerminalFor(a, b, c, e) = "completed"
    BY DEF Verdict
  <2> HIDE DEF a, b, c, e
  <2>3. ~a /\ ~b /\ ~c /\ e
    BY <2>1, <2>2 DEF TerminalFor
  <2>4. QED
    BY <2>3 DEF a, b, c, e
<1>2. \A d \in m.done : d[1][1] \in Worker
  BY DEF Row, Unit
<1>3. ASSUME NEW d \in m.done
      PROVE  d[2] = "completed" \/ (d[1][1] \in Memory /\ d[2] # "degraded")
  BY <1>1, <1>2 DEF Worker, Required, Good
<1>4. ASSUME NEW w \in FanOut \cup {"survey", "merge"}
      PROVE  \E d \in m.done : d[1][1] = w /\ d[2] = "completed"
  <2>1. w \notin Memory
    BY ConstantsAssumption DEF Memory
  <2>2. Has(m, w)
    BY <1>1 DEF WholeRow, Surveyed, Covered
  <2>3. QED
    BY <1>3, <2>1, <2>2 DEF Has
<1>5. QED
  BY <1>1, <1>3, <1>4

-----------------------------------------------------------------------------
(* What a group of results adds to a row.                                   *)
LEMMA JoinedRecord ==
  ASSUME NEW m \in Row, NEW us \in SUBSET Unit, NEW res \in [us -> Result]
  PROVE  LET n == Joined(m, us, res) IN
         /\ \A w : Has(n, w) <=> Has(m, w) \/ \E u \in us : u[1] = w
         /\ \A w : DoneWorker(n, w) <=> DoneWorker(m, w) \/ \E u \in us : WorkerOf(u) = w
         /\ HasMerge(n) => HasMerge(m) \/ \E u \in us : u[1] = "merge"
         /\ n.snapshot => m.snapshot \/ \E u \in us : u[1] \notin Memory
         /\ n.pending = m.pending \ us
<1> DEFINE n == Joined(m, us, res)
           out == {u \in us : res[u].out}
<1>1. /\ n.done = m.done \cup {<<u, res[u].status>> : u \in us}
      /\ n.refs = WithRefs(m.refs, out)
      /\ n.snapshot = (m.snapshot \/ \E u \in out : u[1] \notin Memory)
      /\ n.pending = m.pending \ us
  BY DEF Joined, Row
<1> HIDE DEF n
<1>2. HasMerge(n) => HasMerge(m) \/ \E u \in us : u[1] = "merge"
  <2> SUFFICES ASSUME NEW v \in n.refs, v[1] = "merge"
               PROVE  HasMerge(m) \/ \E u \in us : u[1] = "merge"
    BY DEF HasMerge
  <2>1. v \in m.refs \/ \E u \in out : v = RefOf(u)
    BY <1>1 DEF WithRefs
  <2>2. ASSUME NEW u \in out, v = RefOf(u)
        PROVE  u[1] = "merge"
    BY <2>2 DEF RefOf
  <2>3. QED
    BY <2>1, <2>2 DEF HasMerge
<1>a. ASSUME NEW u \in us
      PROVE  <<u, res[u].status>> \in n.done /\ <<u, res[u].status>>[1] = u
  BY <1>1
<1>b. ASSUME NEW d \in n.done
      PROVE  d \in m.done \/ \E u \in us : d[1] = u
  BY <1>1
<1>c. m.done \subseteq n.done
  BY <1>1
<1>3. ASSUME NEW w
      PROVE  Has(n, w) <=> Has(m, w) \/ \E u \in us : u[1] = w
  <2>1. ASSUME NEW u \in us, u[1] = w
        PROVE  Has(n, w)
    BY <1>a, <2>1 DEF Has
  <2>2. QED
    BY <1>b, <1>c, <2>1 DEF Has
<1>4. ASSUME NEW w
      PROVE  DoneWorker(n, w) <=> DoneWorker(m, w) \/ \E u \in us : WorkerOf(u) = w
  <2>1. ASSUME NEW u \in us, WorkerOf(u) = w
        PROVE  DoneWorker(n, w)
    BY <1>a, <2>1 DEF DoneWorker
  <2>2. QED
    BY <1>b, <1>c, <2>1 DEF DoneWorker
<1>5. QED
  BY <1>1, <1>2, <1>3, <1>4 DEF n

(* Joining the units of a node keeps the row whole, and gives the next node *)
(* what it presupposes.                                                    *)
LEMMA JoinedWhole ==
  ASSUME NEW m \in Row, NEW p \in StageNode, NEW us \in SUBSET Unit,
         NEW res \in [us -> Result],
         WholeRow(m), m.status # "completed",
         p \in AfterSurvey => Surveyed(m), p \in AfterFanOut => Covered(m),
         us \subseteq UnitsAt(p, m),
         \A u \in UnitsAt(p, m) : u \in us \/ DoneUnit(m, u)
  PROVE  LET n == Joined(m, us, res) IN
         /\ WholeRow(n)
         /\ Surveyed(m) => Surveyed(n)
         /\ Covered(m) => Covered(n)
         /\ p = "survey" => Surveyed(n)
         /\ p = "fanout" => Covered(n)
<1> DEFINE n == Joined(m, us, res)
<1>1. /\ \A w : Has(n, w) <=> Has(m, w) \/ \E u \in us : u[1] = w
      /\ DoneWorker(n, "column") => DoneWorker(m, "column") \/ \E u \in us : WorkerOf(u) = "column"
      /\ HasMerge(n) => HasMerge(m) \/ \E u \in us : u[1] = "merge"
      /\ n.snapshot => m.snapshot \/ \E u \in us : u[1] \notin Memory
      /\ n.pending = m.pending \ us
      /\ n.status # "completed"
  <2>1. /\ \A w : Has(n, w) <=> Has(m, w) \/ \E u \in us : u[1] = w
        /\ \A w : DoneWorker(n, w) <=> DoneWorker(m, w) \/ \E u \in us : WorkerOf(u) = w
        /\ HasMerge(n) => HasMerge(m) \/ \E u \in us : u[1] = "merge"
        /\ n.snapshot => m.snapshot \/ \E u \in us : u[1] \notin Memory
        /\ n.pending = m.pending \ us
    BY JoinedRecord
  <2>2. n.status \in {m.status, "blocked", "failed", "canceled"}
    BY JoinedStatus
  <2> HIDE DEF n
  <2>3. QED
    BY <2>1, <2>2
<1> HIDE DEF n
<1>2. \A u \in UnitsAt(p, m) : Has(n, u[1])
  BY <1>1 DEF DoneUnit, Has
<1>3. (Surveyed(m) => Surveyed(n)) /\ (Covered(m) => Covered(n))
  BY <1>1 DEF Surveyed, Covered
<1>4. p = "survey" => Surveyed(n)
  <2>1. CASE p = "survey" /\ m.snapshot
    BY <1>3, <2>1 DEF WholeRow
  <2>2. CASE p = "survey" /\ ~m.snapshot
    BY <1>2, <2>2 DEF UnitsAt, Surveyed
  <2>3. QED
    BY <2>1, <2>2
<1>5. p = "fanout" => Covered(n)
  <2>1. CASE p = "fanout" /\ m.engine # "langgraph" /\ DoneWorker(m, "column")
    BY <1>3, <2>1 DEF WholeRow
  <2>2. CASE p = "fanout" /\ ~(m.engine # "langgraph" /\ DoneWorker(m, "column"))
    <3>1. UnitsAt(p, m) = {<<w, m.round>> : w \in FanOut}
      BY <2>2 DEF UnitsAt
    <3>2. ASSUME NEW w \in FanOut
          PROVE  Has(n, w)
      <4>1. <<w, m.round>> \in UnitsAt(p, m) /\ <<w, m.round>>[1] = w
        BY <3>1
      <4>2. QED
        BY <1>2, <4>1
    <3>3. QED
      BY <3>2 DEF Covered
  <2>3. QED
    BY <2>1, <2>2
<1>6. ASSUME NEW u \in us
      PROVE  /\ u[1] = "merge" => p = "merge"
             /\ u[1] \notin Memory => p = "survey" \/ p \in AfterSurvey
             /\ WorkerOf(u) = "column" => p \in {"frontier", "fanout", "evidence"}
             /\ p = "frontier" => u \in m.pending /\ u = <<u[1], u[2]>> /\ u[2] \in 0 .. MaxRounds
  <2>1. u \in UnitsAt(p, m) /\ u = <<u[1], u[2]>> /\ u[2] \in 0 .. MaxRounds
    BY DEF Unit
  <2>2. CASE p \in {"retrieve", "verify", "consolidate"}
    <3>1. u[1] \in Memory
      BY <2>1, <2>2 DEF UnitsAt, Memory
    <3>2. QED
      BY <2>2, <3>1 DEF Memory, WorkerOf
  <2>3. CASE p = "frontier"
    BY <2>1, <2>3 DEF UnitsAt, WholeRow, AfterSurvey
  <2>4. CASE p = "fanout"
    <3>1. u[1] \in FanOut
      BY <2>1, <2>4 DEF UnitsAt
    <3>2. QED
      BY <2>4, <3>1, ConstantsAssumption DEF AfterSurvey
  <2>5. CASE p = "survey"
    BY <2>1, <2>5 DEF UnitsAt, WorkerOf
  <2>6. CASE p = "merge"
    BY <2>1, <2>6 DEF UnitsAt, WorkerOf, AfterSurvey
  <2>7. CASE p = "evidence"
    BY <2>1, <2>7 DEF UnitsAt, AfterSurvey
  <2>8. QED
    BY <2>2, <2>3, <2>4, <2>5, <2>6, <2>7 DEF StageNode
<1>7. HasMerge(n) => Surveyed(n) /\ Covered(n) /\ Has(n, "merge")
  BY <1>1, <1>3, <1>6 DEF WholeRow, AfterSurvey, AfterFanOut
<1>8. n.snapshot => Surveyed(n)
  BY <1>1, <1>3, <1>4, <1>6 DEF WholeRow
<1>9. ASSUME NEW k \in 0 .. MaxRounds, <<"column", k>> \in m.pending, NEW w \in FanOut
      PROVE  <<w, k>> \in n.pending \/ Has(n, w)
  BY <1>1, <1>9 DEF WholeRow
<1>10. DoneWorker(n, "column") => Covered(n)
  <2>1. CASE DoneWorker(m, "column")
    BY <1>3, <2>1 DEF WholeRow
  <2>2. ASSUME NEW u \in us, WorkerOf(u) = "column", p = "frontier"
        PROVE  Covered(n)
    <3>1. CASE u[1] = "evidence"
      BY <1>3, <1>6, <2>2, <3>1 DEF WholeRow
    <3>2. CASE u[1] = "column"
      <4>1. ASSUME NEW w \in FanOut
            PROVE  Has(n, w)
        <5>1. <<w, u[2]>> \in m.pending \/ Has(m, w)
          BY <1>6, <2>2, <3>2 DEF WholeRow
        <5>2. ASSUME <<w, u[2]>> \in m.pending
              PROVE  Has(n, w)
          <6>1. DoneUnit(m, <<w, u[2]>>) \/ <<w, u[2]>> \in UnitsAt(p, m)
            BY <2>2, <5>2 DEF UnitsAt
          <6>2. DoneUnit(m, <<w, u[2]>>) => Has(m, w)
            BY DEF DoneUnit, Has
          <6>3. <<w, u[2]>> \in UnitsAt(p, m) => Has(n, w)
            BY <1>2
          <6>4. QED
            BY <1>1, <6>1, <6>2, <6>3
        <5>3. QED
          BY <1>1, <5>1, <5>2
      <4>2. QED
        BY <4>1 DEF Covered
    <3>3. QED
      BY <2>2, <3>1, <3>2 DEF WorkerOf
  <2>3. CASE p = "evidence"
    BY <1>3, <2>3 DEF AfterFanOut
  <2>4. QED
    BY <1>1, <1>5, <1>6, <2>1, <2>2, <2>3
<1>11. \A u \in n.pending : u[1] # "merge" /\ (u[1] = "evidence" => Covered(n))
  BY <1>1, <1>3 DEF WholeRow
<1>12. \A k \in 0 .. MaxRounds : <<"column", k>> \in n.pending => <<"column", k>> \in m.pending
  BY <1>1
<1>13. WholeRow(n)
  BY <1>1, <1>7, <1>8, <1>9, <1>10, <1>11, <1>12 DEF WholeRow
<1>14. QED
  BY <1>3, <1>4, <1>5, <1>13 DEF n

-----------------------------------------------------------------------------
(* What a step of one task must show to advance the run in order.          *)

(* The stages a task awaits are touched by its own steps only.              *)
OthersAwait(t) ==
  \A u \in Task \ {t} : node'[u] = node[u] /\ Awaited(u)' = Awaited(u)

(* A task that has left the nodes, or enters one without stages to await.   *)
LEMMA MoveAdvances ==
  ASSUME IInv, VerdictInv, NEW t \in Task, NEW p, Goto(t, p),
         p \notin AfterSurvey, p \notin (BusyPc \ {"announce"}),
         UNCHANGED mem \/ \E m : mem' = [mem EXCEPT ![t] = m],
         WholeRow(run'), OthersAwait(t), Awaited(t)' = {}
  PROVE  Advances(t)
<1>1. pc \in [Task -> Pc] /\ mem \in [Task -> Row]
  BY DEF IInv, TypeOK
<1>2. pc'[t] = p /\ p # "await"
  BY <1>1 DEF Goto, BusyPc, EnginePc
<1>3. \A u \in Task \ {t} : pc'[u] = pc[u] /\ mem'[u] = mem[u]
  BY <1>1 DEF Goto
<1>4. InOrder(t)'
  BY <1>2 DEF InOrder, NodeOf, AfterSurvey, AfterFanOut
<1>5. QED
  BY <1>3, <1>4 DEF Advances, OthersAwait

(* A task that saves a whole row and goes where that row allows it to be.   *)
LEMMA SaveAdvances ==
  ASSUME IInv, CopiesAreTheRow, VerdictInv, NEW t \in Task, NEW new \in Row, NEW next,
         Save(t, new, next), WholeRow(new), next # "await",
         next \in AfterSurvey => Surveyed(new),
         next \in AfterFanOut => Covered(new),
         next \in BusyPc \ {"announce"} => new.status # "completed",
         OthersAwait(t), Awaited(t)' = {}
  PROVE  Advances(t)
<1>1. CASE /\ pc'[t] = "raised" /\ UNCHANGED <<run, mem>>
           /\ \A u \in Task \ {t} : pc'[u] = pc[u] /\ mem'[u] = mem[u]
  <2>1. InOrder(t)'
    BY <1>1 DEF InOrder, NodeOf, AfterSurvey, AfterFanOut, BusyPc, EnginePc, StageNode
  <2>2. QED
    BY <1>1, <2>1 DEF Advances, OthersAwait, VerdictInv
<1>2. CASE /\ pc'[t] = next /\ mem'[t] = run' /\ run' = Bump(new)
           /\ \A u \in Task \ {t} : pc'[u] = pc[u] /\ mem'[u] = mem[u]
  <2>1. /\ Surveyed(Bump(new)) = Surveyed(new) /\ Covered(Bump(new)) = Covered(new)
        /\ Bump(new).status = new.status
    BY DEF Bump, Row, Surveyed, Covered, Has
  <2>2. InOrder(t)'
    BY <1>2, <2>1 DEF InOrder, NodeOf
  <2>3. WholeRow(run')
    BY <1>2, BumpWhole
  <2>4. QED
    BY <1>2, <2>2, <2>3 DEF Advances, OthersAwait
<1>3. QED
  BY <1>1, <1>2, SaveOrRaise

(* A step that leaves the stages alone, of a task that awaits none.         *)
LEMMA NoStageTouched ==
  ASSUME VerdictInv, NEW t \in Task, UNCHANGED <<node, call>>
  PROVE  OthersAwait(t) /\ (pc[t] # "await" => Awaited(t)' = {})
<1>1. \A u \in Task : Awaited(u)' = Awaited(u)
  BY DEF Awaited
<1>2. pc[t] # "await" => Awaited(t) = {}
  BY DEF VerdictInv, InOrder
<1>3. QED
  BY <1>1, <1>2 DEF OthersAwait

(* A task that no longer awaits its stages.                                 *)
LEMMA StagesDropped ==
  ASSUME NEW t \in Task, UNCHANGED node, call' = Without(Awaited(t))
  PROVE  OthersAwait(t) /\ Awaited(t)' = {}
<1>1. DOMAIN call' = DOMAIN call \ Awaited(t)
  BY DEF Without
<1>2. QED
  BY <1>1 DEF OthersAwait, Awaited

(* Updates of the row that the verdict does not depend on.                  *)
LEMMA UpdatesWhole ==
  ASSUME NEW m \in Row, WholeRow(m), NEW s \in Status \ {"completed"}
  PROVE  /\ WholeRow([m EXCEPT !.status = s])
         /\ WholeRow([m EXCEPT !.status = s, !.interrupt = TRUE])
         /\ \A r \in Resumer : WholeRow([m EXCEPT !.status = s, !.interrupt = FALSE,
                                                 !.decisions = @ \cup {r}])
         /\ WholeRow([m EXCEPT !.cancelReq = TRUE])
         /\ WholeRow([m EXCEPT !.round = @ + 1])
         /\ WholeRow([m EXCEPT !.engine = "manual", !.fallbacks = @ + 1])
<1>1. WholeRow([m EXCEPT !.status = s])
  <2>1. SameRecord(m, [m EXCEPT !.status = s])
    BY DEF SameRecord, Row
  <2>2. QED
    BY <2>1, SameRecordWhole
<1>2. WholeRow([m EXCEPT !.status = s, !.interrupt = TRUE])
  <2>1. SameRecord(m, [m EXCEPT !.status = s, !.interrupt = TRUE])
    BY DEF SameRecord, Row
  <2>2. QED
    BY <2>1, SameRecordWhole
<1>3. ASSUME NEW r \in Resumer
      PROVE  WholeRow([m EXCEPT !.status = s, !.interrupt = FALSE, !.decisions = @ \cup {r}])
  <2>1. SameRecord(m, [m EXCEPT !.status = s, !.interrupt = FALSE, !.decisions = @ \cup {r}])
    BY DEF SameRecord, Row
  <2>2. QED
    BY <2>1, SameRecordWhole
<1>4. WholeRow([m EXCEPT !.cancelReq = TRUE])
  <2>1. SameRecord(m, [m EXCEPT !.cancelReq = TRUE])
    BY DEF SameRecord, Row
  <2>2. QED
    BY <2>1, SameRecordWhole
<1>5. WholeRow([m EXCEPT !.round = @ + 1])
  <2>1. SameRecord(m, [m EXCEPT !.round = @ + 1])
    BY DEF SameRecord, Row
  <2>2. QED
    BY <2>1, SameRecordWhole
<1>6. WholeRow([m EXCEPT !.engine = "manual", !.fallbacks = @ + 1])
  <2>1. SameRecord(m, [m EXCEPT !.engine = "manual", !.fallbacks = @ + 1])
    BY DEF SameRecord, Row
  <2>2. QED
    BY <2>1, SameRecordWhole
<1>7. QED
  BY <1>1, <1>2, <1>3, <1>4, <1>5, <1>6

-----------------------------------------------------------------------------
(* The steps of the engines advance the run in order.                      *)

(* What a driving task is known to be.                                     *)
LEMMA DriverParts ==
  ASSUME IInv, VerdictInv, NEW t \in Driver
  PROVE  /\ t \in Task /\ mem[t] \in Row /\ WholeRow(mem[t]) /\ InOrder(t)
         /\ node[t] \in StageNode /\ pc \in [Task -> Pc] /\ mem \in [Task -> Row]
         /\ run \in Row /\ WholeRow(run) /\ node \in [Task -> StageNode]
  BY KindsOfTasks DEF IInv, TypeOK, VerdictInv

LEMMA EnterAdvances ==
  ASSUME IInv, CopiesAreTheRow, StreamInv, VerdictInv, NEW t \in Driver, Enter(t)
  PROVE  Advances(t)
<1> DEFINE m == mem[t]
<1>0. /\ t \in Task /\ m \in Row /\ WholeRow(m) /\ OthersAwait(t) /\ Awaited(t)' = {}
      /\ pc \in [Task -> Pc] /\ mem \in [Task -> Row] /\ WholeRow(run)
  BY DriverParts, NoStageTouched DEF Enter
<1>1. ASSUME NEW s \in {"canceled", "running"}, NEW p \in {"announce", "survey"},
             Save(t, [m EXCEPT !.status = s], p)
      PROVE  Advances(t)
  <2> DEFINE n == [m EXCEPT !.status = s]
  <2>1. n \in Row /\ n.status = s /\ WholeRow(n) /\ Save(t, n, p)
    BY <1>0, <1>1, UpdatesWhole DEF Row, Status, Terminal
  <2> HIDE DEF n
  <2>2. QED
    BY <1>0, <2>1, SaveAdvances DEF AfterSurvey, AfterFanOut
<1>2. CASE Goto(t, "return") /\ UNCHANGED <<run, mem>>
  BY <1>0, <1>2, MoveAdvances DEF AfterSurvey, BusyPc, EnginePc, StageNode
<1>3. CASE Goto(t, "survey") /\ UNCHANGED <<run, mem>> /\ m.engine # "manual"
  <2>1. m.status # "completed"
    <3>1. m.engine = "langgraph" /\ pc[t] = "enter"
      BY <1>0, <1>3 DEF Row, Engine, Enter
    <3>2. QED
      BY <1>0, <3>1 DEF StreamInv, StandsRight
  <2>2. InOrder(t)'
    BY <1>0, <1>3, <2>1 DEF Goto, InOrder, NodeOf, AfterSurvey, AfterFanOut
  <2>3. QED
    BY <1>0, <1>3, <2>2 DEF Goto, Advances, OthersAwait
<1>4. \/ \E w \in {"canceled", "running"}, p \in {"announce", "survey"} :
           Save(t, [m EXCEPT !.status = w], p)
      \/ Goto(t, "return") /\ UNCHANGED <<run, mem>>
      \/ Goto(t, "survey") /\ UNCHANGED <<run, mem>> /\ m.engine # "manual"
  BY DEF Enter
<1>5. QED
  BY <1>1, <1>2, <1>3, <1>4

LEMMA SkipAdvances ==
  ASSUME IInv, VerdictInv, NEW t \in Driver, Skip(t)
  PROVE  Advances(t)
<1> DEFINE m == mem[t]
           q == Following(pc[t], m.engine)
<1>0. /\ t \in Task /\ m \in Row /\ WholeRow(m) /\ InOrder(t)
      /\ OthersAwait(t) /\ Awaited(t)' = {}
      /\ pc \in [Task -> Pc] /\ mem \in [Task -> Row] /\ WholeRow(run)
      /\ pc[t] \in StageNode
  BY DriverParts, NoStageTouched DEF Skip, StageNode
<1>1. pc[t] = "survey" => Surveyed(m)
  BY <1>0 DEF Skip, UnitsAt, WholeRow
<1>2. pc[t] = "fanout" => Covered(m)
  <2>1. <<"column", m.round>> \in {<<w, m.round>> : w \in FanOut}
    BY ConstantsAssumption
  <2>2. QED
    BY <1>0, <2>1 DEF Skip, UnitsAt, WholeRow
<1>3. /\ q \in AfterSurvey => Surveyed(m)
      /\ q \in AfterFanOut => Covered(m)
      /\ m.status # "completed" /\ q # "await"
  BY <1>0, <1>1, <1>2 DEF InOrder, NodeOf, Following, AfterSurvey, AfterFanOut, StageNode,
     BusyPc, EnginePc
<1>4. InOrder(t)'
  <2> HIDE DEF q, m
  <2>1. pc'[t] = q /\ mem'[t] = m
    BY <1>0 DEF Skip, Goto, q, m
  <2>2. QED
    BY <1>0, <1>3, <2>1 DEF InOrder, NodeOf
<1>5. QED
  BY <1>0, <1>4 DEF Skip, Goto, Advances, OthersAwait, durable

(* Scheduling a node's units leaves the row whole.                          *)
LEMMA PlannedWhole ==
  ASSUME NEW m \in Row, WholeRow(m), NEW p \in Grouped(m.engine),
         p = "evidence" => Covered(m)
  PROVE  WholeRow([m EXCEPT !.pending = @ \cup UnitsAt(p, m)])
<1> DEFINE us == UnitsAt(p, m)
           n == [m EXCEPT !.pending = @ \cup us]
<1>0. p \in {"survey", "frontier", "fanout", "evidence"}
  BY DEF Grouped
<1>1. /\ n.pending = m.pending \cup us
      /\ HasMerge(n) = HasMerge(m) /\ Surveyed(n) = Surveyed(m) /\ Covered(n) = Covered(m)
      /\ DoneWorker(n, "column") = DoneWorker(m, "column")
      /\ \A w : Has(n, w) = Has(m, w)
      /\ n.snapshot = m.snapshot /\ n.status = m.status /\ Earned(n) = Earned(m)
  BY DEF Row, HasMerge, Surveyed, Covered, Has, DoneWorker, Earned
<1>2. ASSUME NEW u \in us
      PROVE  u[1] # "merge" /\ (u[1] = "evidence" => Covered(n))
  <2>1. CASE p = "survey"
    BY <2>1 DEF UnitsAt
  <2>2. CASE p = "frontier"
    BY <1>1, <2>2 DEF UnitsAt, WholeRow
  <2>3. CASE p = "fanout"
    <3>1. u[1] \in FanOut
      BY <2>3 DEF UnitsAt
    <3>2. QED
      BY <3>1, ConstantsAssumption
  <2>4. CASE p = "evidence"
    BY <1>1, <2>4 DEF UnitsAt
  <2>5. QED
    BY <1>0, <2>1, <2>2, <2>3, <2>4
<1>3. ASSUME NEW k \in 0 .. MaxRounds, <<"column", k>> \in n.pending, NEW w \in FanOut
      PROVE  <<w, k>> \in n.pending \/ Has(n, w)
  <2>1. CASE <<"column", k>> \in m.pending
    BY <1>1, <2>1 DEF WholeRow
  <2>2. CASE <<"column", k>> \in us
    <3>1. CASE p = "fanout"
      <4>1. us = {<<v, m.round>> : v \in FanOut}
        BY <2>2, <3>1 DEF UnitsAt
      <4>2. k = m.round
        BY <2>2, <4>1
      <4>3. <<w, k>> \in us
        BY <4>1, <4>2
      <4>4. QED
        BY <1>1, <4>3
    <3>2. CASE p = "frontier"
      <4>1. <<"column", k>> \in m.pending
        BY <2>2, <3>2 DEF UnitsAt
      <4>2. QED
        BY <2>1, <4>1
    <3>3. CASE p \in {"survey", "evidence"}
      BY <2>2, <3>3 DEF UnitsAt
    <3>4. QED
      BY <1>0, <3>1, <3>2, <3>3
  <2>3. QED
    BY <1>1, <1>3, <2>1, <2>2
<1> HIDE DEF n, us
<1>4. \A u \in n.pending : u[1] # "merge" /\ (u[1] = "evidence" => Covered(n))
  BY <1>1, <1>2 DEF WholeRow
<1>5. WholeRow(n)
  BY <1>1, <1>3, <1>4 DEF WholeRow
<1>6. QED
  BY <1>5 DEF n, us

(* Planning them changes nothing of what the node has to run.               *)
LEMMA PlannedUnits ==
  ASSUME NEW m \in Row, NEW p \in StageNode
  PROVE  LET n == [m EXCEPT !.pending = @ \cup UnitsAt(p, m)] IN
         /\ UnitsAt(p, n) = UnitsAt(p, m)
         /\ UnitsAt(p, Bump(n)) = UnitsAt(p, n)
<1> DEFINE us == UnitsAt(p, m)
           n == [m EXCEPT !.pending = @ \cup us]
<1>1. /\ n.pending = m.pending \cup us /\ n.done = m.done /\ n.engine = m.engine
      /\ n.snapshot = m.snapshot /\ n.round = m.round /\ n.decisions = m.decisions
      /\ n.refs = m.refs
  BY DEF Row
<1>2. /\ \A w : DoneWorker(n, w) = DoneWorker(m, w)
      /\ \A u : DoneUnit(n, u) = DoneUnit(m, u)
      /\ HasMerge(n) = HasMerge(m)
  BY <1>1 DEF DoneWorker, DoneUnit, HasMerge
<1>3. p = "frontier" => us = {u \in m.pending : ~DoneUnit(m, u)}
  BY DEF UnitsAt
<1>4. UnitsAt(p, n) = us
  <2>1. CASE p = "frontier"
    <3>1. UnitsAt(p, n) = {u \in n.pending : ~DoneUnit(n, u)}
      BY <2>1 DEF UnitsAt
    <3>2. QED
      BY <1>1, <1>2, <1>3, <2>1, <3>1
  <2>2. CASE p # "frontier"
    <3> HIDE DEF n
    <3>1. QED
      BY <1>1, <1>2, <2>2 DEF UnitsAt, StageNode, us
  <2>3. QED
    BY <2>1, <2>2
<1>5. UnitsAt(p, Bump(n)) = UnitsAt(p, n)
  <2> DEFINE b == Bump(n)
  <2>1. /\ b.pending = n.pending /\ b.done = n.done /\ b.engine = n.engine
        /\ b.snapshot = n.snapshot /\ b.round = n.round /\ b.decisions = n.decisions
        /\ b.refs = n.refs
    BY DEF Row, Bump
  <2> HIDE DEF b, n
  <2>2. /\ \A w : DoneWorker(b, w) = DoneWorker(n, w)
        /\ \A u : DoneUnit(b, u) = DoneUnit(n, u)
        /\ HasMerge(b) = HasMerge(n)
    BY <2>1 DEF DoneWorker, DoneUnit, HasMerge
  <2>3. UnitsAt(p, b) = UnitsAt(p, n)
    BY <2>1, <2>2 DEF UnitsAt, StageNode
  <2>4. QED
    BY <2>3 DEF b
<1>6. QED
  BY <1>4, <1>5

LEMMA LaunchAdvances ==
  ASSUME IInv, CopiesAreTheRow, VerdictInv, NEW t \in Driver, Launch(t)
  PROVE  Advances(t)
<1> DEFINE m == mem[t]
           p == pc[t]
           us == UnitsAt(p, m)
           n == [m EXCEPT !.pending = @ \cup us]
           new == {t} \X us \X {TRUE}
<1>0. /\ t \in Task /\ m \in Row /\ WholeRow(m) /\ InOrder(t) /\ WholeRow(run)
      /\ pc \in [Task -> Pc] /\ mem \in [Task -> Row] /\ node \in [Task -> StageNode]
      /\ p \in StageNode /\ Awaited(t) = {}
  BY DriverParts DEF Launch, StageNode, InOrder
<1>1. /\ p \in AfterSurvey => Surveyed(m)
      /\ p \in AfterFanOut => Covered(m)
      /\ m.status # "completed"
  BY <1>0 DEF InOrder, NodeOf, StageNode, BusyPc, EnginePc
<1>2. ASSUME pc'[t] = "await"
      PROVE  /\ node' = [node EXCEPT ![t] = p] /\ OthersAwait(t)
             /\ {c[2] : c \in Awaited(t)'} = us
  <2>1. node' = [node EXCEPT ![t] = p] /\ DOMAIN call' = new \cup DOMAIN call
    BY <1>2 DEF Launch
  <2>2. \A u \in Task \ {t} : Awaited(u)' = Awaited(u)
    BY <2>1 DEF Awaited
  <2>3. Awaited(t)' = new
    BY <1>0, <2>1 DEF Awaited
  <2>4. \A u \in us : <<t, u, TRUE>> \in new /\ <<t, u, TRUE>>[2] = u
    OBVIOUS
  <2>5. QED
    BY <1>0, <2>1, <2>2, <2>3, <2>4 DEF OthersAwait
<1>3. ASSUME pc'[t] # "await"
      PROVE  OthersAwait(t) /\ Awaited(t)' = {}
  <2>1. UNCHANGED <<node, call>>
    BY <1>3 DEF Launch
  <2>2. \A u \in Task : Awaited(u)' = Awaited(u)
    BY <2>1 DEF Awaited
  <2>3. QED
    BY <1>0, <2>1, <2>2 DEF OthersAwait
<1>4. CASE Goto(t, "await") /\ UNCHANGED <<run, mem>>
  <2>1. pc'[t] = "await" /\ \A u \in Task \ {t} : pc'[u] = pc[u]
    BY <1>0, <1>4 DEF Goto
  <2>2. node'[t] = p
    BY <1>0, <1>2, <2>1
  <2>3. InOrder(t)'
    BY <1>0, <1>1, <1>2, <1>4, <2>1, <2>2 DEF InOrder, NodeOf
  <2>4. QED
    BY <1>0, <1>2, <1>4, <2>1, <2>3 DEF Advances, OthersAwait
<1>5. CASE Save(t, n, "await") /\ p \in Grouped(m.engine)
  <2>1. n \in Row
    <3>1. us \in SUBSET Unit
      BY <1>0, UnitsAreUnits
    <3>2. QED
      BY <1>0, <3>1 DEF Row
  <2>2. WholeRow(n)
    BY <1>0, <1>1, <1>5, PlannedWhole DEF AfterFanOut
  <2>3. UnitsAt(p, Bump(n)) = us
    BY <1>0, PlannedUnits
  <2>4. /\ Surveyed(Bump(n)) = Surveyed(m) /\ Covered(Bump(n)) = Covered(m)
        /\ Bump(n).status = m.status
    BY <1>0 DEF Bump, Row, Surveyed, Covered, Has
  <2>5. WholeRow(Bump(n))
    BY <2>1, <2>2, BumpWhole
  <2> HIDE DEF n, us, new
  <2>6. CASE pc'[t] = "raised" /\ UNCHANGED <<run, mem>>
             /\ \A u \in Task \ {t} : pc'[u] = pc[u] /\ mem'[u] = mem[u]
    <3>1. InOrder(t)'
      BY <1>3, <2>6 DEF InOrder, NodeOf, AfterSurvey, AfterFanOut, BusyPc, EnginePc, StageNode
    <3>2. QED
      BY <1>0, <1>3, <2>6, <3>1 DEF Advances, OthersAwait
  <2>7. CASE /\ pc'[t] = "await" /\ mem'[t] = run' /\ run' = Bump(n)
             /\ \A u \in Task \ {t} : pc'[u] = pc[u] /\ mem'[u] = mem[u]
    <3>1. node'[t] = p
      BY <1>0, <1>2, <2>7
    <3>2. InOrder(t)'
      BY <1>1, <1>2, <2>3, <2>4, <2>7, <3>1 DEF InOrder, NodeOf
    <3>3. QED
      BY <1>2, <2>5, <2>7, <3>2 DEF Advances, OthersAwait
  <2>8. QED
    BY <1>0, <1>5, <2>1, <2>6, <2>7, SaveOrRaise
<1>6. QED
  BY <1>4, <1>5 DEF Launch

(* Where the engine routes a joined group, its row allows it to be.         *)
LEMMA RouteInOrder ==
  ASSUME NEW p \in StageNode, NEW n \in Row, NEW v,
         p \in AfterSurvey \cup {"survey"} => Surveyed(n),
         p \in AfterFanOut \cup {"fanout"} => Covered(n)
  PROVE  /\ Route(p, n, v) \in AfterSurvey => Surveyed(n)
         /\ Route(p, n, v) \in AfterFanOut => Covered(n)
         /\ Route(p, n, v) # "await"
  BY DEF Route, Following, StageNode, AfterSurvey, AfterFanOut

LEMMA JoinAdvances ==
  ASSUME IInv, CopiesAreTheRow, VerdictInv, NEW t \in Driver, Join(t)
  PROVE  Advances(t)
<1> DEFINE m == mem[t]
           p == node[t]
           us == {c[2] : c \in {d \in Awaited(t) :
                   m.engine = "langgraph" /\ p \in {"fanout", "evidence"} =>
                     ~DoneUnit(m, d[2])}}
           res == [u \in us |-> call[<<t, u, TRUE>>].res]
           new == Joined(m, us, res)
           asked == IF p = "merge" THEN res[<<"merge", m.round>>].next
                    ELSE "accept"
<1>0. /\ t \in Task /\ m \in Row /\ WholeRow(m) /\ InOrder(t) /\ p \in StageNode
      /\ CallsOK /\ pc[t] = "await" /\ OthersAwait(t) /\ Awaited(t)' = {}
  BY DriverParts, TypeParts, StagesDropped DEF IInv, Join
<1>1. us \in SUBSET Unit /\ res \in [us -> Result]
  <2>1. \A c \in Awaited(t) : /\ c[2] \in Unit /\ <<t, c[2], TRUE>> \in DOMAIN call
                              /\ call[<<t, c[2], TRUE>>].res \in Result
    BY <1>0, CallsOfTasks DEF Awaited, Call
  <2>2. QED
    BY <2>1
<1>2. us \subseteq UnitsAt(p, m) /\ \A u \in UnitsAt(p, m) : u \in us \/ DoneUnit(m, u)
  <2>1. {c[2] : c \in Awaited(t)} = UnitsAt(p, m)
    BY <1>0 DEF InOrder
  <2>2. QED
    BY <2>1
<1>3. /\ p \in AfterSurvey => Surveyed(m)
      /\ p \in AfterFanOut => Covered(m)
      /\ m.status # "completed"
  BY <1>0 DEF InOrder, NodeOf, BusyPc, EnginePc
<1>4. Save(t, new, Route(p, new, asked))
  BY DEF Join
<1>5. new \in Row /\ new.status # "completed"
  <2>1. new.status \in {m.status, "blocked", "failed", "canceled"}
    <3> HIDE DEF us, res, m
    <3>1. QED
      BY <1>0, <1>1, JoinedStatus
  <2>2. new \in Row
    <3> HIDE DEF us, res, m
    <3>1. QED
      BY <1>0, <1>1, JoinedIsRow
  <2>3. QED
    BY <1>3, <2>1, <2>2
<1>6. /\ WholeRow(new)
      /\ Surveyed(m) => Surveyed(new)
      /\ Covered(m) => Covered(new)
      /\ p = "survey" => Surveyed(new)
      /\ p = "fanout" => Covered(new)
  <2> HIDE DEF us, res, m, p
  <2>1. QED
    BY <1>0, <1>1, <1>2, <1>3, JoinedWhole
<1> HIDE DEF us, res, new, asked, m, p
<1>7. /\ Route(p, new, asked) \in AfterSurvey => Surveyed(new)
      /\ Route(p, new, asked) \in AfterFanOut => Covered(new)
      /\ Route(p, new, asked) # "await"
  BY <1>0, <1>3, <1>5, <1>6, RouteInOrder
<1>8. QED
  BY <1>0, <1>4, <1>5, <1>6, <1>7, SaveAdvances

LEMMA DeepenAdvances ==
  ASSUME IInv, CopiesAreTheRow, VerdictInv, NEW t \in Driver, Deepen(t)
  PROVE  Advances(t)
<1> DEFINE m == mem[t]
           n == [m EXCEPT !.round = @ + 1]
<1>0. /\ t \in Task /\ m \in Row /\ WholeRow(m) /\ InOrder(t) /\ pc[t] = "deepen"
      /\ OthersAwait(t) /\ Awaited(t)' = {}
  BY DriverParts, NoStageTouched DEF Deepen
<1>1. n \in Row
  <2>1. m.round + 1 \in 0 .. MaxRounds
    BY <1>0, ConstantsAssumption DEF IInv, DeepensInBounds, Row
  <2>2. QED
    BY <1>0, <2>1 DEF Row
<1>2. WholeRow(n)
  <2>1. "running" \in Status \ {"completed"}
    BY DEF Status
  <2>2. QED
    BY <1>0, <2>1, UpdatesWhole
<1>3. /\ Surveyed(n) /\ Covered(n) /\ n.status # "completed"
  <2>1. Surveyed(m) /\ Covered(m) /\ m.status # "completed"
    BY <1>0 DEF InOrder, NodeOf, AfterSurvey, AfterFanOut, BusyPc, EnginePc
  <2>2. n.done = m.done /\ n.status = m.status
    BY <1>0 DEF Row
  <2> HIDE DEF n
  <2>3. QED
    BY <2>1, <2>2 DEF Surveyed, Covered, Has
<1>4. Save(t, n, "evidence")
  BY DEF Deepen
<1> HIDE DEF n
<1>5. QED
  BY <1>0, <1>1, <1>2, <1>3, <1>4, SaveAdvances

LEMMA PauseAdvances ==
  ASSUME IInv, CopiesAreTheRow, VerdictInv, NEW t \in Driver, Pause(t) \/ PauseSave(t)
  PROVE  Advances(t)
<1>0. /\ t \in Task /\ mem[t] \in Row /\ WholeRow(mem[t]) /\ WholeRow(run)
      /\ OthersAwait(t) /\ Awaited(t)' = {}
  BY DriverParts, NoStageTouched DEF Pause, PauseSave
<1>1. CASE Pause(t)
  <2>1. /\ Goto(t, "return") \/ Goto(t, "pause_save")
        /\ UNCHANGED mem \/ mem' = [mem EXCEPT ![t] = run]
        /\ UNCHANGED run
    BY <1>1 DEF Pause
  <2>2. QED
    BY <1>0, <2>1, MoveAdvances DEF AfterSurvey, BusyPc, EnginePc, StageNode
<1>2. CASE PauseSave(t)
  <2> DEFINE n == [mem[t] EXCEPT !.status = "waiting_approval", !.interrupt = TRUE]
  <2>1. n \in Row /\ WholeRow(n) /\ Save(t, n, "return")
    BY <1>0, <1>2, UpdatesWhole DEF PauseSave, Row, Status, Terminal
  <2> HIDE DEF n
  <2>2. QED
    BY <1>0, <2>1, SaveAdvances DEF AfterSurvey, AfterFanOut, BusyPc, EnginePc, StageNode
<1>3. QED
  BY <1>1, <1>2

(* The verdict is put on a whole row, and "completed" only on one that      *)
(* earned it.                                                              *)
LEMMA FinalizeAdvances ==
  ASSUME IInv, CopiesAreTheRow, VerdictInv, NEW t \in Driver, Finalize(t)
  PROVE  Advances(t)
<1> DEFINE m == mem[t]
           s == IF m.engine = "langgraph" /\ m.status # "running" THEN m.status
                ELSE Verdict(m)
           n == [m EXCEPT !.status = s, !.result = @ \/ HasMerge(m)]
<1>0. /\ t \in Task /\ m \in Row /\ WholeRow(m) /\ InOrder(t) /\ pc[t] = "finalize"
      /\ OthersAwait(t) /\ Awaited(t)' = {}
  BY DriverParts, NoStageTouched DEF Finalize
<1>1. s \in Status /\ (m.result \/ HasMerge(m)) \in BOOLEAN
  <2>1. Verdict(m) \in Terminal
    BY VerdictIsTerminal DEF Verdict, HasMerge
  <2>2. QED
    BY <1>0, <2>1 DEF Row, Status, HasMerge
<1>2. s = "completed" => Verdict(m) = "completed"
  BY <1>0 DEF InOrder, NodeOf, BusyPc, EnginePc
<1> HIDE DEF s
<1>3. /\ n \in Row /\ n.status = s /\ n.result = (m.result \/ HasMerge(m))
      /\ n.done = m.done /\ n.refs = m.refs /\ n.pending = m.pending
      /\ n.snapshot = m.snapshot
  BY <1>0, <1>1 DEF Row
<1>4. Save(t, n, "announce")
  BY DEF Finalize, s
<1> HIDE DEF n
<1>5. /\ HasMerge(n) = HasMerge(m) /\ Surveyed(n) = Surveyed(m) /\ Covered(n) = Covered(m)
      /\ DoneWorker(n, "column") = DoneWorker(m, "column")
      /\ \A w : Has(n, w) = Has(m, w)
  BY <1>3 DEF HasMerge, Surveyed, Covered, Has, DoneWorker
<1>6. n.status = "completed" => Earned(n)
  <2>1. ASSUME n.status = "completed"
        PROVE  /\ HasMerge(m)
               /\ \A w \in FanOut \cup {"survey", "merge"} :
                    \E d \in m.done : d[1][1] = w /\ d[2] = "completed"
               /\ \A d \in m.done : d[2] = "completed" \/ (d[1][1] \in Memory /\ d[2] # "degraded")
    BY <1>0, <1>2, <1>3, <2>1, VerdictEarned
  <2>2. QED
    BY <1>3, <1>5, <2>1 DEF Earned
<1>7. WholeRow(n)
  BY <1>0, <1>3, <1>5, <1>6 DEF WholeRow
<1>8. QED
  BY <1>0, <1>3, <1>4, <1>7, SaveAdvances DEF AfterSurvey, AfterFanOut

LEMMA AnnounceAdvances ==
  ASSUME IInv, CopiesAreTheRow, VerdictInv, NEW t \in Driver, Announce(t)
  PROVE  Advances(t)
<1>0. /\ t \in Task /\ mem[t] \in Row /\ WholeRow(mem[t])
      /\ OthersAwait(t) /\ Awaited(t)' = {}
  BY DriverParts, NoStageTouched DEF Announce
<1>1. Save(t, mem[t], "return")
  BY DEF Announce
<1>2. QED
  BY <1>0, <1>1, SaveAdvances DEF AfterSurvey, AfterFanOut, BusyPc, EnginePc, StageNode

LEMMA DriveAdvances ==
  ASSUME IInv, CopiesAreTheRow, StreamInv, VerdictInv, NEW t \in Driver, Drive(t)
  PROVE  Advances(t)
  BY EnterAdvances, SkipAdvances, LaunchAdvances, JoinAdvances, DeepenAdvances,
     PauseAdvances, FinalizeAdvances, AnnounceAdvances DEF Drive

-----------------------------------------------------------------------------
(* The steps of the service advance it in order as well.                    *)

(* What any task is known to be that awaits no stage.                      *)
LEMMA TaskParts ==
  ASSUME IInv, VerdictInv, NEW t \in Task
  PROVE  /\ mem[t] \in Row /\ WholeRow(mem[t]) /\ run \in Row /\ WholeRow(run)
         /\ pc \in [Task -> Pc] /\ mem \in [Task -> Row]
         /\ UNCHANGED engines /\ pc[t] # "await" => OthersAwait(t) /\ Awaited(t)' = {}
  BY NoStageTouched DEF IInv, TypeOK, VerdictInv, engines

LEMMA ExecAdvances ==
  ASSUME IInv, CopiesAreTheRow, VerdictInv, Settle \/ Takeover \/ Fail \/ Execute
  PROVE  Advances("exec")
<1>0. "exec" \in Task /\ "exec" \in Driver
  BY DEF Task, Driver
<1>1. /\ run \in Row /\ WholeRow(run)
      /\ OthersAwait("exec") /\ Awaited("exec")' = {}
  <2>1. UNCHANGED engines /\ pc["exec"] # "await"
    BY <1>0 DEF Settle, Takeover, Fail, Execute, quiet, engines
  <2>2. QED
    BY <1>0, <2>1, TaskParts
<1>2. CASE Takeover
  <2> DEFINE n == [run EXCEPT !.engine = "manual", !.fallbacks = @ + 1]
  <2>1. "running" \in Status \ {"completed"}
    BY DEF Status
  <2>2. WholeRow(n)
    BY <1>1, <2>1, UpdatesWhole
  <2>3. n \in Row
    <3>1. run.fallbacks + 1 \in Nat
      BY <1>1 DEF Row
    <3>2. QED
      BY <1>1, <3>1 DEF Row, Engine
  <2>4. WholeRow(run')
    BY <1>2, <2>2, <2>3, BumpWhole DEF Takeover
  <2>5. Goto("exec", "enter") /\ mem' = [mem EXCEPT !["exec"] = run']
    BY <1>2 DEF Takeover
  <2>6. QED
    BY <1>0, <1>1, <2>4, <2>5, MoveAdvances DEF AfterSurvey, BusyPc
<1>3. CASE Fail /\ ~(Answer("exec") /\ UNCHANGED run)
  <2> DEFINE s == IF run.status = "waiting_approval" THEN "blocked" ELSE "failed"
             n == [run EXCEPT !.status = s]
  <2>1. s \in Status \ {"completed"}
    BY DEF Status, Terminal
  <2>2. WholeRow(n)
    BY <1>1, <2>1, UpdatesWhole
  <2>3. n \in Row
    <3> HIDE DEF s
    <3>1. QED
      BY <1>1, <2>1 DEF Row
  <2>4. run' = Bump(n)
    BY <1>3 DEF Fail
  <2>5. WholeRow(run')
    BY <2>2, <2>3, <2>4, BumpWhole
  <2>6. Goto("exec", "fail_note") /\ mem' = [mem EXCEPT !["exec"] = run']
    BY <1>3 DEF Fail
  <2>7. QED
    BY <1>0, <1>1, <2>5, <2>6, MoveAdvances DEF AfterSurvey, BusyPc, EnginePc, StageNode
<1>4. CASE Settle \/ Execute \/ (Fail /\ Answer("exec") /\ UNCHANGED run)
  <2>1. /\ \E p \in {"raised", "idle", "enter", "incompatible"} : Goto("exec", p)
        /\ \/ UNCHANGED mem \/ mem' = [mem EXCEPT !["exec"] = run]
           \/ mem' = [mem EXCEPT !["exec"] = NoCopy]
        /\ UNCHANGED run
    BY <1>4 DEF Settle, Execute, Fail, Answer, Load
  <2>2. QED
    BY <1>0, <1>1, <2>1, MoveAdvances DEF AfterSurvey, BusyPc, EnginePc, StageNode
<1>5. QED
  BY <1>2, <1>3, <1>4

LEMMA BlockAdvances ==
  ASSUME IInv, CopiesAreTheRow, VerdictInv, NEW t \in Task, Block(t)
  PROVE  Advances(t)
<1>0. /\ mem[t] \in Row /\ WholeRow(mem[t]) /\ WholeRow(run)
      /\ OthersAwait(t) /\ Awaited(t)' = {}
  BY TaskParts DEF Block, quiet
<1>1. CASE Answer(t) /\ UNCHANGED run
  BY <1>0, <1>1, MoveAdvances DEF Answer, AfterSurvey, BusyPc, EnginePc, StageNode
<1>2. CASE Save(t, [mem[t] EXCEPT !.status = "blocked"], "fail_note")
  <2> DEFINE n == [mem[t] EXCEPT !.status = "blocked"]
  <2>1. n \in Row /\ WholeRow(n) /\ Save(t, n, "fail_note")
    BY <1>0, <1>2, UpdatesWhole DEF Row, Status, Terminal
  <2> HIDE DEF n
  <2>2. QED
    BY <1>0, <2>1, SaveAdvances DEF AfterSurvey, AfterFanOut, BusyPc, EnginePc, StageNode
<1>3. QED
  BY <1>1, <1>2 DEF Block

LEMMA NoteAdvances ==
  ASSUME IInv, CopiesAreTheRow, VerdictInv, NEW t \in Task, Note(t)
  PROVE  Advances(t)
<1>0. /\ mem[t] \in Row /\ WholeRow(mem[t]) /\ WholeRow(run)
      /\ OthersAwait(t) /\ Awaited(t)' = {}
  BY TaskParts DEF Note, quiet
<1>1. WholeRow(run')
  BY <1>0, BumpWhole DEF Note
<1>2. Goto(t, "idle") /\ mem' = [mem EXCEPT ![t] = NoCopy]
  BY DEF Note, Answer
<1>3. QED
  BY <1>0, <1>1, <1>2, MoveAdvances DEF AfterSurvey, BusyPc, EnginePc, StageNode

LEMMA ResumeAdvances ==
  ASSUME IInv, CopiesAreTheRow, StreamInv, VerdictInv, NEW r \in Resumer,
         ResumeStep(r) \/ Resume(r)
  PROVE  Advances(r)
<1>0. r \in Task /\ r \in Driver
  BY KindsOfTasks
<1>1. CASE Drive(r) \/ Block(r) \/ Note(r)
  BY <1>0, <1>1, DriveAdvances, BlockAdvances, NoteAdvances
<1>2. CASE ~(Drive(r) \/ Block(r) \/ Note(r))
  <2>1. UNCHANGED engines /\ pc[r] # "await"
    BY <1>2 DEF ResumeStep, Resume, ResumeControl, ResolveInterrupt, ReplayInterrupt,
       PauseAgain, StoreDecision, TakeDecision, Back, AckResume, Expire, ExpireInterrupt,
       Report, quiet, engines
  <2>2. /\ mem[r] \in Row /\ WholeRow(mem[r]) /\ WholeRow(run)
        /\ OthersAwait(r) /\ Awaited(r)' = {} /\ pc \in [Task -> Pc] /\ mem \in [Task -> Row]
    BY <1>0, <2>1, TaskParts
  <2>3. ASSUME NEW p \in {"idle", "raised", "incompatible", "r_ctl", "r_int", "r_graph", "r_again",
                          "r_art", "r_save", "r_ack", "e_save", "e_note"},
               Goto(r, p), UNCHANGED run,
               \/ UNCHANGED mem \/ mem' = [mem EXCEPT ![r] = run]
               \/ mem' = [mem EXCEPT ![r] = NoCopy]
        PROVE  Advances(r)
    BY <1>0, <2>2, <2>3, MoveAdvances DEF AfterSurvey, BusyPc, EnginePc, StageNode
  <2>4. CASE ResumeControl(r) \/ ResolveInterrupt(r) \/ ReplayInterrupt(r) \/ StoreDecision(r)
    <3>1. /\ \E p \in {"r_int", "r_graph", "r_save", "r_art", "r_again", "raised"} : Goto(r, p)
          /\ UNCHANGED mem \/ mem' = [mem EXCEPT ![r] = run]
          /\ UNCHANGED run
      BY <2>4 DEF ResumeControl, ResolveInterrupt, ReplayInterrupt, StoreDecision, Load
    <3>2. QED
      BY <2>3, <3>1
  <2>5. CASE Report(r) \/ AckResume(r) \/ Back(r) \/ ExpireInterrupt(r)
    <3>1. /\ \E p \in {"idle", "r_ack", "e_note"} : Goto(r, p)
          /\ UNCHANGED mem \/ mem' = [mem EXCEPT ![r] = NoCopy]
          /\ UNCHANGED run
      BY <2>5 DEF Report, AckResume, Back, ExpireInterrupt, Answer
    <3>2. QED
      BY <2>3, <3>1
  <2>6. ASSUME NEW n \in Row, NEW p \in {"r_art", "e_ctl"}, WholeRow(n), Save(r, n, p)
        PROVE  Advances(r)
    BY <1>0, <2>2, <2>6, SaveAdvances DEF AfterSurvey, AfterFanOut, BusyPc, EnginePc, StageNode
  <2>7. CASE PauseAgain(r)
    <3> DEFINE n == [mem[r] EXCEPT !.status = "waiting_approval", !.interrupt = TRUE]
    <3>1. n \in Row /\ WholeRow(n) /\ Save(r, n, "r_art")
      BY <2>2, <2>7, UpdatesWhole DEF PauseAgain, Row, Status, Terminal
    <3> HIDE DEF n
    <3>2. QED
      BY <2>6, <3>1
  <2>8. CASE Expire(r)
    <3> DEFINE n == [mem[r] EXCEPT !.status = "expired"]
    <3>1. n \in Row /\ WholeRow(n) /\ Save(r, n, "e_ctl")
      BY <2>2, <2>8, UpdatesWhole DEF Expire, Row, Status, Terminal
    <3> HIDE DEF n
    <3>2. QED
      BY <2>6, <3>1
  <2>9. CASE TakeDecision(r)
    <3> DEFINE n == [mem[r] EXCEPT !.status = "running", !.interrupt = FALSE,
                                   !.decisions = @ \cup {r}]
               p == IF mem[r].engine = "langgraph" THEN "consolidate" ELSE "enter"
    <3>1. n \in Row /\ n.status = "running"
      <4>1. mem[r].decisions \cup {r} \in SUBSET Resumer
        BY <2>2 DEF Row
      <4>2. QED
        BY <2>2, <4>1 DEF Row, Status
    <3>2. WholeRow(n)
      <4>1. "running" \in Status \ {"completed"}
        BY DEF Status
      <4>2. QED
        BY <2>2, <4>1, UpdatesWhole
    <3>3. Save(r, n, p)
      BY <2>9 DEF TakeDecision
    <3>4. p \in {"consolidate", "enter"}
      OBVIOUS
    <3> HIDE DEF n, p
    <3>5. QED
      BY <1>0, <2>2, <3>1, <3>2, <3>3, <3>4, SaveAdvances DEF AfterSurvey, AfterFanOut
  <2>10. CASE Resume(r)
    <3>1. CASE UNCHANGED <<mem, pc>>
      <4>1. InOrder(r)'
        BY <1>0, <2>1, <2>2, <3>1 DEF InOrder, NodeOf, VerdictInv, engines
      <4>2. QED
        BY <2>2, <2>10, <3>1, <4>1 DEF Advances, OthersAwait, Resume
    <3>2. CASE Goto(r, "incompatible") \/ Goto(r, "e_save") \/ Goto(r, "r_ctl")
      <4>1. UNCHANGED run
        BY <2>10 DEF Resume
      <4>2. UNCHANGED mem \/ mem' = [mem EXCEPT ![r] = run]
        BY <2>10 DEF Resume, Load
      <4>3. QED
        BY <2>3, <3>2, <4>1, <4>2
    <3>3. QED
      BY <2>10, <3>1, <3>2 DEF Resume
  <2>11. QED
    BY <1>2, <2>4, <2>5, <2>7, <2>8, <2>9, <2>10 DEF ResumeStep
<1>3. QED
  BY <1>1, <1>2

LEMMA CancelAdvances ==
  ASSUME IInv, CopiesAreTheRow, VerdictInv, NEW c \in Canceller, CancelStep(c) \/ Cancel(c)
  PROVE  Advances(c)
<1>0. c \in Task
  BY KindsOfTasks
<1>1. CASE Note(c)
  BY <1>0, <1>1, NoteAdvances
<1>2. CASE ~Note(c)
  <2>1. UNCHANGED engines /\ pc[c] # "await"
    BY <1>2 DEF CancelStep, Cancel, CancelControl, AckTerminal, Flag, Stop, SaveCanceled,
       AckCancel, Report, quiet, engines
  <2>2. /\ mem[c] \in Row /\ WholeRow(mem[c]) /\ WholeRow(run)
        /\ OthersAwait(c) /\ Awaited(c)' = {}
    BY <1>0, <2>1, TaskParts
  <2>3. ASSUME NEW p \in {"idle", "c_ctl", "c_ack_terminal", "c_flag", "c_save", "c_ack", "c_note"},
               Goto(c, p), UNCHANGED run,
               \/ UNCHANGED mem \/ mem' = [mem EXCEPT ![c] = run]
               \/ mem' = [mem EXCEPT ![c] = NoCopy]
        PROVE  Advances(c)
    BY <1>0, <2>2, <2>3, MoveAdvances DEF AfterSurvey, BusyPc, EnginePc, StageNode
  <2>4. ASSUME NEW n \in Row, NEW p \in {"c_stop", "c_ack"}, WholeRow(n), Save(c, n, p)
        PROVE  Advances(c)
    BY <1>0, <2>2, <2>4, SaveAdvances DEF AfterSurvey, AfterFanOut, BusyPc, EnginePc, StageNode
  <2>5. CASE Report(c) \/ AckTerminal(c) \/ AckCancel(c) \/ CancelControl(c)
    <3>1. /\ \E p \in {"idle", "c_note", "c_ack_terminal", "c_flag"} : Goto(c, p)
          /\ UNCHANGED run
          /\ UNCHANGED mem \/ mem' = [mem EXCEPT ![c] = NoCopy]
      BY <2>5 DEF Report, AckTerminal, AckCancel, CancelControl, Answer
    <3>2. QED
      BY <2>3, <3>1
  <2>6. CASE Cancel(c) \/ Stop(c)
    <3>1. /\ \E p \in {"c_ctl", "c_ack", "c_save"} : Goto(c, p)
          /\ UNCHANGED run /\ mem' = [mem EXCEPT ![c] = run]
      BY <2>6 DEF Cancel, Stop, Load
    <3>2. QED
      BY <2>3, <3>1
  <2>7. CASE Flag(c)
    <3> DEFINE n == [mem[c] EXCEPT !.cancelReq = TRUE]
    <3>1. "running" \in Status \ {"completed"}
      BY DEF Status
    <3>2. n \in Row /\ WholeRow(n) /\ Save(c, n, "c_stop")
      BY <2>2, <2>7, <3>1, UpdatesWhole DEF Flag, Row
    <3> HIDE DEF n
    <3>3. QED
      BY <2>4, <3>2
  <2>8. CASE SaveCanceled(c)
    <3>1. CASE UNCHANGED run /\ mem' = [mem EXCEPT ![c] = run] /\ Goto(c, "c_ack")
      BY <2>3, <3>1
    <3>2. CASE Save(c, [mem[c] EXCEPT !.status = "canceled"], "c_ack")
      <4> DEFINE n == [mem[c] EXCEPT !.status = "canceled"]
      <4>1. n \in Row /\ WholeRow(n) /\ Save(c, n, "c_ack")
        BY <2>2, <3>2, UpdatesWhole DEF Row, Status, Terminal
      <4> HIDE DEF n
      <4>2. QED
        BY <2>4, <4>1
    <3>3. QED
      BY <2>8, <3>1, <3>2 DEF SaveCanceled, Load
  <2>9. QED
    BY <1>2, <2>5, <2>6, <2>7, <2>8 DEF CancelStep
<1>3. QED
  BY <1>1, <1>2

-----------------------------------------------------------------------------
(* The stages and the world around the run.                                 *)

(* An exception of a stage empties the group its task awaits, or, of a      *)
(* stage left over, touches no group.                                      *)
LEMMA BreakAdvances ==
  ASSUME IInv, CopiesAreTheRow, VerdictInv, NEW c \in DOMAIN call, NEW kinds,
         Break(c, kinds), UNCHANGED <<run, mem, node>>
  PROVE  Advances(c[1])
<1> DEFINE t == c[1]
           others == {d \in Awaited(t) : d # c /\ call[d].st # "done"}
           left == IF mem[t].engine = "langgraph" THEN {}
                   ELSE {<<t, d[2], FALSE>> : d \in others}
<1>0. t \in Task /\ WholeRow(run) /\ InOrder(t) /\ pc \in [Task -> Pc]
  BY TypeParts, CallsOfTasks DEF IInv, TasksOK, VerdictInv
<1>1. CASE Goto(t, "raised") /\ DOMAIN call' = (DOMAIN call \ Awaited(t)) \cup left
  <2>1. ASSUME NEW d \in left
        PROVE  d[1] = t /\ d[3] = FALSE
    <3>1. PICK e \in others : d = <<t, e[2], FALSE>>
      OBVIOUS
    <3>2. QED
      BY <3>1
  <2> HIDE DEF left
  <2>2. Awaited(t)' = {} /\ \A u \in Task \ {t} : Awaited(u)' = Awaited(u)
    BY <1>1, <2>1 DEF Awaited
  <2>3. QED
    BY <1>0, <1>1, <2>2, MoveAdvances DEF OthersAwait, AfterSurvey, BusyPc, EnginePc, StageNode
<1>2. CASE ~c[3] /\ call' = Without({c}) /\ UNCHANGED pc
  <2>1. \A u \in Task : Awaited(u)' = Awaited(u)
    BY <1>2 DEF Awaited, Without
  <2>2. InOrder(t)'
    BY <1>0, <1>2, <2>1 DEF InOrder, NodeOf
  <2>3. QED
    BY <1>0, <1>2, <2>1, <2>2 DEF Advances
<1>3. QED
  BY <1>1, <1>2 DEF Break

LEMMA CallAdvances ==
  ASSUME IInv, CopiesAreTheRow, VerdictInv, NEW c \in DOMAIN call, CallStep(c) \/ Raise(c)
  PROVE  Advances(c[1])
<1>0. c[1] \in Task /\ WholeRow(run) /\ InOrder(c[1])
  BY TypeParts, CallsOfTasks DEF IInv, VerdictInv
<1>1. UNCHANGED <<run, mem, node>>
  BY DEF CallStep, Reserve, Complete, ForgetOrphan, Raise, durable
<1>2. ASSUME UNCHANGED pc, \A u \in Task : Awaited(u)' = Awaited(u)
      PROVE  Advances(c[1])
  <2>1. InOrder(c[1])'
    BY <1>0, <1>1, <1>2 DEF InOrder, NodeOf
  <2>2. QED
    BY <1>0, <1>1, <1>2, <2>1 DEF Advances
<1>3. CASE UNCHANGED pc /\ DOMAIN call' = DOMAIN call
  BY <1>2, <1>3 DEF Awaited
<1>4. CASE ForgetOrphan(c)
  <2>1. \A u \in Task : Awaited(u)' = Awaited(u)
    BY <1>4 DEF ForgetOrphan, Awaited, Without
  <2>2. QED
    BY <1>2, <1>4, <2>1 DEF ForgetOrphan
<1>5. CASE \E kinds : Break(c, kinds)
  BY <1>1, <1>5, BreakAdvances
<1>6. \/ UNCHANGED pc /\ DOMAIN call' = DOMAIN call
      \/ ForgetOrphan(c)
      \/ \E kinds : Break(c, kinds)
  BY DEF CallStep, Reserve, Complete, Raise
<1>7. QED
  BY <1>3, <1>4, <1>5, <1>6

LEMMA GraphFailsAdvances ==
  ASSUME IInv, VerdictInv, NEW t \in Driver, GraphFails(t)
  PROVE  Advances(t)
<1>1. t \in Task /\ WholeRow(run) /\ OthersAwait(t) /\ Awaited(t)' = {}
  BY DriverParts, StagesDropped DEF GraphFails
<1>2. QED
  BY <1>1, MoveAdvances DEF GraphFails, durable, AfterSurvey, BusyPc, EnginePc, StageNode

LEMMA DeathsKeep ==
  ASSUME IInv, VerdictInv, NEW T, Dies(T)
  PROVE  VerdictInv'
<1>1. UNCHANGED <<run, node>>
  BY DEF Dies, durable
<1>2. ASSUME NEW u \in Task
      PROVE  WholeRow(mem'[u]) /\ InOrder(u)'
  <2>1. CASE u \in T
    <3>1. pc'[u] = "idle" /\ mem'[u] = NoCopy
      BY <2>1 DEF Dies
    <3>2. Awaited(u)' = {}
      BY <2>1 DEF Dies, Awaited, Without
    <3>3. InOrder(u)'
      BY <3>1, <3>2 DEF InOrder, NodeOf, AfterSurvey, AfterFanOut, BusyPc, EnginePc, StageNode
    <3>4. QED
      BY <3>1, <3>3, NewRowsWhole
  <2>2. CASE u \notin T
    <3>1. pc'[u] = pc[u] /\ mem'[u] = mem[u]
      BY <2>2 DEF Dies
    <3>2. Awaited(u)' = Awaited(u)
      BY <2>2 DEF Dies, Awaited, Without
    <3>3. QED
      BY <1>1, <3>1, <3>2 DEF VerdictInv, InOrder, NodeOf
  <2>3. QED
    BY <2>1, <2>2
<1>3. QED
  BY <1>1, <1>2 DEF VerdictInv

(* Every step keeps every row whole and every task in order.               *)
LEMMA VerdictStep ==
  ASSUME IInv, CopiesAreTheRow, StreamInv, VerdictInv, [Next]_vars
  PROVE  VerdictInv'
<1>0. Shape /\ "exec" \in Task /\ "exec" \in Driver
  BY StepIsOnward DEF Task, Driver
<1>1. CASE ExecStep \/ Execute
  <2>1. Advances("exec")
    BY <1>0, <1>1, DriveAdvances, ExecAdvances, BlockAdvances, NoteAdvances DEF ExecStep
  <2>2. QED
    BY <1>0, <2>1, AdvanceKeeps
<1>2. ASSUME NEW r \in Resumer, ResumeStep(r) \/ Resume(r)
      PROVE  VerdictInv'
  BY <1>0, <1>2, KindsOfTasks, ResumeAdvances, AdvanceKeeps
<1>3. ASSUME NEW c \in Canceller, CancelStep(c) \/ Cancel(c)
      PROVE  VerdictInv'
  BY <1>0, <1>3, KindsOfTasks, CancelAdvances, AdvanceKeeps
<1>4. ASSUME NEW t \in Driver, GraphFails(t)
      PROVE  VerdictInv'
  BY <1>0, <1>4, KindsOfTasks, GraphFailsAdvances, AdvanceKeeps
<1>5. ASSUME NEW c \in DOMAIN call, CallStep(c) \/ Raise(c)
      PROVE  VerdictInv'
  <2>1. c[1] \in Task
    BY TypeParts, CallsOfTasks DEF IInv
  <2>2. QED
    BY <1>0, <1>5, <2>1, CallAdvances, AdvanceKeeps
<1>6. CASE Crash
  BY <1>6, DeathsKeep DEF Crash
<1>7. CASE Lapse \/ UNCHANGED vars
  BY <1>7 DEF Lapse, durable, vars, VerdictInv, InOrder, NodeOf, Awaited
<1>8. QED
  BY <1>1, <1>2, <1>3, <1>4, <1>5, <1>6, <1>7 DEF Next, Program, World

(* "completed" is earned: the survey, every worker of the fan-out and the   *)
(* merge are in the row as completed, only a memory stage ended badly, and  *)
(* there is a result, through every restart, takeover, review and evidence  *)
(* round (manual.py, _patch_for_result and finalize; langgraph_engine.py). *)
THEOREM CompletedCorrect == Spec => []CompletedIsEarned
<1>1. Init => VerdictInv
  <2>1. Init => run = NewRow /\ \A t \in Task : /\ mem[t] = NoCopy /\ pc[t] = "idle"
                                                /\ Awaited(t) = {}
    BY DEF Init, Awaited
  <2>2. QED
    BY <2>1, NewRowsWhole DEF VerdictInv, InOrder, NodeOf, AfterSurvey, AfterFanOut, BusyPc,
       EnginePc, StageNode
<1>2. Init => EndsAgree /\ StreamInv
  BY KindsOfTasks DEF Init, EndsAgree, NoCopy, NewRow, Terminal, StreamInv, StandsRight, Owes,
     EventsAgree, OneDebtor, AloneCancels, BusyPc, EnginePc, StageNode, NotePc
<1>3. IInv /\ CopiesAreTheRow /\ EndsAgree /\ StreamInv /\ VerdictInv /\ [Next]_vars =>
        EndsAgree' /\ StreamInv' /\ VerdictInv'
  BY StepIsOnward, EndsAgreeStep, StreamStep, VerdictStep
<1>4. VerdictInv => CompletedIsEarned
  BY DEF VerdictInv, WholeRow, Earned, CompletedIsEarned
<1>5. QED
  BY <1>1, <1>2, <1>3, <1>4, TypeIsInvariant, CopiesCorrect, PTL DEF Spec

-----------------------------------------------------------------------------
(* Cancellation, under the manual engine.  (A graph run that waits for a    *)
(* reviewer goes on after its interrupt node and does not look at it.)      *)

Won == {"completed", "partial", "degraded"}

Heeds(m) == m.engine = "manual" /\ (m.cancelReq => m.status \notin Won)

(* The engine works only on copies without a cancellation: it looks for one *)
(* when it enters, and a later one makes its copy stale.                    *)
CancelInv ==
  /\ Heeds(run)
  /\ \A t \in Task : /\ Heeds(mem[t])
                     /\ pc[t] \in BusyPc \ {"announce"} => ~mem[t].cancelReq
                     /\ pc[t] = "c_flag" => mem[t].status \notin Won

(* What one step of task t may do to them.                                  *)
Minds(t) ==
  /\ \A u \in Task \ {t} : pc'[u] = pc[u] /\ mem'[u] = mem[u]
  /\ pc'[t] \in BusyPc \ {"announce"} => ~mem'[t].cancelReq
  /\ pc'[t] = "c_flag" => mem'[t].status \notin Won
  /\ Heeds(run')

(* A step of one task that minds the cancellation leaves all minding it.    *)
LEMMA MindingKeeps ==
  ASSUME FirstEngine = "manual", CancelInv, Shape, NEW t \in Task, Minds(t)
  PROVE  CancelInv'
<1>1. Heeds(NoCopy)
  BY DEF Heeds, NoCopy, NewRow, Won
<1>2. QED
  BY <1>1 DEF Shape, CopyStep, CancelInv, Minds

(* A task that leaves the nodes minds it.                                   *)
LEMMA MoveMinds ==
  ASSUME IInv, NEW t \in Task, NEW p, Goto(t, p), p \notin (BusyPc \ {"announce"}),
         UNCHANGED mem \/ \E m : mem' = [mem EXCEPT ![t] = m], Heeds(run'),
         p = "c_flag" => UNCHANGED mem /\ mem[t].status \notin Won
  PROVE  Minds(t)
<1>1. pc \in [Task -> Pc] /\ mem \in [Task -> Row]
  BY DEF IInv, TypeOK
<1>2. QED
  BY <1>1 DEF Goto, Minds

(* A task that saves a row minds it, if that row may be where it goes.      *)
LEMMA SaveMinds ==
  ASSUME IInv, CopiesAreTheRow, CancelInv, NEW t \in Task, NEW new \in Row, NEW next,
         Save(t, new, next), Heeds(new),
         next \in BusyPc \ {"announce"} => ~new.cancelReq, next # "c_flag"
  PROVE  Minds(t)
<1>1. Bump(new).cancelReq = new.cancelReq /\ (Heeds(new) => Heeds(Bump(new)))
  BY DEF Bump, Row, Heeds
<1>2. CASE /\ pc'[t] = "raised" /\ UNCHANGED <<run, mem>>
           /\ \A u \in Task \ {t} : pc'[u] = pc[u] /\ mem'[u] = mem[u]
  <2>1. "raised" \notin BusyPc /\ Heeds(run')
    BY <1>2 DEF CancelInv, BusyPc, EnginePc, StageNode
  <2>2. QED
    BY <1>2, <2>1 DEF Minds
<1>3. CASE /\ pc'[t] = next /\ mem'[t] = run' /\ run' = Bump(new)
           /\ \A u \in Task \ {t} : pc'[u] = pc[u] /\ mem'[u] = mem[u]
  BY <1>1, <1>3 DEF Minds
<1>4. QED
  BY <1>2, <1>3, SaveOrRaise

(* An engine works on without a cancellation, and reaches its verdict so.   *)
LEMMA DriveMinds ==
  ASSUME IInv, CopiesAreTheRow, CancelInv, NEW t \in Driver, Drive(t)
  PROVE  Minds(t)
<1> DEFINE m == mem[t]
<1>0. /\ t \in Task /\ m \in Row /\ Heeds(m) /\ Heeds(run) /\ m.engine = "manual"
      /\ pc \in [Task -> Pc] /\ mem \in [Task -> Row]
      /\ pc[t] \in BusyPc \ {"announce"} => ~m.cancelReq
  BY KindsOfTasks DEF IInv, TypeOK, CancelInv, Heeds
<1>1. CASE Enter(t)
  <2>1. ASSUME NEW s \in {"canceled", "running"}, NEW p \in {"announce", "survey"},
               Save(t, [m EXCEPT !.status = s], p), s = "running" => ~m.cancelReq,
               s = "canceled" => p = "announce"
        PROVE  Minds(t)
    <3> DEFINE n == [m EXCEPT !.status = s]
    <3>1. /\ n \in Row /\ n.status = s /\ n.cancelReq = m.cancelReq /\ n.engine = m.engine
          /\ Save(t, n, p)
      BY <1>0, <2>1 DEF Row, Status, Terminal
    <3>2. Heeds(n)
      BY <1>0, <2>1, <3>1 DEF Heeds, Won
    <3> HIDE DEF n
    <3>3. QED
      BY <1>0, <2>1, <3>1, <3>2, SaveMinds
  <2>2. CASE Goto(t, "return") /\ UNCHANGED <<run, mem>>
    BY <1>0, <2>2, MoveMinds DEF BusyPc, EnginePc, StageNode
  <2>3. QED
    BY <1>0, <1>1, <2>1, <2>2 DEF Enter, StopsAtOnce
<1>2. CASE Skip(t)
  <2>1. /\ pc[t] \in BusyPc \ {"announce"}
        /\ Following(pc[t], m.engine) # "c_flag"
        /\ Goto(t, Following(pc[t], m.engine)) /\ UNCHANGED <<run, mem>>
    BY <1>2 DEF Skip, Following, durable, BusyPc, EnginePc, StageNode
  <2>2. QED
    BY <1>0, <2>1 DEF Goto, Minds
<1>3. CASE Pause(t)
  BY <1>0, <1>3, MoveMinds DEF Pause, BusyPc, EnginePc, StageNode
<1>4. ASSUME NEW n \in Row, NEW p, Save(t, n, p), n.engine = "manual",
             n.cancelReq = m.cancelReq, pc[t] \in BusyPc \ {"announce"}, p # "c_flag"
      PROVE  Minds(t)
  BY <1>0, <1>4, SaveMinds DEF Heeds
<1>5. CASE Launch(t)
  <2> DEFINE us == UnitsAt(pc[t], m)
             n == [m EXCEPT !.pending = @ \cup us]
  <2>1. us \in SUBSET Unit /\ pc[t] \in BusyPc \ {"announce"}
    BY <1>0, <1>5, UnitsAreUnits DEF Launch, BusyPc, EnginePc, StageNode
  <2>2. n \in Row /\ n.engine = "manual" /\ n.cancelReq = m.cancelReq
    BY <1>0, <2>1 DEF Row
  <2>3. CASE Save(t, n, "await")
    <3> HIDE DEF n
    <3>1. QED
      BY <1>4, <2>1, <2>2, <2>3
  <2>4. CASE Goto(t, "await") /\ UNCHANGED <<run, mem>>
    BY <1>0, <2>1, <2>4 DEF Goto, Minds
  <2>5. QED
    BY <1>5, <2>3, <2>4 DEF Launch
<1>6. CASE Join(t)
  <2> DEFINE us == {c[2] : c \in {d \in Awaited(t) :
                     m.engine = "langgraph" /\ node[t] \in {"fanout", "evidence"} =>
                       ~DoneUnit(m, d[2])}}
             res == [u \in us |-> call[<<t, u, TRUE>>].res]
             new == Joined(m, us, res)
             asked == IF node[t] = "merge" THEN res[<<"merge", m.round>>].next
                      ELSE "accept"
  <2>1. us \in SUBSET Unit /\ res \in [us -> Result]
    <3>1. \A c \in Awaited(t) : /\ c[2] \in Unit /\ <<t, c[2], TRUE>> \in DOMAIN call
                                /\ call[<<t, c[2], TRUE>>].res \in Result
      BY <1>0, TypeParts, CallsOfTasks DEF IInv, Awaited, Call
    <3>2. QED
      BY <3>1
  <2>2. Save(t, new, Route(node[t], new, asked)) /\ pc[t] \in BusyPc \ {"announce"}
    BY <1>6 DEF Join, BusyPc, EnginePc
  <2>3. Route(node[t], new, asked) # "c_flag"
    <3>1. node[t] \in StageNode
      BY <1>0 DEF IInv, TypeOK
    <3>2. QED
      BY <3>1 DEF Route, Following, StageNode
  <2> HIDE DEF us, res, asked
  <2>4. new \in Row /\ new.engine = m.engine /\ new.cancelReq = m.cancelReq
    <3>1. new \in Row
      <4> HIDE DEF m
      <4>1. QED
        BY <1>0, <2>1, JoinedIsRow
    <3>2. QED
      BY <1>0, <3>1 DEF Joined, Row
  <2> HIDE DEF new
  <2>5. QED
    BY <1>0, <1>4, <2>2, <2>3, <2>4
<1>7. CASE Deepen(t)
  <2> DEFINE n == [m EXCEPT !.round = @ + 1]
  <2>1. m.round + 1 \in 0 .. MaxRounds
    BY <1>0, <1>7, ConstantsAssumption DEF Deepen, IInv, DeepensInBounds, Row
  <2>2. n \in Row /\ n.engine = "manual" /\ n.cancelReq = m.cancelReq
    BY <1>0, <2>1 DEF Row
  <2>3. Save(t, n, "evidence") /\ pc[t] \in BusyPc \ {"announce"}
    BY <1>7 DEF Deepen, BusyPc, EnginePc
  <2> HIDE DEF n
  <2>4. QED
    BY <1>4, <2>2, <2>3
<1>8. CASE Finalize(t)
  <2> DEFINE s == IF m.engine = "langgraph" /\ m.status # "running" THEN m.status
                  ELSE Verdict(m)
             n == [m EXCEPT !.status = s, !.result = @ \/ HasMerge(m)]
  <2>1. s \in Status /\ (m.result \/ HasMerge(m)) \in BOOLEAN
    <3>1. Verdict(m) \in Terminal
      BY VerdictIsTerminal DEF Verdict, HasMerge
    <3>2. QED
      BY <1>0, <3>1 DEF Row, Status, HasMerge
  <2>2. Save(t, n, "announce") /\ pc[t] \in BusyPc \ {"announce"}
    BY <1>8 DEF Finalize, BusyPc, EnginePc
  <2> HIDE DEF s
  <2>3. n \in Row /\ n.engine = "manual" /\ n.cancelReq = m.cancelReq
    BY <1>0, <2>1 DEF Row
  <2> HIDE DEF n
  <2>4. QED
    BY <1>4, <2>2, <2>3
<1>9. CASE PauseSave(t)
  <2> DEFINE n == [m EXCEPT !.status = "waiting_approval", !.interrupt = TRUE]
  <2>1. /\ n \in Row /\ n.engine = "manual" /\ n.status = "waiting_approval"
        /\ Save(t, n, "return")
    BY <1>0, <1>9 DEF PauseSave, Row, Status
  <2> HIDE DEF n
  <2>2. QED
    BY <1>0, <2>1, SaveMinds DEF Heeds, Won, BusyPc, EnginePc, StageNode
<1>10. CASE Announce(t)
  BY <1>0, <1>10, SaveMinds DEF Announce, BusyPc, EnginePc, StageNode
<1>11. QED
  BY <1>1, <1>2, <1>3, <1>5, <1>6, <1>7, <1>8, <1>9, <1>10 DEF Drive

(* The service's own rows are failures, pauses, decisions, expiries and     *)
(* cancellations, never a success.                                         *)
LEMMA ServiceMinds ==
  ASSUME IInv, CopiesAreTheRow, CancelInv, NEW t \in Task,
         \/ t = "exec" /\ (Settle \/ Takeover \/ Fail \/ Execute)
         \/ t \in Resumer /\ (ResumeStep(t) \/ Resume(t)) /\ ~Drive(t)
         \/ t \in Canceller /\ (CancelStep(t) \/ Cancel(t))
         \/ Block(t) \/ Note(t)
  PROVE  Minds(t)
<1> DEFINE m == mem[t]
<1>0. /\ m \in Row /\ Heeds(m) /\ run \in Row /\ Heeds(run) /\ m.engine = "manual"
      /\ pc \in [Task -> Pc] /\ mem \in [Task -> Row]
      /\ run.engine = "manual"
  BY DEF IInv, TypeOK, CancelInv, Heeds
<1>1. ASSUME NEW p, p \notin BusyPc, p # "c_flag", Goto(t, p), Heeds(run'),
             UNCHANGED mem \/ \E x : mem' = [mem EXCEPT ![t] = x]
      PROVE  Minds(t)
  BY <1>1, MoveMinds
<1>2. ASSUME NEW n \in Row, NEW p, p \notin BusyPc, p # "c_flag", Save(t, n, p), n.engine = "manual",
             n.status \notin Won
      PROVE  Minds(t)
  BY <1>0, <1>2, SaveMinds DEF Heeds
<1>3. CASE t = "exec" /\ (Settle \/ Execute)
  <2>1. /\ t = "exec" /\ \E p \in {"raised", "idle", "enter", "incompatible"} : Goto(t, p)
        /\ UNCHANGED run /\ (UNCHANGED mem \/ \E x : mem' = [mem EXCEPT ![t] = x])
    BY <1>3 DEF Settle, Execute, Answer, Load
  <2>2. QED
    BY <1>0, <1>1, <2>1 DEF BusyPc, EnginePc, StageNode
<1>4. CASE t = "exec" /\ Fail
  <2>1. CASE Answer(t) /\ UNCHANGED run
    <3>1. UNCHANGED run /\ Goto(t, "idle") /\ mem' = [mem EXCEPT ![t] = NoCopy]
      BY <2>1 DEF Answer
    <3>2. QED
      BY <1>0, <1>1, <3>1 DEF BusyPc, EnginePc, StageNode
  <2>2. CASE ~(Answer(t) /\ UNCHANGED run)
    <3> DEFINE s == IF run.status = "waiting_approval" THEN "blocked" ELSE "failed"
               n == [run EXCEPT !.status = s]
    <3>1. run' = Bump(n) /\ Goto(t, "fail_note") /\ mem' = [mem EXCEPT ![t] = run']
      BY <1>4, <2>2 DEF Fail
    <3>2. Bump(n).status \in {"blocked", "failed"} /\ Bump(n).engine = "manual"
      BY <1>0 DEF Bump, Row
    <3>3. Heeds(run')
      BY <3>1, <3>2 DEF Heeds, Won
    <3>4. QED
      BY <1>1, <3>1, <3>3 DEF BusyPc, EnginePc, StageNode
  <2>3. QED
    BY <2>1, <2>2
<1>5. CASE Block(t)
  <2>1. CASE UNCHANGED run /\ Answer(t)
    BY <1>0, <1>1, <2>1 DEF Answer, BusyPc, EnginePc, StageNode
  <2>2. CASE Save(t, [m EXCEPT !.status = "blocked"], "fail_note")
    <3> DEFINE n == [m EXCEPT !.status = "blocked"]
    <3>1. n \in Row /\ n.engine = "manual" /\ n.status \notin Won /\ Save(t, n, "fail_note")
      BY <1>0, <2>2 DEF Row, Status, Terminal, Won
    <3> HIDE DEF n
    <3>2. QED
      BY <1>2, <3>1 DEF BusyPc, EnginePc, StageNode
  <2>3. QED
    BY <1>5, <2>1, <2>2 DEF Block
<1>6. CASE Note(t)
  <2>1. Heeds(Bump(m))
    BY <1>0 DEF Heeds, Bump, Row
  <2>2. Heeds(run') /\ Goto(t, "idle") /\ mem' = [mem EXCEPT ![t] = NoCopy]
    BY <1>0, <1>6, <2>1 DEF Note, Answer
  <2>3. QED
    BY <1>1, <2>2 DEF BusyPc, EnginePc, StageNode
<1>7. CASE t \in Resumer /\ (ResumeStep(t) \/ Resume(t)) /\ ~Drive(t) /\ ~Block(t) /\ ~Note(t)
  <2>1. ASSUME NEW p \in {"idle", "raised", "incompatible", "r_ctl", "r_int", "r_graph", "r_again",
                          "r_art", "r_save", "r_ack", "e_save", "e_note"},
               Goto(t, p), UNCHANGED run, UNCHANGED mem \/ \E x : mem' = [mem EXCEPT ![t] = x]
        PROVE  Minds(t)
    BY <1>0, <1>1, <2>1 DEF BusyPc, EnginePc, StageNode
  <2>2. CASE \/ ResumeControl(t) \/ ResolveInterrupt(t) \/ ReplayInterrupt(t) \/ StoreDecision(t)
             \/ Report(t) \/ AckResume(t) \/ Back(t) \/ ExpireInterrupt(t)
    <3>1. /\ \E p \in {"idle", "raised", "r_int", "r_graph", "r_again", "r_art", "r_save",
                       "r_ack", "e_note"} : Goto(t, p)
          /\ UNCHANGED run /\ (UNCHANGED mem \/ \E x : mem' = [mem EXCEPT ![t] = x])
      BY <2>2 DEF ResumeControl, ResolveInterrupt, ReplayInterrupt, StoreDecision, Report,
         AckResume, Back, ExpireInterrupt, Answer, Load
    <3>2. QED
      BY <2>1, <3>1
  <2>3. CASE PauseAgain(t)
    <3> DEFINE n == [m EXCEPT !.status = "waiting_approval", !.interrupt = TRUE]
    <3>1. n \in Row /\ n.engine = "manual" /\ n.status \notin Won /\ Save(t, n, "r_art")
      BY <1>0, <2>3 DEF PauseAgain, Row, Status, Won
    <3> HIDE DEF n
    <3>2. QED
      BY <1>2, <3>1 DEF BusyPc, EnginePc, StageNode
  <2>4. CASE Expire(t)
    <3> DEFINE n == [m EXCEPT !.status = "expired"]
    <3>1. n \in Row /\ n.engine = "manual" /\ n.status \notin Won /\ Save(t, n, "e_ctl")
      BY <1>0, <2>4 DEF Expire, Row, Status, Terminal, Won
    <3> HIDE DEF n
    <3>2. QED
      BY <1>2, <3>1 DEF BusyPc, EnginePc, StageNode
  <2>5. CASE TakeDecision(t)
    <3> DEFINE n == [m EXCEPT !.status = "running", !.interrupt = FALSE,
                              !.decisions = @ \cup {t}]
    <3>1. m.decisions \cup {t} \in SUBSET Resumer
      BY <1>0, <1>7 DEF Row
    <3>2. n \in Row /\ n.engine = "manual" /\ n.status \notin Won
      BY <1>0, <3>1 DEF Row, Status, Won
    <3>3. Save(t, n, "enter")
      BY <1>0, <2>5 DEF TakeDecision
    <3> HIDE DEF n
    <3>4. QED
      BY <1>2, <3>2, <3>3 DEF BusyPc
  <2>6. CASE Resume(t)
    <3>1. CASE UNCHANGED <<mem, pc>>
      BY <1>0, <2>6, <3>1 DEF Resume, Minds, CancelInv
    <3>2. CASE Goto(t, "incompatible") \/ Goto(t, "e_save") \/ Goto(t, "r_ctl")
      <4>1. UNCHANGED run /\ (UNCHANGED mem \/ \E x : mem' = [mem EXCEPT ![t] = x])
        BY <2>6 DEF Resume, Load
      <4>2. QED
        BY <2>1, <3>2, <4>1
    <3>3. QED
      BY <2>6, <3>1, <3>2 DEF Resume
  <2>7. QED
    BY <1>7, <2>2, <2>3, <2>4, <2>5, <2>6 DEF ResumeStep
<1>8. CASE t \in Canceller /\ (CancelStep(t) \/ Cancel(t)) /\ ~Note(t)
  <2>0. CASE CancelControl(t)
    <3>1. CASE Goto(t, "c_flag") /\ UNCHANGED mem /\ m.status \notin Terminal
      <4>1. m.status \notin Won /\ UNCHANGED run /\ "c_flag" \notin BusyPc
        BY <2>0, <3>1 DEF Won, Terminal, CancelControl, BusyPc, EnginePc, StageNode
      <4>2. QED
        BY <1>0, <3>1, <4>1, MoveMinds
    <3>2. CASE Goto(t, "idle") \/ Goto(t, "c_ack_terminal")
      <4>1. UNCHANGED run /\ (UNCHANGED mem \/ \E x : mem' = [mem EXCEPT ![t] = x])
        BY <2>0 DEF CancelControl, Answer
      <4>2. QED
        BY <1>0, <1>1, <3>2, <4>1 DEF BusyPc, EnginePc, StageNode
    <3>3. QED
      BY <2>0, <3>1, <3>2 DEF CancelControl, Answer
  <2>1. CASE Report(t) \/ AckTerminal(t) \/ AckCancel(t) \/ Cancel(t) \/ Stop(t)
    <3>1. /\ \E p \in {"idle", "c_note", "c_ctl", "c_ack", "c_save"} : Goto(t, p)
          /\ UNCHANGED run /\ (UNCHANGED mem \/ \E x : mem' = [mem EXCEPT ![t] = x])
      BY <2>1 DEF Report, AckTerminal, AckCancel, Cancel, Stop, Answer, Load
    <3>2. QED
      BY <1>0, <1>1, <3>1 DEF BusyPc, EnginePc, StageNode
  <2>2. CASE Flag(t)
    <3> DEFINE n == [m EXCEPT !.cancelReq = TRUE]
    <3>1. n \in Row /\ n.engine = "manual" /\ n.status = m.status /\ Save(t, n, "c_stop")
      BY <1>0, <2>2 DEF Flag, Row
    <3>2. m.status \notin Won
      BY <2>2 DEF Flag, CancelInv
    <3> HIDE DEF n
    <3>3. QED
      BY <1>2, <3>1, <3>2 DEF BusyPc, EnginePc, StageNode
  <2>3. CASE SaveCanceled(t)
    <3>1. CASE UNCHANGED run /\ mem' = [mem EXCEPT ![t] = run] /\ Goto(t, "c_ack")
      BY <1>0, <1>1, <3>1 DEF BusyPc, EnginePc, StageNode
    <3>2. CASE Save(t, [m EXCEPT !.status = "canceled"], "c_ack")
      <4> DEFINE n == [m EXCEPT !.status = "canceled"]
      <4>1. n \in Row /\ n.engine = "manual" /\ n.status \notin Won /\ Save(t, n, "c_ack")
        BY <1>0, <3>2 DEF Row, Status, Terminal, Won
      <4> HIDE DEF n
      <4>2. QED
        BY <1>2, <4>1 DEF BusyPc, EnginePc, StageNode
    <3>3. QED
      BY <2>3, <3>1, <3>2 DEF SaveCanceled, Load
  <2>4. QED
    BY <1>8, <2>0, <2>1, <2>2, <2>3 DEF CancelStep
<1>9. ~Takeover
  BY <1>0 DEF Takeover, MayFallBack
<1>10. QED
  BY <1>3, <1>4, <1>5, <1>6, <1>7, <1>8, <1>9

(* The stages and the world around touch no row.                            *)
LEMMA AsideMinds ==
  ASSUME IInv, CancelInv, NEW t \in Task, UNCHANGED <<run, mem>>,
         Goto(t, "raised") \/ UNCHANGED pc
  PROVE  Minds(t)
<1>1. CASE Goto(t, "raised")
  BY <1>1, MoveMinds DEF CancelInv, BusyPc, EnginePc, StageNode
<1>2. CASE UNCHANGED pc
  BY <1>2 DEF Minds, CancelInv
<1>3. QED
  BY <1>1, <1>2

(* Every step minds the cancellation.                                       *)
LEMMA CancelInvStep ==
  ASSUME FirstEngine = "manual", IInv, CopiesAreTheRow, CancelInv, [Next]_vars
  PROVE  CancelInv'
<1>0. Shape /\ "exec" \in Task /\ "exec" \in Driver
  BY StepIsOnward, StepShape DEF Task, Driver
<1>1. CASE ExecStep \/ Execute
  <2>1. Minds("exec")
    BY <1>0, <1>1, DriveMinds, ServiceMinds DEF ExecStep
  <2>2. QED
    BY <1>0, <2>1, MindingKeeps
<1>2. ASSUME NEW r \in Resumer, ResumeStep(r) \/ Resume(r)
      PROVE  CancelInv'
  <2>1. r \in Task /\ r \in Driver
    BY KindsOfTasks
  <2>2. Minds(r)
    BY <1>2, <2>1, DriveMinds, ServiceMinds
  <2>3. QED
    BY <1>0, <2>1, <2>2, MindingKeeps
<1>3. ASSUME NEW c \in Canceller, CancelStep(c) \/ Cancel(c)
      PROVE  CancelInv'
  <2>1. c \in Task /\ Minds(c)
    BY <1>3, KindsOfTasks, ServiceMinds
  <2>2. QED
    BY <1>0, <2>1, MindingKeeps
<1>4. ASSUME NEW t \in Driver, GraphFails(t)
      PROVE  CancelInv'
  <2>1. t \in Task /\ Minds(t)
    BY <1>4, KindsOfTasks, AsideMinds DEF GraphFails, durable
  <2>2. QED
    BY <1>0, <2>1, MindingKeeps
<1>5. ASSUME NEW c \in DOMAIN call, CallStep(c) \/ Raise(c)
      PROVE  CancelInv'
  <2>1. c[1] \in Task
    BY TypeParts, CallsOfTasks DEF IInv
  <2>2. UNCHANGED <<run, mem>> /\ (Goto(c[1], "raised") \/ UNCHANGED pc)
    BY <1>5 DEF CallStep, Reserve, Complete, ForgetOrphan, Raise, Break, durable
  <2>3. QED
    BY <1>0, <2>1, <2>2, AsideMinds, MindingKeeps
<1>6. ASSUME NEW T, Dies(T)
      PROVE  CancelInv'
  <2>1. UNCHANGED run /\ \A u \in Task : \/ pc'[u] = "idle" /\ mem'[u] = NoCopy
                                         \/ pc'[u] = pc[u] /\ mem'[u] = mem[u]
    BY <1>6 DEF Dies, durable
  <2>2. Heeds(NoCopy) /\ "idle" \notin BusyPc
    BY DEF Heeds, NoCopy, NewRow, Won, BusyPc, EnginePc, StageNode
  <2>3. QED
    BY <2>1, <2>2 DEF CancelInv
<1>7. CASE Lapse \/ UNCHANGED vars
  BY <1>7 DEF Lapse, durable, vars, CancelInv
<1>8. QED
  BY <1>1, <1>2, <1>3, <1>4, <1>5, <1>6, <1>7 DEF Next, Program, World, Crash

(* A recorded cancellation is never followed by a successful end of a run   *)
(* the manual engine works on, through restarts, reviews and several       *)
(* processes (recovery_run_service.py, cancel; manual.py, run).            *)
THEOREM CancelCorrect ==
  ASSUME FirstEngine = "manual"
  PROVE  Spec => []CancelledNeverCompletes
<1>1. Init => CancelInv
  BY DEF Init, CancelInv, Heeds, NoCopy, NewRow, Won, BusyPc, EnginePc, StageNode
<1>2. IInv /\ CopiesAreTheRow /\ CancelInv /\ [Next]_vars => CancelInv'
  BY CancelInvStep
<1>3. CancelInv => CancelledNeverCompletes
  BY DEF CancelInv, Heeds, Won, CancelledNeverCompletes
<1>4. QED
  BY <1>1, <1>2, <1>3, TypeIsInvariant, CopiesCorrect, PTL DEF Spec

-----------------------------------------------------------------------------
(* The lifecycle.  Every step is a step of RunLifecycle, or none of it.     *)

(* Where a single request decides: no manual engine takes over from a graph *)
(* that has put a decided run to review again.                             *)
OneVoice == FirstEngine = "manual" \/ ~AutoFallback
GraphAlone == FirstEngine = "langgraph" /\ ~AutoFallback

(* What one step does to the status, the decisions and the cancellation.    *)
Walks ==
  \/ /\ run'.status = run.status /\ run'.decisions = run.decisions
     /\ run'.cancelReq = run.cancelReq
  \/ /\ run'.status \in Allowed[run.status]
     /\ run.status = "waiting_approval" => run'.status \in Terminal
     /\ run'.decisions = run.decisions /\ run'.cancelReq = run.cancelReq
  \/ /\ run.status \notin Terminal /\ run'.cancelReq = TRUE
     /\ run'.status = run.status /\ run'.decisions = run.decisions
  \/ /\ run.status = "waiting_approval" /\ run'.status = "running"
     /\ FirstEngine = "manual" => run.decisions = {}
     /\ \E r \in Resumer : /\ run'.decisions = run.decisions \cup {r}
                           /\ OneVoice => run.decisions \subseteq {r}
     /\ run'.cancelReq = run.cancelReq

(* That is what RunLifecycle allows. *)
LEMMA WalksAreLife ==
  ASSUME run \in Row, Walks
  PROVE  [Life!Next]_(Life!vars)
<1>1. CASE /\ run'.status = run.status /\ run'.decisions = run.decisions
           /\ run'.cancelReq = run.cancelReq
  BY <1>1 DEF Life!vars
<1>2. CASE /\ run'.status \in Allowed[run.status]
           /\ run.status = "waiting_approval" => run'.status \in Terminal
           /\ run'.decisions = run.decisions /\ run'.cancelReq = run.cancelReq
  <2>1. Life!Allowed = Allowed /\ Life!Terminal = Terminal
    BY DEF Life!Allowed, Allowed, Life!Terminal, Terminal, Life!Status, Status
  <2>2. Life!Advance
    BY <1>2, <2>1 DEF Life!Advance
  <2>3. QED
    BY <2>2 DEF Life!Next
<1>3. CASE /\ run.status \notin Terminal /\ run'.cancelReq = TRUE
           /\ run'.status = run.status /\ run'.decisions = run.decisions
  <2>1. Life!RequestCancel
    BY <1>3 DEF Life!RequestCancel, Life!Terminal, Terminal
  <2>2. QED
    BY <2>1 DEF Life!Next
<1>4. CASE /\ run.status = "waiting_approval" /\ run'.status = "running"
           /\ FirstEngine = "manual" => run.decisions = {}
           /\ \E r \in Resumer : /\ run'.decisions = run.decisions \cup {r}
                                 /\ OneVoice => run.decisions \subseteq {r}
           /\ run'.cancelReq = run.cancelReq
  <2>1. PICK r \in Resumer : /\ run'.decisions = run.decisions \cup {r}
                             /\ OneVoice => run.decisions \subseteq {r}
    BY <1>4
  <2>2. Life!Decide(r)
    BY <1>4, <2>1 DEF Life!Decide, OneVoice
  <2>3. QED
    BY <2>2 DEF Life!Next
<1>5. QED
  BY <1>1, <1>2, <1>3, <1>4 DEF Walks

(* An open interrupt means that the run waits, or that it has ended.        *)
Reviewed(m) == m.interrupt => m.status \in {"waiting_approval"} \cup Terminal

(* A resume request on its way to the decision holds a copy of such a run.  *)
AtReview == {"r_ctl", "r_int", "r_art", "r_save"}

ReviewInv ==
  /\ Reviewed(run)
  /\ \A t \in Task :
       /\ Reviewed(mem[t])
       /\ pc[t] \in AtReview => mem[t].status \in {"waiting_approval"} \cup Terminal
       /\ pc[t] = "c_flag" => mem[t].status \notin Terminal
       /\ GraphAlone /\ pc[t] = "r_save" /\ Fresh(t) => run.decisions \subseteq {t}

(* The graph keeps the run where nobody takes over.                         *)
GraphKeeps ==
  GraphAlone => /\ run.engine = "langgraph"
                /\ \A t \in Task : mem[t].engine = "langgraph"

(* Under the manual engine the one review there is follows a merge, and no  *)
(* merge runs again once a decision is on record.                          *)
Undecided(m) ==
  /\ m.engine = "manual"
  /\ m.status = "waiting_approval" => m.decisions = {} /\ HasMerge(m)
  /\ m.decisions # {} => HasMerge(m)

(* Only a merge that names its output asks for a review.                    *)
AsksWithMerge(res) == res.next = "needs_review" => res.out

(* A task that may put the run to review. *)
AsksReview(t) == pc[t] \in {"pause", "pause_save"}

ReviewsOnce(t) ==
  /\ Undecided(mem[t])
  /\ pc[t] = "await" /\ node[t] = "merge" => mem[t].decisions = {}
  /\ AsksReview(t) => mem[t].decisions = {} /\ HasMerge(mem[t])
  /\ pc[t] \notin {"r_graph", "r_again", "r_art"}

ResultsAsk ==
  /\ \A u \in Unit : AsksWithMerge(exec[u].res)
  /\ \A c \in DOMAIN call : AsksWithMerge(call[c].res)

OneReviewInv ==
  /\ Undecided(run)
  /\ \A t \in Task : ReviewsOnce(t)
  /\ ResultsAsk

(* What one step of task t must do for the lifecycle.                       *)
Lives(t) ==
  /\ \A u \in Task \ {t} : pc'[u] = pc[u] /\ mem'[u] = mem[u]
  /\ pc'[t] \in AtReview => mem'[t].status \in {"waiting_approval"} \cup Terminal
  /\ pc'[t] = "r_save" => \/ mem[t].engine = "manual"
                          \/ UNCHANGED run /\ run.decisions \subseteq {t}
  /\ pc'[t] = "c_flag" => mem'[t].status \notin Terminal
  /\ Reviewed(run')
  /\ Walks

LEMMA LivingKeeps ==
  ASSUME IInv, CopiesAreTheRow, GraphKeeps, ReviewInv, Shape, NEW t \in Task, Lives(t)
  PROVE  ReviewInv'
<1>1. Reviewed(NoCopy)
  BY DEF Reviewed, NoCopy, NewRow
<1>2. ASSUME NEW u \in Task, GraphAlone, pc'[u] = "r_save", Fresh(u)'
      PROVE  run'.decisions \subseteq {u}
  <2>1. CASE u = t
    BY <1>2, <2>1 DEF Lives, GraphKeeps
  <2>2. CASE u # t
    <3>1. pc[u] = "r_save" /\ mem[u].version = run'.version /\ mem[u].version <= run.version
      BY <1>2, <2>2 DEF Lives, Fresh, CopiesAreTheRow
    <3>2. run.version \in Nat /\ mem[u].version \in Nat
      BY DEF IInv, TypeOK, Row
    <3>3. run' = run
      BY <3>1, <3>2 DEF Shape, RowStep
    <3>4. QED
      BY <1>2, <3>1, <3>3 DEF ReviewInv, Fresh
  <2>3. QED
    BY <2>1, <2>2
<1>3. QED
  BY <1>1, <1>2 DEF Shape, CopyStep, ReviewInv, Lives

(* A task that leaves the row alone.                                       *)
LEMMA MoveLives ==
  ASSUME IInv, ReviewInv, NEW t \in Task, NEW p, Goto(t, p), UNCHANGED run,
         UNCHANGED mem \/ \E m : mem' = [mem EXCEPT ![t] = m],
         p \in AtReview => /\ mem'[t].status \in {"waiting_approval"} \cup Terminal
                           /\ p = "r_save" => mem[t].engine = "manual" \/ run.decisions \subseteq {t},
         p = "c_flag" => mem'[t].status \notin Terminal
  PROVE  Lives(t)
<1>1. pc \in [Task -> Pc] /\ mem \in [Task -> Row]
  BY DEF IInv, TypeOK
<1>2. QED
  BY <1>1 DEF Goto, Lives, Walks, ReviewInv, AtReview

(* A task that saves, and neither decides nor cancels.                      *)
LEMMA SaveLives ==
  ASSUME IInv, CopiesAreTheRow, ReviewInv, NEW t \in Task, NEW new \in Row, NEW next,
         Save(t, new, next), Reviewed(new),
         new.decisions = mem[t].decisions, new.cancelReq = mem[t].cancelReq,
         mem[t].status = "waiting_approval" => new.status # "running",
         next \in AtReview \ {"r_save"} => new.status \in {"waiting_approval"} \cup Terminal,
         next \notin {"r_save", "c_flag"}
  PROVE  Lives(t)
<1>1. CASE /\ pc'[t] = "raised" /\ UNCHANGED <<run, mem>>
           /\ \A u \in Task \ {t} : pc'[u] = pc[u] /\ mem'[u] = mem[u]
  BY <1>1 DEF Lives, Walks, ReviewInv, AtReview
<1>2. CASE /\ pc'[t] = next /\ mem[t] = run /\ mem'[t] = run' /\ run' = Bump(new)
           /\ \A u \in Task \ {t} : pc'[u] = pc[u] /\ mem'[u] = mem[u]
  <2>1. /\ run'.status = new.status /\ run'.decisions = new.decisions
        /\ run'.cancelReq = new.cancelReq /\ run'.interrupt = new.interrupt
    BY <1>2 DEF Bump, Row
  <2>2. CASE CanMove(run.status, new.status)
    <3>1. Walks
      <4>1. run \in Row /\ run.status \in Status
        BY DEF IInv, TypeOK, Row
      <4>2. run.status = "waiting_approval" /\ new.status # run.status => new.status \in Terminal
        BY <1>2, <2>2, <4>1 DEF CanMove, Allowed, Status, Terminal
      <4>3. QED
        BY <1>2, <2>1, <2>2, <4>2 DEF Walks, CanMove
    <3>2. Reviewed(run')
      BY <2>1 DEF Reviewed
    <3>3. QED
      BY <1>2, <2>1, <3>1, <3>2 DEF Lives
  <2>3. CASE ~CanMove(run.status, new.status)
    <3>1. Goto(t, "raised") /\ UNCHANGED <<run, mem>>
      BY <1>2, <2>3 DEF Save
    <3>2. "raised" \notin AtReview /\ "raised" # "c_flag"
      BY DEF AtReview
    <3>3. QED
      BY <3>1, <3>2, MoveLives
  <2>4. QED
    BY <2>2, <2>3
<1>3. QED
  BY <1>1, <1>2, SaveOrRaise

(* A task that saves a row with another status, interrupt or plan only.     *)
SameReview(m, n) ==
  /\ n \in Row /\ n.decisions = m.decisions /\ n.cancelReq = m.cancelReq
  /\ n.interrupt = m.interrupt

LEMMA SaveOn ==
  ASSUME IInv, CopiesAreTheRow, ReviewInv, NEW t \in Task, NEW new, NEW next,
         Save(t, new, next), SameReview(mem[t], new),
         \/ new.status \in {mem[t].status} \cup Terminal
         \/ mem[t].status \in {"queued", "running"} /\ new.status = "running",
         next \notin AtReview, next # "c_flag"
  PROVE  Lives(t)
<1>1. new \in Row /\ Reviewed(mem[t])
  BY DEF SameReview, ReviewInv
<1>2. Reviewed(new)
  BY <1>1 DEF SameReview, Reviewed, Terminal
<1>3. mem[t].status = "waiting_approval" => new.status # "running"
  BY DEF Terminal
<1>4. QED
  BY <1>1, <1>2, <1>3, SaveLives DEF SameReview, AtReview

(* The engines start and end work, and put the run to review.               *)
LEMMA DriveLives ==
  ASSUME IInv, CopiesAreTheRow, ReviewInv, NEW t \in Driver, Drive(t)
  PROVE  Lives(t)
<1> DEFINE m == mem[t]
<1>0. /\ t \in Task /\ m \in Row /\ Reviewed(m) /\ Reviewed(run)
      /\ pc \in [Task -> Pc] /\ mem \in [Task -> Row] /\ node[t] \in StageNode
  BY KindsOfTasks DEF IInv, TypeOK, ReviewInv
<1>1. ASSUME NEW p \in EnginePc \cup {"return"}, Goto(t, p), UNCHANGED run,
             UNCHANGED mem \/ \E x : mem' = [mem EXCEPT ![t] = x]
      PROVE  Lives(t)
  BY <1>0, <1>1, MoveLives DEF AtReview, EnginePc, StageNode
<1>2. ASSUME NEW n, NEW p \in EnginePc \cup {"return"}, Save(t, n, p), SameReview(m, n),
             \/ n.status \in {m.status} \cup Terminal
             \/ m.status \in {"queued", "running"} /\ n.status = "running"
      PROVE  Lives(t)
  BY <1>0, <1>2, SaveOn DEF AtReview, EnginePc, StageNode
<1>3. CASE Enter(t)
  <2>1. ASSUME NEW s \in {"canceled", "running"}, NEW p \in {"announce", "survey"},
               Save(t, [m EXCEPT !.status = s], p), m.status \in {"queued", "running"}
        PROVE  Lives(t)
    <3> DEFINE n == [m EXCEPT !.status = s]
    <3>1. SameReview(m, n) /\ n.status = s /\ Save(t, n, p)
      BY <1>0, <2>1 DEF SameReview, Row, Status, Terminal
    <3> HIDE DEF n
    <3>2. QED
      BY <1>2, <2>1, <3>1 DEF EnginePc, StageNode, Terminal
  <2>2. CASE (Goto(t, "return") \/ Goto(t, "survey")) /\ UNCHANGED <<run, mem>>
    BY <1>1, <2>2 DEF EnginePc, StageNode
  <2>3. QED
    BY <1>3, <2>1, <2>2 DEF Enter
<1>4. CASE Skip(t)
  <2>1. Following(pc[t], m.engine) \in EnginePc
    BY <1>4 DEF Skip, Following, EnginePc, StageNode
  <2>2. QED
    BY <1>1, <1>4, <2>1 DEF Skip, durable
<1>5. CASE Pause(t)
  BY <1>1, <1>5 DEF Pause, EnginePc
<1>6. CASE Launch(t)
  <2> DEFINE us == UnitsAt(pc[t], m)
             n == [m EXCEPT !.pending = @ \cup us]
  <2>1. us \in SUBSET Unit
    BY <1>0, <1>6, UnitsAreUnits DEF Launch
  <2>2. SameReview(m, n) /\ n.status = m.status
    BY <1>0, <2>1 DEF Row, SameReview
  <2>3. CASE Save(t, n, "await")
    <3> HIDE DEF n
    <3>1. QED
      BY <1>2, <2>2, <2>3 DEF EnginePc
  <2>4. CASE Goto(t, "await") /\ UNCHANGED <<run, mem>>
    BY <1>1, <2>4 DEF EnginePc
  <2>5. QED
    BY <1>6, <2>3, <2>4 DEF Launch
<1>7. CASE Join(t)
  <2> DEFINE us == {c[2] : c \in {d \in Awaited(t) :
                     m.engine = "langgraph" /\ node[t] \in {"fanout", "evidence"} =>
                       ~DoneUnit(m, d[2])}}
             res == [u \in us |-> call[<<t, u, TRUE>>].res]
             new == Joined(m, us, res)
             asked == IF node[t] = "merge" THEN res[<<"merge", m.round>>].next
                      ELSE "accept"
  <2>1. us \in SUBSET Unit /\ res \in [us -> Result]
    <3>1. \A c \in Awaited(t) : /\ c[2] \in Unit /\ <<t, c[2], TRUE>> \in DOMAIN call
                                /\ call[<<t, c[2], TRUE>>].res \in Result
      BY <1>0, TypeParts, CallsOfTasks DEF IInv, Awaited, Call
    <3>2. QED
      BY <3>1
  <2>2. Save(t, new, Route(node[t], new, asked))
    BY <1>7 DEF Join
  <2>3. Route(node[t], new, asked) \in EnginePc
    BY <1>0 DEF Route, Following, StageNode, EnginePc
  <2> HIDE DEF us, res, asked
  <2>4. SameReview(m, new) /\ new.status \in {m.status} \cup Terminal
    <3>1. new \in Row /\ new.status \in {m.status, "blocked", "failed", "canceled"}
      <4> HIDE DEF m
      <4>1. QED
        BY <1>0, <2>1, JoinedIsRow, JoinedStatus
    <3>2. QED
      BY <1>0, <3>1 DEF Joined, Row, SameReview, Terminal
  <2> HIDE DEF new
  <2>5. QED
    BY <1>2, <2>2, <2>3, <2>4
<1>8. CASE Deepen(t)
  <2> DEFINE n == [m EXCEPT !.round = @ + 1]
  <2>1. m.round + 1 \in 0 .. MaxRounds
    BY <1>0, <1>8, ConstantsAssumption DEF Deepen, IInv, DeepensInBounds, Row
  <2>2. SameReview(m, n) /\ n.status = m.status
    BY <1>0, <2>1 DEF Row, SameReview
  <2>3. Save(t, n, "evidence")
    BY <1>8 DEF Deepen
  <2> HIDE DEF n
  <2>4. QED
    BY <1>2, <2>2, <2>3 DEF EnginePc, StageNode
<1>9. CASE Finalize(t)
  <2> DEFINE s == IF m.engine = "langgraph" /\ m.status # "running" THEN m.status
                  ELSE Verdict(m)
             n == [m EXCEPT !.status = s, !.result = @ \/ HasMerge(m)]
  <2>1. s \in {m.status} \cup Terminal /\ (m.result \/ HasMerge(m)) \in BOOLEAN
    <3>1. Verdict(m) \in Terminal
      BY VerdictIsTerminal DEF Verdict, HasMerge
    <3>2. QED
      BY <1>0, <3>1 DEF Row, HasMerge
  <2>2. Save(t, n, "announce")
    BY <1>9 DEF Finalize
  <2> HIDE DEF s
  <2>3. SameReview(m, n) /\ n.status = s
    BY <1>0, <2>1 DEF Row, SameReview, Status
  <2> HIDE DEF n
  <2>4. QED
    BY <1>2, <2>1, <2>2, <2>3 DEF EnginePc
<1>10. CASE PauseSave(t)
  <2> DEFINE n == [m EXCEPT !.status = "waiting_approval", !.interrupt = TRUE]
  <2>1. /\ n \in Row /\ n.status = "waiting_approval" /\ n.decisions = m.decisions
        /\ n.cancelReq = m.cancelReq /\ Save(t, n, "return")
    BY <1>0, <1>10 DEF PauseSave, Row, Status
  <2> HIDE DEF n
  <2>2. QED
    BY <1>0, <2>1, SaveLives DEF Reviewed, AtReview
<1>11. CASE Announce(t)
  <2>1. SameReview(m, m) /\ Save(t, m, "return")
    BY <1>0, <1>11 DEF Announce, SameReview
  <2>2. QED
    BY <1>2, <2>1
<1>12. QED
  BY <1>3, <1>4, <1>5, <1>6, <1>7, <1>8, <1>9, <1>10, <1>11 DEF Drive

(* A row that a task has just read and writes back with another end.        *)
LEMMA ExecLives ==
  ASSUME IInv, CopiesAreTheRow, ReviewInv, Settle \/ Takeover \/ Fail \/ Execute
  PROVE  Lives("exec")
<1>0. /\ "exec" \in Task /\ run \in Row /\ Reviewed(run)
      /\ pc \in [Task -> Pc] /\ mem \in [Task -> Row]
  BY DEF IInv, TypeOK, ReviewInv, Task
<1>1. ASSUME NEW p \in {"raised", "idle", "enter", "incompatible"}, Goto("exec", p),
             UNCHANGED run, UNCHANGED mem \/ \E x : mem' = [mem EXCEPT !["exec"] = x]
      PROVE  Lives("exec")
  BY <1>0, <1>1, MoveLives DEF AtReview
<1>2. CASE Settle \/ Execute
  BY <1>1, <1>2 DEF Settle, Execute, Answer, Load
<1>3. CASE Takeover
  <2> DEFINE n == [run EXCEPT !.engine = "manual", !.fallbacks = @ + 1]
  <2>1. /\ Bump(n).status = run.status /\ Bump(n).decisions = run.decisions
        /\ Bump(n).cancelReq = run.cancelReq /\ Bump(n).interrupt = run.interrupt
    BY <1>0 DEF Bump, Row
  <2>2. run' = Bump(n) /\ Goto("exec", "enter") /\ mem' = [mem EXCEPT !["exec"] = run']
    BY <1>3 DEF Takeover
  <2> HIDE DEF n
  <2>3. Walks /\ Reviewed(run')
    BY <1>0, <2>1, <2>2 DEF Walks, Reviewed
  <2>4. QED
    BY <1>0, <2>2, <2>3 DEF Lives, Goto, AtReview
<1>4. CASE Fail
  <2>1. CASE Answer("exec") /\ UNCHANGED run
    BY <1>1, <1>4, <2>1 DEF Answer
  <2>2. CASE ~(Answer("exec") /\ UNCHANGED run)
    <3> DEFINE s == IF run.status = "waiting_approval" THEN "blocked" ELSE "failed"
               n == [run EXCEPT !.status = s]
    <3>1. run' = Bump(n) /\ Goto("exec", "fail_note") /\ mem' = [mem EXCEPT !["exec"] = run']
      BY <1>4, <2>2 DEF Fail
    <3>2. /\ Bump(n).status = s /\ Bump(n).decisions = run.decisions
          /\ Bump(n).cancelReq = run.cancelReq /\ Bump(n).interrupt = run.interrupt
      BY <1>0 DEF Bump, Row
    <3>3. s \in Terminal /\ s \in Allowed[run.status]
      BY <1>0, <1>4, <2>2 DEF Fail, Row, Status, Terminal, Allowed
    <3> HIDE DEF n, s
    <3>4. Walks /\ Reviewed(run')
      BY <3>1, <3>2, <3>3 DEF Walks, Reviewed
    <3>5. QED
      BY <1>0, <3>1, <3>4 DEF Lives, Goto, AtReview
  <2>3. QED
    BY <2>1, <2>2
<1>5. QED
  BY <1>2, <1>3, <1>4

(* A failure, a cancellation or an expiry closes the run once.              *)
LEMMA CloseLives ==
  ASSUME IInv, CopiesAreTheRow, ReviewInv, NEW t \in Task, Block(t) \/ Note(t) \/ Report(t)
  PROVE  Lives(t)
<1> DEFINE m == mem[t]
<1>0. /\ m \in Row /\ run \in Row /\ Reviewed(m) /\ Reviewed(run)
      /\ pc \in [Task -> Pc] /\ mem \in [Task -> Row]
  BY DEF IInv, TypeOK, ReviewInv
<1>1. CASE Answer(t) /\ UNCHANGED run
  BY <1>1, MoveLives DEF Answer, AtReview
<1>2. CASE Save(t, [m EXCEPT !.status = "blocked"], "fail_note")
  <2> DEFINE n == [m EXCEPT !.status = "blocked"]
  <2>1. SameReview(m, n) /\ n.status \in Terminal /\ Save(t, n, "fail_note")
    BY <1>0, <1>2 DEF SameReview, Row, Status, Terminal
  <2> HIDE DEF n
  <2>2. QED
    BY <2>1, SaveOn DEF AtReview
<1>3. CASE Note(t)
  <2>1. Answer(t)
    BY <1>3 DEF Note
  <2>2. CASE Fresh(t)
    <3>1. run' = Bump(run) /\ m = run
      BY <1>3, <2>2 DEF Note, CopiesAreTheRow, Fresh
    <3>2. /\ Bump(run).status = run.status /\ Bump(run).decisions = run.decisions
          /\ Bump(run).cancelReq = run.cancelReq /\ Bump(run).interrupt = run.interrupt
      BY <1>0 DEF Bump, Row
    <3>3. Walks /\ Reviewed(run')
      BY <1>0, <3>1, <3>2 DEF Walks, Reviewed
    <3>4. QED
      BY <1>0, <2>1, <3>3 DEF Lives, Answer, Goto, AtReview
  <2>3. CASE ~Fresh(t)
    BY <1>1, <1>3, <2>1, <2>3 DEF Note
  <2>4. QED
    BY <2>2, <2>3
<1>4. QED
  BY <1>1, <1>2, <1>3 DEF Block, Report

(* A resume request reaches its decision with the copy of a run that waits, *)
(* or raises.                                                              *)
LEMMA ResumeLives ==
  ASSUME IInv, CopiesAreTheRow, ReviewInv, FirstEngine = "manual" => OneReviewInv,
         NEW r \in Resumer, ResumeStep(r) \/ Resume(r)
  PROVE  Lives(r)
<1> DEFINE m == mem[r]
           waits == {"waiting_approval"} \cup Terminal
<1>0. /\ r \in Task /\ r \in Driver /\ m \in Row /\ run \in Row /\ Reviewed(m) /\ Reviewed(run)
      /\ pc \in [Task -> Pc] /\ mem \in [Task -> Row]
      /\ pc[r] \in AtReview => m.status \in waits
  BY KindsOfTasks DEF IInv, TypeOK, ReviewInv
<1>1. ASSUME NEW p, p \notin AtReview \cup {"c_flag"}, Goto(r, p), UNCHANGED run,
             UNCHANGED mem \/ \E x : mem' = [mem EXCEPT ![r] = x]
      PROVE  Lives(r)
  BY <1>0, <1>1, MoveLives
<1>2. ASSUME NEW p \in AtReview \cup {"raised"}, Goto(r, p), UNCHANGED run,
             \/ UNCHANGED mem /\ pc[r] \in AtReview
             \/ mem' = [mem EXCEPT ![r] = run] /\ run.status \in waits,
             p = "r_save" => m.engine = "manual" \/ run.decisions \subseteq {r}
      PROVE  Lives(r)
  <2>1. mem'[r].status \in waits /\ p # "c_flag"
    BY <1>0, <1>2 DEF AtReview
  <2>2. QED
    BY <1>0, <1>2, <2>1, MoveLives
<1>3. CASE Drive(r) \/ Block(r) \/ Note(r) \/ Report(r)
  BY <1>0, <1>3, DriveLives, CloseLives
<1>4. CASE Back(r) \/ AckResume(r) \/ ExpireInterrupt(r)
  BY <1>1, <1>4 DEF Back, AckResume, ExpireInterrupt, Answer, AtReview
<1>5. CASE ResumeControl(r)
  BY <1>2, <1>5 DEF ResumeControl, AtReview
<1>6. CASE ResolveInterrupt(r)
  <2>1. CASE Goto(r, "r_graph")
    BY <1>1, <1>6, <2>1 DEF ResolveInterrupt, AtReview
  <2>2. CASE Goto(r, "r_save") /\ m.engine # "langgraph"
    <3>1. m.engine = "manual"
      BY <1>0, <2>2 DEF Row, Engine
    <3>2. QED
      BY <1>2, <1>6, <2>2, <3>1 DEF ResolveInterrupt, AtReview
  <2>3. QED
    BY <1>6, <2>1, <2>2 DEF ResolveInterrupt
<1>7. CASE ReplayInterrupt(r)
  <2>1. CASE run.interrupt
    BY <1>0, <1>2, <1>7, <2>1 DEF ReplayInterrupt, Load, Reviewed, AtReview
  <2>2. CASE ~run.interrupt
    BY <1>1, <1>7, <2>2 DEF ReplayInterrupt, Load, AtReview
  <2>3. QED
    BY <2>1, <2>2
<1>8. CASE StoreDecision(r)
  <2>1. CASE Goto(r, "raised")
    BY <1>1, <1>8, <2>1 DEF StoreDecision, AtReview
  <2>2. CASE Goto(r, "r_save") /\ run.decisions \subseteq {r}
    BY <1>2, <1>8, <2>2 DEF StoreDecision, AtReview
  <2>3. QED
    BY <1>8, <2>1, <2>2 DEF StoreDecision
<1>9. CASE PauseAgain(r)
  <2> DEFINE n == [m EXCEPT !.status = "waiting_approval", !.interrupt = TRUE]
  <2>1. /\ n \in Row /\ n.status = "waiting_approval" /\ n.decisions = m.decisions
        /\ n.cancelReq = m.cancelReq /\ Save(r, n, "r_art")
    BY <1>0, <1>9 DEF PauseAgain, Row, Status
  <2> HIDE DEF n
  <2>2. QED
    BY <1>0, <2>1, SaveLives DEF Reviewed
<1>10. CASE Expire(r)
  <2> DEFINE n == [m EXCEPT !.status = "expired"]
  <2>1. SameReview(m, n) /\ n.status \in Terminal /\ Save(r, n, "e_ctl")
    BY <1>0, <1>10 DEF Expire, SameReview, Row, Status, Terminal
  <2> HIDE DEF n
  <2>2. QED
    BY <1>0, <2>1, SaveOn DEF AtReview
<1>11. CASE TakeDecision(r)
  <2> DEFINE n == [m EXCEPT !.status = "running", !.interrupt = FALSE,
                            !.decisions = @ \cup {r}]
             next == IF m.engine = "langgraph" THEN "consolidate" ELSE "enter"
  <2>1. Save(r, n, next) /\ next \notin AtReview \cup {"c_flag"} /\ m.status \in waits
    BY <1>0, <1>11 DEF TakeDecision, AtReview
  <2>2. n \in Row /\ n.status = "running" /\ n.decisions = m.decisions \cup {r}
        /\ n.cancelReq = m.cancelReq /\ n.interrupt = FALSE
    <3>1. m.decisions \cup {r} \in SUBSET Resumer
      BY <1>0 DEF Row
    <3>2. QED
      BY <1>0, <3>1 DEF Row, Status
  <2>6. GraphAlone /\ m = run => run.decisions \subseteq {r}
    BY <1>0, <1>11 DEF TakeDecision, ReviewInv, Fresh
  <2> HIDE DEF n, next
  <2>3. CASE pc'[r] = "raised" /\ UNCHANGED <<run, mem>>
             /\ \A u \in Task \ {r} : pc'[u] = pc[u] /\ mem'[u] = mem[u]
    BY <1>0, <2>3 DEF Lives, Walks, AtReview
  <2>4. CASE /\ pc'[r] = next /\ m = run /\ run' = Bump(n) /\ CanMove(m.status, n.status)
             /\ \A u \in Task \ {r} : pc'[u] = pc[u] /\ mem'[u] = mem[u]
    <3>1. run.status = "waiting_approval"
      BY <2>1, <2>2, <2>4 DEF CanMove, Allowed, Status, Terminal
    <3>2. /\ FirstEngine = "manual" => run.decisions = {}
          /\ OneVoice => run.decisions \subseteq {r}
      BY <2>4, <2>6, <3>1, ConstantsAssumption DEF OneReviewInv, Undecided, OneVoice, GraphAlone
    <3>3. /\ run'.status = "running" /\ run'.decisions = run.decisions \cup {r}
          /\ run'.cancelReq = run.cancelReq /\ run'.interrupt = FALSE
      BY <2>2, <2>4 DEF Bump, Row
    <3>4. Walks /\ Reviewed(run')
      BY <3>1, <3>2, <3>3 DEF Walks, Reviewed
    <3>5. QED
      BY <2>1, <2>4, <3>4 DEF Lives, AtReview
  <2>5. QED
    <3>1. /\ \A u \in Task \ {r} : pc'[u] = pc[u] /\ mem'[u] = mem[u]
          /\ \/ pc'[r] = next /\ m = run /\ run' = Bump(n)
             \/ pc'[r] = "raised" /\ UNCHANGED <<run, mem>>
      BY <1>0, <2>1, <2>2, SaveOrRaise
    <3>2. CanMove(m.status, n.status) \/ (pc'[r] = "raised" /\ UNCHANGED <<run, mem>>)
      BY <1>0, <2>1 DEF Save, Goto
    <3>3. QED
      BY <2>3, <2>4, <3>1, <3>2
<1>12. CASE Resume(r)
  <2>1. CASE UNCHANGED <<mem, pc>>
    BY <1>0, <1>12, <2>1 DEF Resume, Lives, Walks, ReviewInv
  <2>2. CASE Load(r) /\ Goto(r, "incompatible")
    BY <1>1, <1>12, <2>2 DEF Resume, Load, AtReview
  <2>3. CASE Load(r) /\ Goto(r, IF lapsed THEN "e_save" ELSE "r_ctl")
             /\ run.status = "waiting_approval"
    <3>1. CASE lapsed
      BY <1>1, <1>12, <2>3, <3>1 DEF Resume, Load, AtReview
    <3>2. CASE ~lapsed
      BY <1>2, <1>12, <2>3, <3>2 DEF Resume, Load, AtReview
    <3>3. QED
      BY <3>1, <3>2
  <2>4. QED
    BY <1>12, <2>1, <2>2, <2>3 DEF Resume
<1>13. QED
  BY <1>3, <1>4, <1>5, <1>6, <1>7, <1>8, <1>9, <1>10, <1>11, <1>12 DEF ResumeStep

(* A cancel request goes on record only while the run has not ended.        *)
LEMMA CancelLives ==
  ASSUME IInv, CopiesAreTheRow, ReviewInv, NEW c \in Canceller, CancelStep(c) \/ Cancel(c)
  PROVE  Lives(c)
<1> DEFINE m == mem[c]
<1>0. /\ c \in Task /\ m \in Row /\ run \in Row /\ Reviewed(m) /\ Reviewed(run)
      /\ pc \in [Task -> Pc] /\ mem \in [Task -> Row]
      /\ pc[c] = "c_flag" => m.status \notin Terminal
  BY KindsOfTasks DEF IInv, TypeOK, ReviewInv
<1>1. ASSUME NEW p, p \notin AtReview \cup {"c_flag"}, Goto(c, p), UNCHANGED run,
             UNCHANGED mem \/ \E x : mem' = [mem EXCEPT ![c] = x]
      PROVE  Lives(c)
  BY <1>0, <1>1, MoveLives
<1>2. CASE Note(c) \/ Report(c)
  BY <1>0, <1>2, CloseLives
<1>3. CASE AckTerminal(c) \/ AckCancel(c) \/ Cancel(c) \/ Stop(c)
  BY <1>1, <1>3 DEF AckTerminal, AckCancel, Cancel, Stop, Answer, Load, AtReview
<1>4. CASE CancelControl(c)
  <2>1. CASE Answer(c)
    BY <1>1, <1>4, <2>1 DEF CancelControl, Answer, AtReview
  <2>2. CASE m.status \in Terminal /\ Goto(c, "c_ack_terminal") /\ UNCHANGED mem
    BY <1>1, <1>4, <2>2 DEF CancelControl, AtReview
  <2>3. CASE m.status \notin Terminal /\ Goto(c, "c_flag") /\ UNCHANGED mem
    BY <1>0, <1>4, <2>3, MoveLives DEF CancelControl, AtReview
  <2>4. QED
    BY <1>4, <2>1, <2>2, <2>3 DEF CancelControl
<1>5. CASE Flag(c)
  <2> DEFINE n == [m EXCEPT !.cancelReq = TRUE]
  <2>1. n \in Row /\ n.status = m.status /\ n.decisions = m.decisions /\ n.cancelReq = TRUE
        /\ n.interrupt = m.interrupt /\ Save(c, n, "c_stop") /\ m.status \notin Terminal
    BY <1>0, <1>5 DEF Flag, Row
  <2> HIDE DEF n
  <2>2. CASE pc'[c] = "raised" /\ UNCHANGED <<run, mem>>
             /\ \A u \in Task \ {c} : pc'[u] = pc[u] /\ mem'[u] = mem[u]
    BY <1>0, <2>2 DEF Lives, Walks, AtReview
  <2>3. CASE /\ pc'[c] = "c_stop" /\ m = run /\ run' = Bump(n)
             /\ \A u \in Task \ {c} : pc'[u] = pc[u] /\ mem'[u] = mem[u]
    <3>1. /\ run'.status = run.status /\ run'.decisions = run.decisions
          /\ run'.cancelReq = TRUE /\ run'.interrupt = run.interrupt
      BY <2>1, <2>3 DEF Bump, Row
    <3>2. Walks /\ Reviewed(run')
      BY <1>0, <2>1, <2>3, <3>1 DEF Walks, Reviewed
    <3>3. QED
      BY <2>3, <3>2 DEF Lives, AtReview
  <2>4. QED
    BY <1>0, <2>1, <2>2, <2>3, SaveOrRaise
<1>6. CASE SaveCanceled(c)
  <2>1. CASE Load(c) /\ Goto(c, "c_ack") /\ UNCHANGED run
    BY <1>1, <2>1 DEF Load, AtReview
  <2>2. CASE Save(c, [m EXCEPT !.status = "canceled"], "c_ack")
    <3> DEFINE n == [m EXCEPT !.status = "canceled"]
    <3>1. SameReview(m, n) /\ n.status \in Terminal /\ Save(c, n, "c_ack")
      BY <1>0, <2>2 DEF SameReview, Row, Status, Terminal
    <3> HIDE DEF n
    <3>2. QED
      BY <1>0, <3>1, SaveOn DEF AtReview
  <2>3. QED
    BY <1>6, <2>1, <2>2 DEF SaveCanceled
<1>7. QED
  BY <1>2, <1>3, <1>4, <1>5, <1>6 DEF CancelStep

(* Every step of the run keeps the lifecycle.                               *)
LEMMA LifeStep ==
  ASSUME IInv, CopiesAreTheRow, GraphKeeps, ReviewInv, FirstEngine = "manual" => OneReviewInv,
         [Next]_vars
  PROVE  ReviewInv' /\ Walks
<1>0. Shape /\ "exec" \in Task /\ "exec" \in Driver
  BY StepIsOnward DEF Task, Driver
<1>1. CASE ExecStep \/ Execute
  <2>1. Lives("exec")
    BY <1>0, <1>1, DriveLives, ExecLives, CloseLives DEF ExecStep
  <2>2. QED
    BY <1>0, <2>1, LivingKeeps DEF Lives
<1>2. ASSUME NEW r \in Resumer, ResumeStep(r) \/ Resume(r)
      PROVE  ReviewInv' /\ Walks
  <2>1. r \in Task /\ Lives(r)
    BY <1>2, KindsOfTasks, ResumeLives
  <2>2. QED
    BY <1>0, <2>1, LivingKeeps DEF Lives
<1>3. ASSUME NEW c \in Canceller, CancelStep(c) \/ Cancel(c)
      PROVE  ReviewInv' /\ Walks
  <2>1. c \in Task /\ Lives(c)
    BY <1>3, KindsOfTasks, CancelLives
  <2>2. QED
    BY <1>0, <2>1, LivingKeeps DEF Lives
<1>4. ASSUME NEW t \in Task, UNCHANGED <<run, mem>>, Goto(t, "raised") \/ UNCHANGED pc
      PROVE  ReviewInv' /\ Walks
  <2>1. CASE Goto(t, "raised")
    <3>1. Lives(t)
      BY <1>4, <2>1, MoveLives DEF AtReview
    <3>2. QED
      BY <1>0, <3>1, LivingKeeps DEF Lives
  <2>2. CASE UNCHANGED pc
    BY <1>4, <2>2 DEF ReviewInv, Walks, Fresh
  <2>3. QED
    BY <1>4, <2>1, <2>2
<1>5. ASSUME NEW t \in Driver, GraphFails(t)
      PROVE  ReviewInv' /\ Walks
  BY <1>4, <1>5, KindsOfTasks DEF GraphFails, durable
<1>6. ASSUME NEW c \in DOMAIN call, CallStep(c) \/ Raise(c)
      PROVE  ReviewInv' /\ Walks
  <2>1. c[1] \in Task
    BY TypeParts, CallsOfTasks DEF IInv
  <2>2. UNCHANGED <<run, mem>> /\ (Goto(c[1], "raised") \/ UNCHANGED pc)
    BY <1>6 DEF CallStep, Reserve, Complete, ForgetOrphan, Raise, Break, durable
  <2>3. QED
    BY <1>4, <2>1, <2>2
<1>7. ASSUME NEW T, Dies(T)
      PROVE  ReviewInv' /\ Walks
  <2>1. UNCHANGED run /\ \A u \in Task : \/ pc'[u] = "idle" /\ mem'[u] = NoCopy
                                         \/ pc'[u] = pc[u] /\ mem'[u] = mem[u]
    BY <1>7 DEF Dies, durable
  <2>2. Reviewed(NoCopy)
    BY DEF Reviewed, NoCopy, NewRow
  <2>3. QED
    BY <2>1, <2>2 DEF ReviewInv, Walks, AtReview, Fresh
<1>8. CASE Lapse \/ UNCHANGED vars
  BY <1>8 DEF Lapse, durable, vars, ReviewInv, Walks, Fresh
<1>9. QED
  BY <1>1, <1>2, <1>3, <1>5, <1>6, <1>7, <1>8 DEF Next, Program, World, Crash

-----------------------------------------------------------------------------
(* One review under the manual engine.                                     *)

(* A step that touches no recorded result, and no call's but by dropping    *)
(* calls, renaming them or creating them without a result.                  *)
LEMMA CallsAsk ==
  ASSUME ResultsAsk, UNCHANGED exec,
         \A c \in DOMAIN call' : \/ call'[c].res = NoResult
                                 \/ \E d \in DOMAIN call : call'[c].res = call[d].res
  PROVE  ResultsAsk'
  BY DEF ResultsAsk, AsksWithMerge, NoResult, Returned

LEMMA BreakAsks ==
  ASSUME IInv, ResultsAsk, NEW c \in DOMAIN call, NEW kinds, Break(c, kinds), UNCHANGED exec
  PROVE  ResultsAsk'
<1> DEFINE t == c[1]
           others == {d \in Awaited(t) : d # c /\ call[d].st # "done"}
           left == IF mem[t].engine = "langgraph" THEN {}
                   ELSE {<<t, d[2], FALSE>> : d \in others}
<1>1. \A d \in others : <<t, d[2], TRUE>> \in DOMAIN call
  BY TypeParts, CallsOfTasks DEF IInv, Awaited
<1>2. ASSUME NEW d \in left
      PROVE  <<t, d[2], TRUE>> \in DOMAIN call
  <2>1. PICK e \in others : d = <<t, e[2], FALSE>>
    OBVIOUS
  <2>2. d[2] = e[2]
    BY <2>1
  <2>3. QED
    BY <1>1, <2>2
<1> HIDE DEF left
<1>3. CASE call' = [d \in (DOMAIN call \ Awaited(t)) \cup left |->
                     IF d \in DOMAIN call THEN call[d] ELSE call[<<t, d[2], TRUE>>]]
  BY <1>2, <1>3, CallsAsk
<1>4. CASE call' = Without({c})
  BY <1>4, CallsAsk DEF Without
<1>5. QED
  BY <1>3, <1>4 DEF Break, left, others

(* Only the merge stage asks for a review, and it names its output then.    *)
LEMMA ResultsStep ==
  ASSUME IInv, ResultsAsk, [Next]_vars
  PROVE  ResultsAsk'
<1>1. CASE UNCHANGED <<exec, call>>
  BY <1>1 DEF ResultsAsk
<1>2. ASSUME NEW T, call' = Without(T), UNCHANGED exec
      PROVE  ResultsAsk'
  BY <1>2, CallsAsk DEF Without
<1>3. ASSUME NEW t \in Driver, Launch(t)
      PROVE  ResultsAsk'
  <2>1. CASE pc'[t] = "await"
    <3> DEFINE new == {t} \X UnitsAt(pc[t], mem[t]) \X {TRUE}
    <3>1. /\ DOMAIN call' = new \cup DOMAIN call
          /\ \A c \in DOMAIN call' : IF c \in new THEN call'[c].res = NoResult
                                     ELSE call'[c] = call[c]
      <4> HIDE DEF new
      <4>1. call' = [c \in new \cup DOMAIN call |->
                     IF c \in new
                     THEN [st |-> "ready", in |-> InputOf(mem[t]),
                           cancelled |-> mem[t].cancelReq, res |-> NoResult]
                     ELSE call[c]]
        BY <1>3, <2>1 DEF Launch, new
      <4>2. QED
        BY <4>1
    <3> HIDE DEF new
    <3>2. UNCHANGED exec
      BY <1>3 DEF Launch
    <3>3. QED
      BY <3>1, <3>2, CallsAsk
  <2>2. CASE pc'[t] # "await"
    BY <1>1, <1>3, <2>2 DEF Launch
  <2>3. QED
    BY <2>1, <2>2
<1>4. ASSUME NEW t \in Driver, Drive(t)
      PROVE  ResultsAsk'
  BY <1>1, <1>2, <1>3, <1>4 DEF Drive, Enter, Skip, Join, Deepen, Pause, PauseSave, Finalize,
     Announce, durable
<1>5. ASSUME NEW c \in DOMAIN call, Reserve(c)
      PROVE  ResultsAsk'
  <2> DEFINE u == c[2]
  <2>0. u \in Unit /\ AsksWithMerge(exec[u].res) /\ AsksWithMerge(call[c].res)
        /\ exec \in [Unit -> [st : {"none", "running"} \cup StageStatus, in : Input, res : Result]]
        /\ call[c] \in Call
    BY TypeParts, CallsOfTasks DEF IInv, ResultsAsk, ExecOK
  <2>1. ASSUME NEW r, AsksWithMerge(r), call' = [call EXCEPT ![c].st = "done", ![c].res = r],
               UNCHANGED exec
        PROVE  ResultsAsk'
    <3>1. DOMAIN call' = DOMAIN call /\ \A d \in DOMAIN call : call'[d].res \in {r, call[d].res}
      BY <2>0, <2>1 DEF Call
    <3>2. QED
      BY <2>1, <3>1 DEF ResultsAsk
  <2>2. \A k : AsksWithMerge(Refused(k))
    BY DEF AsksWithMerge, Refused
  <2>3. ASSUME call' = [call EXCEPT ![c].st = "running"],
               UNCHANGED exec \/ exec' = [exec EXCEPT ![u].st = "running", ![u].in = call[c].in]
        PROVE  ResultsAsk'
    <3>1. DOMAIN call' = DOMAIN call /\ \A d \in DOMAIN call : call'[d].res = call[d].res
      BY <2>0, <2>3 DEF Call
    <3>2. \A v \in Unit : exec'[v].res = exec[v].res
      BY <2>0, <2>3
    <3>3. QED
      BY <3>1, <3>2 DEF ResultsAsk
  <2>4. QED
    BY <1>5, <2>0, <2>1, <2>2, <2>3 DEF Reserve
<1>6. ASSUME NEW c \in DOMAIN call, Complete(c)
      PROVE  ResultsAsk'
  <2> DEFINE u == c[2]
             results == IF u[1] \in Memory THEN MemoryResults(u, call[c].cancelled)
                        ELSE HybridResults(u, call[c].cancelled)
  <2>0. u \in Unit /\ call[c] \in Call
        /\ exec \in [Unit -> [st : {"none", "running"} \cup StageStatus, in : Input, res : Result]]
    BY TypeParts, CallsOfTasks DEF IInv, ExecOK
  <2>1. \A r \in results : AsksWithMerge(r)
    BY DEF MemoryResults, HybridResults, CriticAsks, Returned, AsksWithMerge
  <2>2. PICK r \in results :
             \/ /\ exec' = [exec EXCEPT ![u].st = r.status, ![u].res = r]
                /\ call' = [call EXCEPT ![c].st = "done", ![c].res = r]
             \/ /\ Break(c, {"lock"})
                /\ UNCHANGED exec
    BY <1>6 DEF Complete
  <2>3. AsksWithMerge(r)
    BY <2>1
  <2> HIDE DEF results
  <2>4. CASE /\ exec' = [exec EXCEPT ![u].st = r.status, ![u].res = r]
             /\ call' = [call EXCEPT ![c].st = "done", ![c].res = r]
    <3>1. DOMAIN call' = DOMAIN call /\ \A d \in DOMAIN call : call'[d].res \in {r, call[d].res}
      BY <2>0, <2>4 DEF Call
    <3>2. \A v \in Unit : exec'[v].res \in {r, exec[v].res}
      BY <2>0, <2>4
    <3>3. QED
      BY <2>3, <3>1, <3>2 DEF ResultsAsk
  <2>5. QED
    BY <2>2, <2>4, BreakAsks
<1>7. ASSUME NEW c \in DOMAIN call, CallStep(c) \/ Raise(c)
      PROVE  ResultsAsk'
  BY <1>2, <1>5, <1>6, <1>7, BreakAsks DEF CallStep, ForgetOrphan, Raise, durable
<1>8. CASE ExecStep \/ Execute
  BY <1>1, <1>4, <1>8, DriversAreTasks DEF ExecStep, Settle, Takeover, Fail, Block, Note, Execute,
     quiet, engines
<1>9. ASSUME NEW r \in Resumer, ResumeStep(r) \/ Resume(r)
      PROVE  ResultsAsk'
  <2>1. Drive(r) \/ UNCHANGED <<exec, call>>
    BY <1>9 DEF ResumeStep, Resume, Block, Note, Report, ResumeControl, ResolveInterrupt,
       ReplayInterrupt, PauseAgain, StoreDecision, TakeDecision, Back, AckResume, Expire,
       ExpireInterrupt, quiet, engines
  <2>2. QED
    BY <1>1, <1>4, <2>1, KindsOfTasks
<1>10. ASSUME NEW c \in Canceller, CancelStep(c) \/ Cancel(c)
       PROVE  ResultsAsk'
  <2>1. UNCHANGED <<exec, call>>
    BY <1>10 DEF CancelStep, Cancel, CancelControl, AckTerminal, Flag, Stop, SaveCanceled,
       AckCancel, Note, Report, quiet, engines
  <2>2. QED
    BY <1>1, <2>1
<1>11. ASSUME NEW t \in Driver, GraphFails(t)
       PROVE  ResultsAsk'
  BY <1>2, <1>11 DEF GraphFails, durable
<1>12. ASSUME NEW T, Dies(T)
       PROVE  ResultsAsk'
  BY <1>2, <1>12 DEF Dies, durable
<1>13. CASE Lapse \/ UNCHANGED vars
  BY <1>1, <1>13 DEF Lapse, durable, vars
<1>14. QED
  BY <1>7, <1>8, <1>9, <1>10, <1>11, <1>12, <1>13 DEF Next, Program, World, Crash

(* What one step of task t must do for the review to be the only one.       *)
InTurn(t) ==
  /\ \A u \in Task \ {t} : pc'[u] = pc[u] /\ mem'[u] = mem[u] /\ node'[u] = node[u]
  /\ Undecided(run')
  /\ ReviewsOnce(t)'

(* A request that holds no copy has nothing to review.                      *)
LEMMA NewRowsUndecided ==
  ASSUME FirstEngine = "manual"
  PROVE  Undecided(NewRow) /\ Undecided(NoCopy)
  BY DEF Undecided, NoCopy, NewRow

LEMMA SameUndecided ==
  ASSUME NEW m, NEW n, Undecided(m), n.engine = m.engine, n.decisions = m.decisions,
         HasMerge(m) => HasMerge(n), n.status = "waiting_approval" => m.status = n.status
  PROVE  Undecided(n)
  BY DEF Undecided

LEMMA BumpUndecided ==
  ASSUME NEW m \in Row
  PROVE  /\ Undecided(Bump(m)) = Undecided(m) /\ HasMerge(Bump(m)) = HasMerge(m)
         /\ Bump(m).decisions = m.decisions
<1>1. /\ Bump(m).engine = m.engine /\ Bump(m).status = m.status
      /\ Bump(m).decisions = m.decisions /\ Bump(m).refs = m.refs
  BY DEF Bump, Row
<1>2. QED
  BY <1>1 DEF Undecided, HasMerge

(* A task that goes where no review is asked for.                           *)
PlainPc == Pc \ {"await", "pause", "pause_save", "r_graph", "r_again", "r_art"}

LEMMA MoveInTurn ==
  ASSUME IInv, OneReviewInv, NEW t \in Task, NEW p \in PlainPc, Goto(t, p), UNCHANGED node,
         Undecided(run'),
         UNCHANGED mem \/ \E m : mem' = [mem EXCEPT ![t] = m] /\ Undecided(m)
  PROVE  InTurn(t)
<1>1. pc \in [Task -> Pc] /\ mem \in [Task -> Row]
  BY DEF IInv, TypeOK
<1>2. pc'[t] = p /\ Undecided(mem'[t])
  BY <1>1 DEF Goto, OneReviewInv, ReviewsOnce
<1>3. ReviewsOnce(t)'
  BY <1>2 DEF ReviewsOnce, AsksReview, PlainPc
<1>4. QED
  BY <1>1, <1>3 DEF Goto, InTurn

(* A task that saves a row, and goes to the review only with a merge that   *)
(* nobody has decided on.                                                  *)
LEMMA SaveInTurn ==
  ASSUME IInv, CopiesAreTheRow, OneReviewInv, NEW t \in Task, NEW new \in Row,
         NEW next \in PlainPc \cup {"pause"}, Save(t, new, next), Undecided(new),
         next = "pause" => new.decisions = {} /\ HasMerge(new), UNCHANGED node
  PROVE  InTurn(t)
<1>1. CASE /\ pc'[t] = "raised" /\ UNCHANGED <<run, mem>>
           /\ \A u \in Task \ {t} : pc'[u] = pc[u] /\ mem'[u] = mem[u]
  <2>1. ReviewsOnce(t)'
    BY <1>1 DEF OneReviewInv, ReviewsOnce, AsksReview
  <2>2. QED
    BY <1>1, <2>1 DEF InTurn, OneReviewInv
<1>2. CASE /\ pc'[t] = next /\ mem'[t] = run' /\ run' = Bump(new)
           /\ \A u \in Task \ {t} : pc'[u] = pc[u] /\ mem'[u] = mem[u]
  <2>1. /\ Undecided(run') /\ HasMerge(run') = HasMerge(new)
        /\ run'.decisions = new.decisions
    BY <1>2, BumpUndecided
  <2>2. ReviewsOnce(t)'
    BY <1>2, <2>1 DEF ReviewsOnce, AsksReview, PlainPc
  <2>3. QED
    BY <1>2, <2>1, <2>2 DEF InTurn
<1>3. QED
  BY <1>1, <1>2, SaveOrRaise

(* The units a merge joins are the merge of this round, and no decision is  *)
(* on record when it was launched.                                         *)
LEMMA MergeLaunched ==
  ASSUME NEW m, Undecided(m), UnitsAt("merge", m) # {}
  PROVE  m.decisions = {} /\ UnitsAt("merge", m) = {<<"merge", m.round>>}
  BY DEF Undecided, UnitsAt

(* References are only replaced by newer ones of the same kind.             *)
LEMMA JoinedMerges ==
  ASSUME NEW m \in Row, NEW us \in SUBSET Unit, NEW res \in [us -> Result]
  PROVE  /\ HasMerge(m) => HasMerge(Joined(m, us, res))
         /\ \A u \in us : u[1] = "merge" /\ res[u].out => HasMerge(Joined(m, us, res))
         /\ Joined(m, us, res).engine = m.engine
         /\ Joined(m, us, res).decisions = m.decisions
<1> DEFINE out == {u \in us : res[u].out}
           n == Joined(m, us, res)
           new == {RefOf(u) : u \in out}
<1>1. /\ n.refs = WithRefs(m.refs, out) /\ n.engine = m.engine
      /\ n.decisions = m.decisions
  BY DEF Joined, Row
<1>2. n.refs = {v \in m.refs : ~(v[1] = "merge" /\ \E u \in new : u[1] = "merge")} \cup new
  BY <1>1 DEF WithRefs
<1>3. HasMerge(m) => HasMerge(n)
  <2> HIDE DEF new, n
  <2>1. QED
    BY <1>2 DEF HasMerge
<1>4. ASSUME NEW u \in us, u[1] = "merge", res[u].out
      PROVE  HasMerge(n)
  <2>1. RefOf(u) = u /\ u \in out
    BY <1>4 DEF RefOf, Memory
  <2>2. u \in new
    BY <2>1
  <2> HIDE DEF new, n
  <2>3. QED
    BY <1>2, <1>4, <2>2 DEF HasMerge
<1>5. QED
  BY <1>1, <1>3, <1>4

LEMMA LaunchInTurn ==
  ASSUME IInv, CopiesAreTheRow, OneReviewInv, NEW t \in Driver, Launch(t)
  PROVE  InTurn(t)
<1> DEFINE m == mem[t]
           us == UnitsAt(pc[t], m)
           n == [m EXCEPT !.pending = @ \cup us]
<1>0. /\ t \in Task /\ m \in Row /\ Undecided(m) /\ Undecided(run) /\ m.engine = "manual"
      /\ pc \in [Task -> Pc] /\ mem \in [Task -> Row] /\ node \in [Task -> StageNode]
      /\ pc[t] \in StageNode
  BY KindsOfTasks DEF Launch, IInv, TypeOK, OneReviewInv, ReviewsOnce, Undecided
<1>1. us \in SUBSET Unit /\ us # {}
  BY <1>0, UnitsAreUnits DEF Launch
<1>2. pc'[t] = "await" => node' = [node EXCEPT ![t] = pc[t]]
  BY DEF Launch
<1>3. pc'[t] # "await" => UNCHANGED node
  BY DEF Launch
<1>4. CASE Goto(t, "await") /\ UNCHANGED <<run, mem>>
  <2>1. pc'[t] = "await" /\ node'[t] = pc[t]
    BY <1>0, <1>2, <1>4 DEF Goto
  <2>2. pc[t] = "merge" => m.decisions = {}
    BY <1>0, <1>1, MergeLaunched
  <2>3. ReviewsOnce(t)'
    BY <1>0, <1>4, <2>1, <2>2 DEF ReviewsOnce, AsksReview
  <2>4. QED
    BY <1>0, <1>2, <1>4, <2>1, <2>3 DEF InTurn, Goto
<1>5. CASE Save(t, n, "await") /\ pc[t] \in Grouped(m.engine)
  <2>1. n \in Row /\ Undecided(n) /\ pc[t] # "merge"
    <3>1. n \in Row /\ n.engine = m.engine /\ n.decisions = m.decisions /\ n.refs = m.refs
          /\ n.status = m.status
      BY <1>0, <1>1 DEF Row
    <3>2. QED
      BY <1>0, <1>5, <3>1 DEF Undecided, HasMerge, Grouped
  <2> HIDE DEF n
  <2>2. CASE /\ pc'[t] = "raised" /\ UNCHANGED <<run, mem>>
             /\ \A u \in Task \ {t} : pc'[u] = pc[u] /\ mem'[u] = mem[u]
    <3>1. ReviewsOnce(t)'
      BY <1>0, <2>2 DEF ReviewsOnce, AsksReview
    <3>2. QED
      BY <1>0, <1>3, <2>2, <3>1 DEF InTurn
  <2>3. CASE /\ pc'[t] = "await" /\ mem'[t] = run' /\ run' = Bump(n)
             /\ \A u \in Task \ {t} : pc'[u] = pc[u] /\ mem'[u] = mem[u]
    <3>1. Undecided(run') /\ node'[t] # "merge"
      BY <1>0, <1>2, <2>1, <2>3, BumpUndecided
    <3>2. ReviewsOnce(t)'
      BY <2>3, <3>1 DEF ReviewsOnce, AsksReview
    <3>3. QED
      BY <1>0, <1>2, <2>3, <3>1, <3>2 DEF InTurn
  <2>4. QED
    BY <1>0, <1>5, <2>1, <2>2, <2>3, SaveOrRaise
<1>6. QED
  BY <1>4, <1>5 DEF Launch

LEMMA JoinInTurn ==
  ASSUME IInv, CopiesAreTheRow, VerdictInv, OneReviewInv, NEW t \in Driver, Join(t)
  PROVE  InTurn(t)
<1> DEFINE m == mem[t]
           p == node[t]
           us == {c[2] : c \in {d \in Awaited(t) :
                   m.engine = "langgraph" /\ p \in {"fanout", "evidence"} =>
                     ~DoneUnit(m, d[2])}}
           res == [u \in us |-> call[<<t, u, TRUE>>].res]
           new == Joined(m, us, res)
           asked == IF p = "merge" THEN res[<<"merge", m.round>>].next
                    ELSE "accept"
<1>0. /\ t \in Task /\ m \in Row /\ Undecided(m) /\ p \in StageNode /\ InOrder(t)
      /\ CallsOK /\ pc[t] = "await" /\ m.engine = "manual" /\ ResultsAsk
      /\ p = "merge" => m.decisions = {}
  BY DriverParts, TypeParts DEF IInv, Join, OneReviewInv, ReviewsOnce, Undecided
<1>1. us \in SUBSET Unit /\ res \in [us -> Result] /\ \A u \in us : AsksWithMerge(res[u])
  <2>1. \A c \in Awaited(t) : /\ c[2] \in Unit /\ <<t, c[2], TRUE>> \in DOMAIN call
                              /\ call[<<t, c[2], TRUE>>].res \in Result
                              /\ AsksWithMerge(call[<<t, c[2], TRUE>>].res)
    BY <1>0, CallsOfTasks DEF Awaited, Call, ResultsAsk
  <2>2. QED
    BY <2>1
<1>2. us = UnitsAt(p, m)
  <2>1. {c[2] : c \in Awaited(t)} = UnitsAt(p, m)
    BY <1>0 DEF InOrder
  <2>2. QED
    BY <1>0, <2>1
<1>3. Save(t, new, Route(p, new, asked)) /\ UNCHANGED node
  BY DEF Join
<1>4. /\ new \in Row /\ new.status \in {m.status, "blocked", "failed", "canceled"}
  <2> HIDE DEF us, res, m
  <2>1. QED
    BY <1>0, <1>1, JoinedStatus, JoinedIsRow
<1>5. /\ HasMerge(m) => HasMerge(new)
      /\ \A u \in us : u[1] = "merge" /\ res[u].out => HasMerge(new)
      /\ new.engine = m.engine /\ new.decisions = m.decisions
  <2> HIDE DEF us, res, m
  <2>1. QED
    BY <1>0, <1>1, JoinedMerges
<1>6. Undecided(new)
  <2> HIDE DEF us, res, new
  <2>1. QED
    BY <1>0, <1>4, <1>5, SameUndecided
<1>7. Route(p, new, asked) = "pause" => new.decisions = {} /\ HasMerge(new)
  <2>1. ASSUME Route(p, new, asked) = "pause"
        PROVE  p = "merge" /\ asked = "needs_review"
    <3> HIDE DEF us, res, new, asked, p
    <3>1. QED
      BY <1>0, <2>1 DEF Route, Following, StageNode
  <2>2. ASSUME p = "merge", asked = "needs_review"
        PROVE  new.decisions = {} /\ HasMerge(new)
    <3> DEFINE u == <<"merge", m.round>>
    <3>1. u \in us
      BY <1>0, <1>2, <2>2 DEF UnitsAt
    <3>2. res[u].out
      BY <1>1, <2>2, <3>1 DEF AsksWithMerge
    <3> HIDE DEF us, res, new
    <3>3. QED
      BY <1>0, <1>5, <2>2, <3>1, <3>2
  <2>3. QED
    BY <2>1, <2>2
<1>8. Route(p, new, asked) \in PlainPc \cup {"pause"}
  <2> HIDE DEF us, res, new, asked, p
  <2>1. QED
    BY <1>0 DEF Route, Following, StageNode, PlainPc, Pc, EnginePc
<1> HIDE DEF us, res, new, asked, m, p
<1>9. QED
  BY <1>0, <1>3, <1>4, <1>6, <1>7, <1>8, SaveInTurn

(* The engines ask for a review only after a merge nobody has decided on.   *)
LEMMA DriveInTurn ==
  ASSUME IInv, CopiesAreTheRow, VerdictInv, OneReviewInv, NEW t \in Driver, Drive(t)
  PROVE  InTurn(t)
<1> DEFINE m == mem[t]
<1>0. /\ t \in Task /\ m \in Row /\ Undecided(m) /\ Undecided(run) /\ m.engine = "manual"
      /\ pc \in [Task -> Pc] /\ mem \in [Task -> Row] /\ ReviewsOnce(t)
  BY KindsOfTasks DEF IInv, TypeOK, OneReviewInv, ReviewsOnce, Undecided
<1>1. ASSUME NEW s \in Status \ {"waiting_approval"}, NEW p \in PlainPc, NEW b \in BOOLEAN,
             Save(t, [m EXCEPT !.status = s, !.result = b], p), UNCHANGED node
      PROVE  InTurn(t)
  <2> DEFINE n == [m EXCEPT !.status = s, !.result = b]
  <2>1. /\ n \in Row /\ n.status = s /\ n.engine = m.engine /\ n.decisions = m.decisions
        /\ n.refs = m.refs /\ Save(t, n, p)
    BY <1>0, <1>1 DEF Row
  <2>2. Undecided(n)
    BY <1>0, <1>1, <2>1, SameUndecided DEF HasMerge
  <2> HIDE DEF n
  <2>3. QED
    BY <1>0, <1>1, <2>1, <2>2, SaveInTurn DEF PlainPc
<1>2. CASE Enter(t)
  <2>1. ASSUME NEW s \in {"canceled", "running"}, NEW p \in {"announce", "survey"},
               Save(t, [m EXCEPT !.status = s], p)
        PROVE  InTurn(t)
    <3>1. [m EXCEPT !.status = s] = [m EXCEPT !.status = s, !.result = m.result]
      BY <1>0 DEF Row
    <3>2. m.result \in BOOLEAN /\ s \in Status \ {"waiting_approval"}
          /\ p \in PlainPc
      BY <1>0, <2>1 DEF Row, Status, Terminal, PlainPc, Pc, EnginePc, StageNode
    <3>3. UNCHANGED node
      BY <1>2 DEF Enter
    <3>4. QED
      BY <1>1, <2>1, <3>1, <3>2, <3>3
  <2>2. CASE Goto(t, "return") /\ UNCHANGED <<run, mem>>
    BY <1>0, <1>2, <2>2, MoveInTurn DEF Enter, PlainPc, Pc
  <2>3. QED
    BY <1>0, <1>2, <2>1, <2>2 DEF Enter
<1>3. CASE Skip(t)
  <2>1. Following(pc[t], m.engine) \in PlainPc
    BY <1>3 DEF Skip, Following, PlainPc, Pc, EnginePc, StageNode
  <2>2. QED
    BY <1>0, <1>3, <2>1, MoveInTurn DEF Skip, durable
<1>4. CASE Deepen(t)
  <2> DEFINE n == [m EXCEPT !.round = @ + 1]
  <2>1. m.round + 1 \in 0 .. MaxRounds
    BY <1>0, <1>4, ConstantsAssumption DEF Deepen, IInv, DeepensInBounds, Row
  <2>2. /\ n \in Row /\ n.status = m.status /\ n.engine = m.engine
        /\ n.decisions = m.decisions /\ n.refs = m.refs
    BY <1>0, <2>1 DEF Row
  <2>3. Undecided(n)
    BY <1>0, <2>2, SameUndecided DEF HasMerge
  <2>4. Save(t, n, "evidence") /\ UNCHANGED node /\ "evidence" \in PlainPc
    BY <1>4 DEF Deepen, PlainPc, Pc, EnginePc, StageNode
  <2> HIDE DEF n
  <2>5. QED
    BY <1>0, <2>2, <2>3, <2>4, SaveInTurn DEF PlainPc
<1>5. CASE Pause(t)
  <2>1. pc' = [pc EXCEPT ![t] = "pause_save"] /\ UNCHANGED <<run, mem, node>> /\ pc[t] = "pause"
    BY <1>0, <1>5 DEF Pause, Goto
  <2>2. pc'[t] = "pause_save" /\ \A u \in Task \ {t} : pc'[u] = pc[u]
    BY <1>0, <2>1
  <2>3. ReviewsOnce(t)'
    BY <1>0, <2>1, <2>2 DEF ReviewsOnce, AsksReview
  <2>4. QED
    BY <1>0, <2>1, <2>2, <2>3 DEF InTurn
<1>6. CASE PauseSave(t)
  <2> DEFINE n == [m EXCEPT !.status = "waiting_approval", !.interrupt = TRUE]
  <2>1. /\ n \in Row /\ n.engine = m.engine /\ n.decisions = m.decisions /\ n.refs = m.refs
        /\ Save(t, n, "return") /\ UNCHANGED node
    BY <1>0, <1>6 DEF PauseSave, Row, Status
  <2>2. m.decisions = {} /\ HasMerge(m)
    BY <1>0, <1>6 DEF PauseSave, ReviewsOnce, AsksReview
  <2>3. Undecided(n)
    BY <1>0, <2>1, <2>2 DEF Undecided, HasMerge
  <2> HIDE DEF n
  <2>4. "return" \in PlainPc
    BY DEF PlainPc, Pc
  <2>5. QED
    BY <1>0, <2>1, <2>3, <2>4, SaveInTurn
<1>7. CASE Finalize(t)
  <2> DEFINE s == IF m.engine = "langgraph" /\ m.status # "running" THEN m.status
                  ELSE Verdict(m)
  <2>1. s \in Status \ {"waiting_approval"} /\ (m.result \/ HasMerge(m)) \in BOOLEAN
    <3>1. Verdict(m) \in Terminal
      BY VerdictIsTerminal DEF Verdict, HasMerge
    <3>2. QED
      BY <1>0, <3>1 DEF Row, Status, Terminal, HasMerge
  <2>2. Save(t, [m EXCEPT !.status = s, !.result = m.result \/ HasMerge(m)], "announce")
        /\ UNCHANGED node /\ "announce" \in PlainPc
    BY <1>7 DEF Finalize, PlainPc, Pc, EnginePc
  <2> HIDE DEF s
  <2>3. QED
    BY <1>1, <2>1, <2>2
<1>8. CASE Announce(t)
  <2>1. Save(t, m, "return") /\ UNCHANGED node /\ "return" \in PlainPc
    BY <1>8 DEF Announce, PlainPc, Pc
  <2>2. QED
    BY <1>0, <2>1, SaveInTurn DEF PlainPc
<1>9. QED
  BY <1>2, <1>3, <1>4, <1>5, <1>6, <1>7, <1>8, LaunchInTurn, JoinInTurn DEF Drive

(* The service's own rows are failures, a decision on the review there is,  *)
(* expiries and cancellations.                                             *)
LEMMA ServiceInTurn ==
  ASSUME IInv, CopiesAreTheRow, ReviewInv, OneReviewInv, FirstEngine = "manual", NEW t \in Task,
         \/ t = "exec" /\ (Settle \/ Takeover \/ Fail \/ Execute)
         \/ t \in Resumer /\ (ResumeStep(t) \/ Resume(t)) /\ ~Drive(t)
         \/ t \in Canceller /\ (CancelStep(t) \/ Cancel(t))
         \/ Block(t) \/ Note(t)
  PROVE  InTurn(t)
<1> DEFINE m == mem[t]
<1>0. /\ m \in Row /\ Undecided(m) /\ run \in Row /\ Undecided(run) /\ ReviewsOnce(t)
      /\ pc \in [Task -> Pc] /\ mem \in [Task -> Row]
      /\ m.engine = "manual" /\ run.engine = "manual" /\ Undecided(NoCopy)
  BY NewRowsUndecided DEF IInv, TypeOK, OneReviewInv, ReviewsOnce, Undecided
<1>1. ASSUME NEW p \in PlainPc, Goto(t, p), UNCHANGED node, Undecided(run'),
             \/ UNCHANGED mem \/ mem' = [mem EXCEPT ![t] = NoCopy]
             \/ mem' = [mem EXCEPT ![t] = run] \/ mem' = [mem EXCEPT ![t] = run']
      PROVE  InTurn(t)
  BY <1>0, <1>1, MoveInTurn
<1>2. ASSUME NEW n \in Row, NEW p \in PlainPc, Save(t, n, p), n.engine = "manual",
             n.decisions = m.decisions, n.refs = m.refs,
             n.status = "waiting_approval" => m.status = n.status, UNCHANGED node
      PROVE  InTurn(t)
  <2>1. Undecided(n)
    BY <1>0, <1>2, SameUndecided DEF HasMerge
  <2>2. QED
    BY <1>2, <2>1, SaveInTurn DEF PlainPc
<1>3. ASSUME NEW s \in Terminal, NEW p \in PlainPc, Save(t, [m EXCEPT !.status = s], p),
             UNCHANGED node
      PROVE  InTurn(t)
  <2> DEFINE n == [m EXCEPT !.status = s]
  <2>1. /\ n \in Row /\ n.engine = "manual" /\ n.decisions = m.decisions /\ n.refs = m.refs
        /\ n.status # "waiting_approval" /\ Save(t, n, p)
    BY <1>0, <1>3 DEF Row, Status, Terminal
  <2> HIDE DEF n
  <2>2. QED
    BY <1>2, <1>3, <2>1
<1>4. CASE t = "exec" /\ (Settle \/ Execute)
  <2>1. /\ \E p \in {"raised", "idle", "enter", "incompatible"} : Goto(t, p)
        /\ UNCHANGED <<run, node>>
        /\ UNCHANGED mem \/ mem' = [mem EXCEPT ![t] = NoCopy] \/ mem' = [mem EXCEPT ![t] = run]
    BY <1>4 DEF Settle, Execute, Answer, Load, quiet, engines
  <2>2. QED
    BY <1>0, <1>1, <2>1 DEF PlainPc, Pc, EnginePc
<1>5. CASE t = "exec" /\ Fail
  <2>1. CASE Answer(t) /\ UNCHANGED run
    <3>1. UNCHANGED <<run, node>> /\ Goto(t, "idle") /\ mem' = [mem EXCEPT ![t] = NoCopy]
      BY <1>5, <2>1 DEF Fail, Answer, quiet, engines
    <3>2. QED
      BY <1>0, <1>1, <3>1 DEF PlainPc, Pc
  <2>2. CASE ~(Answer(t) /\ UNCHANGED run)
    <3> DEFINE s == IF run.status = "waiting_approval" THEN "blocked" ELSE "failed"
               n == [run EXCEPT !.status = s]
    <3>1. run' = Bump(n) /\ Goto(t, "fail_note") /\ mem' = [mem EXCEPT ![t] = run']
          /\ UNCHANGED node
      BY <1>5, <2>2 DEF Fail, quiet, engines
    <3>2. /\ n \in Row /\ n.status # "waiting_approval" /\ n.engine = run.engine
          /\ n.decisions = run.decisions /\ n.refs = run.refs
      BY <1>0 DEF Row, Status, Terminal
    <3>3. Undecided(n)
      BY <1>0, <3>2, SameUndecided DEF HasMerge
    <3> HIDE DEF n
    <3>4. Undecided(run') /\ "fail_note" \in PlainPc
      BY <3>1, <3>2, <3>3, BumpUndecided DEF PlainPc, Pc
    <3>5. QED
      BY <1>1, <3>1, <3>4
  <2>3. QED
    BY <2>1, <2>2
<1>6. CASE Block(t)
  <2>1. CASE UNCHANGED run /\ Answer(t)
    BY <1>0, <1>1, <1>6, <2>1 DEF Block, Answer, quiet, engines, PlainPc, Pc
  <2>2. CASE Save(t, [m EXCEPT !.status = "blocked"], "fail_note")
    BY <1>3, <1>6, <2>2 DEF Block, quiet, engines, Terminal, PlainPc, Pc
  <2>3. QED
    BY <1>6, <2>1, <2>2 DEF Block
<1>7. CASE Note(t)
  <2>1. Undecided(Bump(m))
    BY <1>0, BumpUndecided
  <2>2. /\ Undecided(run') /\ Goto(t, "idle") /\ mem' = [mem EXCEPT ![t] = NoCopy]
        /\ UNCHANGED node
    BY <1>0, <1>7, <2>1 DEF Note, Answer, quiet, engines
  <2>3. QED
    BY <1>1, <2>2 DEF PlainPc, Pc
<1>8. CASE t \in Resumer /\ (ResumeStep(t) \/ Resume(t)) /\ ~Drive(t) /\ ~Block(t) /\ ~Note(t)
  <2>1. CASE \/ ResumeControl(t) \/ ResolveInterrupt(t)
             \/ Report(t) \/ AckResume(t) \/ Back(t) \/ ExpireInterrupt(t)
    <3>1. /\ \E p \in {"idle", "r_int", "r_save", "r_ack", "e_note"} : Goto(t, p)
          /\ UNCHANGED <<run, node>>
          /\ UNCHANGED mem \/ mem' = [mem EXCEPT ![t] = NoCopy]
      BY <1>0, <2>1 DEF ResumeControl, ResolveInterrupt, Report, AckResume, Back,
         ExpireInterrupt, Answer, quiet, engines
    <3>2. QED
      BY <1>0, <1>1, <3>1 DEF PlainPc, Pc
  <2>2. ~ReplayInterrupt(t) /\ ~PauseAgain(t) /\ ~StoreDecision(t)
    BY <1>0 DEF ReviewsOnce, ReplayInterrupt, PauseAgain, StoreDecision
  <2>3. CASE Expire(t)
    BY <1>3, <2>3 DEF Expire, quiet, engines, Terminal, PlainPc, Pc
  <2>4. CASE TakeDecision(t)
    <3> DEFINE n == [m EXCEPT !.status = "running", !.interrupt = FALSE,
                              !.decisions = @ \cup {t}]
    <3>1. m.decisions \cup {t} \in SUBSET Resumer
      BY <1>0, <1>8 DEF Row
    <3>2. /\ n \in Row /\ n.engine = "manual" /\ n.status = "running" /\ n.refs = m.refs
      BY <1>0, <3>1 DEF Row, Status
    <3>3. Save(t, n, "enter") /\ UNCHANGED node
      BY <1>0, <2>4 DEF TakeDecision, quiet, engines
    <3>4. m.status = "waiting_approval" \/ m.status \in Terminal
      BY <2>4 DEF TakeDecision, ReviewInv, AtReview
    <3>5. CASE m.status = "waiting_approval"
      <4>1. Undecided(n)
        BY <1>0, <3>2, <3>5 DEF Undecided, HasMerge
      <4> HIDE DEF n
      <4>2. "enter" \in PlainPc
        BY DEF PlainPc, Pc, EnginePc
      <4>3. QED
        BY <3>2, <3>3, <4>1, <4>2, SaveInTurn
    <3>6. CASE m.status \in Terminal
      <4>1. ~CanMove(m.status, n.status)
        BY <3>2, <3>6 DEF CanMove, Allowed, Terminal, Status
      <4>2. Goto(t, "raised") /\ UNCHANGED <<run, mem>>
        BY <3>3, <4>1 DEF Save
      <4>3. QED
        BY <1>0, <1>1, <3>3, <4>2 DEF PlainPc, Pc
    <3>7. QED
      BY <3>4, <3>5, <3>6
  <2>5. CASE Resume(t)
    <3>1. CASE UNCHANGED <<mem, pc>>
      <4>1. UNCHANGED <<run, node>>
        BY <2>5 DEF Resume, engines
      <4>2. QED
        BY <1>0, <3>1, <4>1 DEF InTurn, ReviewsOnce, AsksReview
    <3>2. CASE Load(t) /\ \E p \in {"incompatible", "e_save", "r_ctl"} : Goto(t, p)
      <4>1. UNCHANGED <<run, node>>
        BY <2>5 DEF Resume, engines
      <4>2. QED
        BY <1>0, <1>1, <3>2, <4>1 DEF Load, PlainPc, Pc
    <3>3. QED
      BY <2>5, <3>1, <3>2 DEF Resume
  <2>6. QED
    BY <1>8, <2>1, <2>2, <2>3, <2>4, <2>5 DEF ResumeStep
<1>9. CASE t \in Canceller /\ (CancelStep(t) \/ Cancel(t)) /\ ~Note(t)
  <2>1. CASE Report(t) \/ AckTerminal(t) \/ AckCancel(t) \/ Cancel(t) \/ Stop(t) \/ CancelControl(t)
    <3>1. /\ \E p \in {"idle", "c_note", "c_ctl", "c_ack", "c_save", "c_flag", "c_ack_terminal"} :
               Goto(t, p)
          /\ UNCHANGED <<run, node>>
          /\ UNCHANGED mem \/ mem' = [mem EXCEPT ![t] = NoCopy] \/ mem' = [mem EXCEPT ![t] = run]
      BY <2>1 DEF Report, AckTerminal, AckCancel, Cancel, Stop, CancelControl, Answer, Load,
         quiet, engines
    <3>2. QED
      BY <1>0, <1>1, <3>1 DEF PlainPc, Pc
  <2>2. CASE Flag(t)
    <3> DEFINE n == [m EXCEPT !.cancelReq = TRUE]
    <3>1. /\ n \in Row /\ n.engine = "manual" /\ n.status = m.status /\ n.refs = m.refs
          /\ n.decisions = m.decisions /\ Save(t, n, "c_stop") /\ UNCHANGED node
      BY <1>0, <2>2 DEF Flag, Row, quiet, engines
    <3> HIDE DEF n
    <3>2. QED
      BY <1>2, <3>1 DEF PlainPc, Pc
  <2>3. CASE SaveCanceled(t)
    <3>1. CASE UNCHANGED run /\ mem' = [mem EXCEPT ![t] = run] /\ Goto(t, "c_ack")
      BY <1>0, <1>1, <2>3, <3>1 DEF SaveCanceled, quiet, engines, PlainPc, Pc
    <3>2. CASE Save(t, [m EXCEPT !.status = "canceled"], "c_ack")
      BY <1>3, <2>3, <3>2 DEF SaveCanceled, quiet, engines, Terminal, PlainPc, Pc
    <3>3. QED
      BY <2>3, <3>1, <3>2 DEF SaveCanceled, Load
  <2>4. QED
    BY <1>9, <2>1, <2>2, <2>3 DEF CancelStep
<1>10. ~Takeover
  BY <1>0 DEF Takeover, MayFallBack
<1>11. QED
  BY <1>4, <1>5, <1>6, <1>7, <1>8, <1>9, <1>10

(* A stage that fails, or goes on, leaves every review where it is.         *)
LEMMA AsideInTurn ==
  ASSUME IInv, OneReviewInv, NEW t \in Task, UNCHANGED <<run, mem, node>>,
         Goto(t, "raised") \/ UNCHANGED pc
  PROVE  InTurn(t)
<1>1. CASE Goto(t, "raised")
  BY <1>1, MoveInTurn DEF OneReviewInv, PlainPc, Pc
<1>2. CASE UNCHANGED pc
  BY <1>2 DEF InTurn, OneReviewInv, ReviewsOnce, AsksReview
<1>3. QED
  BY <1>1, <1>2

(* Every step keeps the review the only one.                                *)
LEMMA OneReviewStep ==
  ASSUME FirstEngine = "manual", IInv, CopiesAreTheRow, VerdictInv, ReviewInv, OneReviewInv,
         [Next]_vars
  PROVE  OneReviewInv'
<1>0. "exec" \in Task /\ "exec" \in Driver /\ ResultsAsk'
  BY ResultsStep DEF Task, Driver, OneReviewInv
<1>1. ASSUME NEW t \in Task, InTurn(t)
      PROVE  OneReviewInv'
  <2>1. \A u \in Task \ {t} : ReviewsOnce(u)'
    BY <1>1 DEF InTurn, OneReviewInv, ReviewsOnce, AsksReview
  <2>2. QED
    BY <1>0, <1>1, <2>1 DEF InTurn, OneReviewInv
<1>2. CASE ExecStep \/ Execute
  <2>1. InTurn("exec")
    BY <1>0, <1>2, DriveInTurn, ServiceInTurn DEF ExecStep
  <2>2. QED
    BY <1>0, <1>1, <2>1
<1>3. ASSUME NEW r \in Resumer, ResumeStep(r) \/ Resume(r)
      PROVE  OneReviewInv'
  <2>1. r \in Task /\ r \in Driver
    BY KindsOfTasks
  <2>2. InTurn(r)
    BY <1>3, <2>1, DriveInTurn, ServiceInTurn
  <2>3. QED
    BY <1>1, <2>1, <2>2
<1>4. ASSUME NEW c \in Canceller, CancelStep(c) \/ Cancel(c)
      PROVE  OneReviewInv'
  <2>1. c \in Task /\ InTurn(c)
    BY <1>4, KindsOfTasks, ServiceInTurn
  <2>2. QED
    BY <1>1, <2>1
<1>5. ASSUME NEW t \in Driver, GraphFails(t)
      PROVE  OneReviewInv'
  <2>1. t \in Task /\ InTurn(t)
    BY <1>5, KindsOfTasks, AsideInTurn DEF GraphFails, durable
  <2>2. QED
    BY <1>1, <2>1
<1>6. ASSUME NEW c \in DOMAIN call, CallStep(c) \/ Raise(c)
      PROVE  OneReviewInv'
  <2>1. c[1] \in Task
    BY TypeParts, CallsOfTasks DEF IInv
  <2>2. UNCHANGED <<run, mem, node>> /\ (Goto(c[1], "raised") \/ UNCHANGED pc)
    BY <1>6 DEF CallStep, Reserve, Complete, ForgetOrphan, Raise, Break, durable
  <2>3. QED
    BY <1>1, <2>1, <2>2, AsideInTurn
<1>7. ASSUME NEW T, Dies(T)
      PROVE  OneReviewInv'
  <2>1. /\ UNCHANGED <<run, node>>
        /\ \A u \in Task : \/ pc'[u] = "idle" /\ mem'[u] = NoCopy
                           \/ pc'[u] = pc[u] /\ mem'[u] = mem[u]
    BY <1>7 DEF Dies, durable
  <2>2. QED
    BY <1>0, <2>1, NewRowsUndecided DEF OneReviewInv, ReviewsOnce, AsksReview
<1>8. CASE Lapse \/ UNCHANGED vars
  <2>1. UNCHANGED <<run, pc, mem, node>>
    BY <1>8 DEF Lapse, durable, vars
  <2>2. QED
    BY <1>0, <2>1 DEF OneReviewInv, ReviewsOnce, AsksReview
<1>9. QED
  BY <1>2, <1>3, <1>4, <1>5, <1>6, <1>7, <1>8 DEF Next, Program, World, Crash

-----------------------------------------------------------------------------
(* Who drives the run.                                                     *)

(* A save keeps the engine of the row it replaces.                          *)
LEMMA SaveKeepsEngine ==
  ASSUME IInv, CopiesAreTheRow, NEW t \in Task, NEW new, NEW next, Save(t, new, next),
         Bump(new).engine = mem[t].engine
  PROVE  run'.engine = run.engine
  BY DEF Save, Fresh, CopiesAreTheRow

(* Only a takeover changes the engine.                                      *)
LEMMA EngineKept ==
  ASSUME IInv, CopiesAreTheRow, [Next]_vars
  PROVE  run'.engine = run.engine \/ Takeover
<1>0. /\ run \in Row /\ mem \in [Task -> Row] /\ "exec" \in Driver /\ "exec" \in Task
  BY DriversAreTasks DEF IInv, TypeOK, Task
<1>1. ASSUME NEW t \in Driver, Drive(t)
      PROVE  run'.engine = run.engine
  <2> DEFINE m == mem[t]
  <2>0. t \in Task /\ m \in Row
    BY <1>0, KindsOfTasks
  <2>1. CASE UNCHANGED run
    BY <2>1
  <2>2. CASE Enter(t) \/ Launch(t) \/ Deepen(t) \/ PauseSave(t) \/ Finalize(t) \/ Announce(t)
    <3>1. ASSUME NEW new, NEW next, Save(t, new, next),
                 \/ \E s : new = [m EXCEPT !.status = s]
                 \/ \E us : new = [m EXCEPT !.pending = us]
                 \/ \E k : new = [m EXCEPT !.round = k]
                 \/ \E s, b : new = [m EXCEPT !.status = s, !.interrupt = b]
                 \/ \E s, b : new = [m EXCEPT !.status = s, !.result = b]
                 \/ new = m
          PROVE  run'.engine = run.engine
      <4>1. Bump(new).engine = m.engine
        BY <2>0, <3>1 DEF Bump, Row
      <4>2. QED
        BY <2>0, <3>1, <4>1, SaveKeepsEngine
    <3>2. CASE Enter(t)
      BY <3>1, <3>2, <2>1 DEF Enter
    <3>3. CASE Launch(t)
      BY <3>1, <3>3, <2>1 DEF Launch
    <3>4. CASE Deepen(t)
      BY <3>1, <3>4 DEF Deepen
    <3>5. CASE PauseSave(t)
      BY <3>1, <3>5 DEF PauseSave
    <3>6. CASE Finalize(t)
      BY <3>1, <3>6 DEF Finalize
    <3>7. CASE Announce(t)
      BY <3>1, <3>7 DEF Announce
    <3>8. QED
      BY <2>2, <3>2, <3>3, <3>4, <3>5, <3>6, <3>7
  <2>3. CASE Join(t)
    <3>1. PICK us, res, next : Save(t, Joined(m, us, res), next)
      BY <2>3 DEF Join
    <3>2. Bump(Joined(m, us, res)).engine = m.engine
      BY <2>0 DEF Joined, Bump, Row
    <3>3. QED
      BY <2>0, <3>1, <3>2, SaveKeepsEngine
  <2>4. QED
    BY <1>1, <2>1, <2>2, <2>3 DEF Drive, Skip, Pause, durable
<1>2. ASSUME NEW t \in Task, Block(t) \/ Note(t)
      PROVE  run'.engine = run.engine
  <2>1. Bump([mem[t] EXCEPT !.status = "blocked"]).engine = mem[t].engine
        /\ Bump(mem[t]).engine = mem[t].engine /\ (Fresh(t) => mem[t] = run)
    BY <1>0, <1>2 DEF Bump, Row, Fresh, CopiesAreTheRow
  <2>2. QED
    BY <1>2, <2>1, SaveKeepsEngine DEF Block, Note
<1>3. CASE ExecStep \/ Execute
  <2>1. CASE Fail
    <3>1. \A s : Bump([run EXCEPT !.status = s]).engine = run.engine
      BY <1>0 DEF Bump, Row
    <3>2. QED
      BY <2>1, <3>1 DEF Fail
  <2>2. QED
    BY <1>0, <1>1, <1>2, <1>3, <2>1 DEF ExecStep, Settle, Execute
<1>4. ASSUME NEW r \in Resumer, ResumeStep(r) \/ Resume(r)
      PROVE  run'.engine = run.engine
  <2> DEFINE m == mem[r]
  <2>0. r \in Task /\ r \in Driver /\ m \in Row
    BY <1>0, KindsOfTasks
  <2>1. ASSUME NEW new, NEW next, Save(r, new, next),
               \/ \E s : new = [m EXCEPT !.status = s]
               \/ \E s, b : new = [m EXCEPT !.status = s, !.interrupt = b]
               \/ \E s, b, ds : new = [m EXCEPT !.status = s, !.interrupt = b, !.decisions = ds]
        PROVE  run'.engine = run.engine
    <3>1. Bump(new).engine = m.engine
      BY <2>0, <2>1 DEF Bump, Row
    <3>2. QED
      BY <2>0, <2>1, <3>1, SaveKeepsEngine
  <2>2. CASE PauseAgain(r)
    BY <2>1, <2>2 DEF PauseAgain
  <2>3. CASE TakeDecision(r)
    BY <2>1, <2>3 DEF TakeDecision
  <2>4. CASE Expire(r)
    BY <2>1, <2>4 DEF Expire
  <2>5. QED
    BY <1>1, <1>2, <1>4, <2>0, <2>2, <2>3, <2>4 DEF ResumeStep, Resume, Report, ResumeControl,
       ResolveInterrupt, ReplayInterrupt, StoreDecision, Back, AckResume, ExpireInterrupt
<1>5. ASSUME NEW c \in Canceller, CancelStep(c) \/ Cancel(c)
      PROVE  run'.engine = run.engine
  <2>0. c \in Task /\ mem[c] \in Row
    BY <1>0, KindsOfTasks
  <2>1. /\ Bump([mem[c] EXCEPT !.status = "canceled"]).engine = mem[c].engine
        /\ Bump([mem[c] EXCEPT !.cancelReq = TRUE]).engine = mem[c].engine
    BY <2>0 DEF Bump, Row
  <2>2. QED
    BY <1>2, <1>5, <2>0, <2>1, SaveKeepsEngine DEF CancelStep, Cancel, CancelControl, AckTerminal,
       Flag, Stop, SaveCanceled, AckCancel, Report
<1>6. ASSUME NEW c \in DOMAIN call, CallStep(c) \/ Raise(c)
      PROVE  run'.engine = run.engine
  BY <1>6 DEF CallStep, Reserve, Complete, ForgetOrphan, Raise, durable
<1>7. CASE Crash \/ Lapse \/ UNCHANGED vars \/ \E t \in Driver : GraphFails(t)
  BY <1>7 DEF Crash, Dies, Lapse, GraphFails, durable, vars
<1>8. QED
  BY <1>3, <1>4, <1>5, <1>6, <1>7 DEF Next, Program, World

(* Without a takeover the graph keeps the run.                              *)
LEMMA GraphKeepsStep ==
  ASSUME IInv, CopiesAreTheRow, GraphKeeps, [Next]_vars
  PROVE  GraphKeeps'
<1>1. Shape /\ (run'.engine = run.engine \/ Takeover)
  BY StepIsOnward, EngineKept
<1>2. ~AutoFallback => ~Takeover
  BY DEF Takeover, MayFallBack
<1>3. NoCopy.engine = FirstEngine
  BY DEF NoCopy, NewRow
<1>4. QED
  BY <1>1, <1>2, <1>3 DEF GraphKeeps, GraphAlone, Shape, CopyStep

(* The manual engine takes over only while no stage is at work, whoever     *)
(* awaits it, but one that repeats a failed stage: its record names the    *)
(* failure and not the work (recovery_run_service.py, execute;             *)
(* run_repository.py, has_inflight_execution and reserve_execution).       *)
THEOREM TakeoverQuiet == Spec => TakeoverIsQuiet
<1>1. Init => StagesOK
  BY DEF Init, StagesOK, OneRunner, RecordsAgree, StageStatus
<1>2. IInv /\ StagesOK /\ [Next]_vars => StagesOK'
  BY StepStages
<1> DEFINE Quiet == run'.engine # run.engine =>
             \A c \in DOMAIN call :
               call[c].st = "running" => exec[c[2]].st \in StageStatus \ Good
<1>3. IInv /\ CopiesAreTheRow /\ StagesOK /\ [Next]_vars => Quiet
  <2> SUFFICES ASSUME IInv, CopiesAreTheRow, StagesOK, [Next]_vars, run'.engine # run.engine,
                      NEW c \in DOMAIN call, call[c].st = "running"
               PROVE  exec[c[2]].st \in StageStatus \ Good
    OBVIOUS
  <2>1. Takeover
    BY EngineKept
  <2>2. c[2] \in Unit /\ exec \in [Unit -> [st : {"none", "running"} \cup StageStatus,
                                           in : Input, res : Result]]
    BY TypeParts, CallsOfTasks DEF IInv, ExecOK
  <2>3. exec[c[2]].st # "running"
    BY <2>1, <2>2 DEF Takeover, NothingInFlight
  <2>4. exec[c[2]].st \notin Good \cup {"none"}
    BY DEF StagesOK, OneRunner
  <2>5. QED
    BY <2>2, <2>3, <2>4
<1>4. QED
  BY <1>1, <1>2, <1>3, TypeIsInvariant, CopiesCorrect, PTL DEF Spec, TakeoverIsQuiet

(* The run keeps the lifecycle (RunLifecycle): its status walks the graph,  *)
(* a terminal status is final, only a reviewer's decision leads from the    *)
(* review back to work, a recorded cancellation and a decision stay on      *)
(* record.  Under the manual engine there is one decision; under the graph, *)
(* unless the manual engine takes over, one request decides.  So it is with *)
(* restarts, rival requests and several processes                          *)
(* (recovery_run_service.py; manual.py; langgraph_engine.py).               *)
THEOREM LifecycleKept == Spec => LifecycleSpec
<1>1. Init => Life!Init
  BY DEF Init, NewRow, Life!Init
<1>2. Init => ReviewInv
  BY DEF Init, ReviewInv, Reviewed, NoCopy, NewRow, AtReview, Fresh
<1>3. Init => VerdictInv /\ EndsAgree /\ StreamInv
  <2>1. Init => run = NewRow /\ \A t \in Task : /\ mem[t] = NoCopy /\ pc[t] = "idle"
                                                /\ Awaited(t) = {}
    BY DEF Init, Awaited
  <2>2. Init => VerdictInv
    BY <2>1, NewRowsWhole DEF VerdictInv, InOrder, NodeOf, AfterSurvey, AfterFanOut, BusyPc,
       EnginePc, StageNode
  <2>3. Init => EndsAgree /\ StreamInv
    BY KindsOfTasks DEF Init, EndsAgree, NoCopy, NewRow, Terminal, StreamInv, StandsRight, Owes,
       EventsAgree, OneDebtor, AloneCancels, BusyPc, EnginePc, StageNode, NotePc
  <2>4. QED
    BY <2>2, <2>3
<1>4. Init => (FirstEngine = "manual" => OneReviewInv)
  BY NewRowsUndecided DEF Init, OneReviewInv, ReviewsOnce, AsksReview, ResultsAsk, AsksWithMerge,
     NoResult, Returned
<1>5. Init => GraphKeeps
  BY DEF Init, GraphKeeps, GraphAlone, NoCopy, NewRow
<1> DEFINE LInv == /\ IInv /\ CopiesAreTheRow /\ EndsAgree /\ StreamInv /\ VerdictInv /\ ReviewInv
                   /\ FirstEngine = "manual" => OneReviewInv
                   /\ GraphKeeps
           More == /\ EndsAgree /\ StreamInv /\ VerdictInv /\ ReviewInv
                   /\ FirstEngine = "manual" => OneReviewInv
                   /\ GraphKeeps
<1>6. LInv /\ [Next]_vars => More' /\ [Life!Next]_(Life!vars)
  <2> SUFFICES ASSUME LInv, [Next]_vars
               PROVE  More' /\ [Life!Next]_(Life!vars)
    OBVIOUS
  <2>1. EndsAgree' /\ StreamInv' /\ VerdictInv'
    BY StepIsOnward, EndsAgreeStep, StreamStep, VerdictStep
  <2>2. ReviewInv' /\ Walks /\ GraphKeeps'
    BY LifeStep, GraphKeepsStep
  <2>3. FirstEngine = "manual" => OneReviewInv'
    BY OneReviewStep
  <2>4. run \in Row
    BY DEF IInv, TypeOK
  <2>5. [Life!Next]_(Life!vars)
    BY <2>2, <2>4, WalksAreLife
  <2>6. QED
    BY <2>1, <2>2, <2>3, <2>5
<1>7. Init => More
  BY <1>2, <1>3, <1>4, <1>5
<1>8. IInv /\ CopiesAreTheRow /\ More => LInv
  OBVIOUS
<1> HIDE DEF LInv, More
<1>9. QED
  BY <1>1, <1>6, <1>7, <1>8, TypeIsInvariant, CopiesCorrect, PTL DEF Spec, LifecycleSpec, Life!Spec

-----------------------------------------------------------------------------
(* The evidence the critic asked for.                                       *)

Collected(k) == \A j \in 1 .. k : DoneUnit(run, <<"evidence", j>>)
Gathered == Collected(run.round)

(* One process, and no restart and no takeover has come in between.         *)
Calm == OneLoop /\ crashes = 0 /\ run.fallbacks = 0

(* Then every engine is the one the run was created for.                    *)
EngineFirst ==
  run.fallbacks = 0 => /\ run.engine = FirstEngine
                       /\ \A t \in Task : mem[t].engine = FirstEngine

(* A round has begun and its evidence is not in the row.                    *)
Owing == ~Gathered /\ run.status \notin Terminal

(* Nobody resumes the run, and nobody may.                                  *)
Unresumed == /\ \A r \in Resumer : pc[r] = "idle"
             /\ run.status # "waiting_approval"

(* A resumed run asks for no more evidence: the manual engine skips the     *)
(* merge, the graph goes on after it.                                      *)
AsksNoMore(r) ==
  pc[r] \in EnginePc =>
    /\ pc[r] # "deepen" /\ ~(pc[r] = "await" /\ node[r] = "merge")
    /\ mem[r].engine = "langgraph" => NodeOf(r) \in {"consolidate", "finalize", "announce"}
    /\ mem[r].engine = "manual" => mem[r].decisions # {} /\ HasMerge(mem[r])

(* While a round's evidence is owed, execute is on its way to collect it,   *)
(* or to fail the run.                                                     *)
CollectInv ==
  Calm =>
    /\ compatible
    /\ \A r \in Resumer : AsksNoMore(r)
    /\ run.status = "completed" => Gathered
    /\ pc["exec"] \in EnginePc => Unresumed
    /\ Owing => /\ NodeOf("exec") \in {"evidence", "raised"} /\ Unresumed
                /\ Collected(run.round - 1)

(* What has been collected stays collected.                                 *)
LEMMA CollectedStays ==
  ASSUME run.done \subseteq run'.done, NEW k, Collected(k)
  PROVE  Collected(k)'
  BY DEF Collected, DoneUnit

(* Only a restart ends the calm otherwise than by a takeover, or brings     *)
(* another workflow version.                                               *)
LEMMA OnlyCrashes ==
  ASSUME [Next]_vars
  PROVE  UNCHANGED <<crashes, compatible>> \/ Crash
<1>1. ASSUME NEW t, Drive(t)
      PROVE  UNCHANGED <<crashes, compatible>>
  BY <1>1 DEF Drive, Enter, Skip, Launch, Join, Deepen, Pause, PauseSave, Finalize, Announce, bounded
<1>2. CASE ExecStep \/ Execute
  BY <1>1, <1>2 DEF ExecStep, Settle, Takeover, Fail, Block, Note, Execute, quiet, bounded
<1>3. ASSUME NEW r \in Resumer, ResumeStep(r) \/ Resume(r)
      PROVE  UNCHANGED <<crashes, compatible>>
  BY <1>1, <1>3 DEF ResumeStep, Resume, Block, Note, Report, ResumeControl, ResolveInterrupt,
     ReplayInterrupt, PauseAgain, StoreDecision, TakeDecision, Back, AckResume, Expire,
     ExpireInterrupt, quiet, bounded
<1>4. ASSUME NEW c \in Canceller, CancelStep(c) \/ Cancel(c)
      PROVE  UNCHANGED <<crashes, compatible>>
  BY <1>4 DEF CancelStep, Cancel, CancelControl, AckTerminal, Flag, Stop, SaveCanceled,
     AckCancel, Note, Report, quiet, bounded
<1>5. ASSUME NEW c \in DOMAIN call, CallStep(c) \/ Raise(c)
      PROVE  UNCHANGED <<crashes, compatible>>
  BY <1>5 DEF CallStep, Reserve, Complete, ForgetOrphan, Raise, bounded
<1>6. CASE Lapse \/ UNCHANGED vars \/ \E t \in Driver : GraphFails(t)
  BY <1>6 DEF Lapse, GraphFails, vars, bounded
<1>7. QED
  BY <1>2, <1>3, <1>4, <1>5, <1>6 DEF Next, Program, World

LEMMA CalmBefore ==
  ASSUME IInv, CopiesAreTheRow, [Next]_vars, Calm'
  PROVE  Calm /\ ~Crash /\ ~Takeover /\ UNCHANGED compatible
<1>1. /\ crashes \in Nat /\ run.fallbacks \in Nat /\ run'.fallbacks \in Nat
      /\ run.fallbacks <= run'.fallbacks
  <2>1. Shape
    BY StepIsOnward
  <2>2. run \in Row /\ run' \in Row /\ crashes \in Nat
    BY <2>1 DEF Shape, IInv, TypeOK
  <2>3. run.fallbacks <= run'.fallbacks
    BY StepShape, RowFollows DEF Keeps
  <2>4. QED
    BY <2>2, <2>3 DEF Row
<1>2. ~Crash
  <2>1. ASSUME NEW T, Dies(T)
        PROVE  FALSE
    <3>1. crashes' = crashes + 1
      BY <2>1 DEF Dies
    <3>2. QED
      BY <1>1, <3>1 DEF Calm
  <2>2. QED
    BY <2>1 DEF Crash
<1>3. Takeover => run'.fallbacks = run.fallbacks + 1
  BY DEF Takeover, Bump, IInv, TypeOK, Row
<1>4. QED
  BY <1>1, <1>2, <1>3, OnlyCrashes DEF Calm

LEMMA EngineFirstStep ==
  ASSUME IInv, CopiesAreTheRow, EngineFirst, [Next]_vars
  PROVE  EngineFirst'
<1>1. Shape /\ run.fallbacks <= run'.fallbacks
  BY StepIsOnward, StepShape, RowFollows DEF Keeps
<1>2. run.fallbacks \in Nat /\ run'.fallbacks \in Nat
  BY <1>1 DEF Shape, IInv, TypeOK, Row
<1>3. Takeover => run'.fallbacks = run.fallbacks + 1
  BY DEF Takeover, Bump, IInv, TypeOK, Row
<1>4. NoCopy.engine = FirstEngine
  BY DEF NoCopy, NewRow
<1>5. QED
  BY <1>1, <1>2, <1>3, <1>4, EngineKept DEF EngineFirst, Shape, CopyStep

(* A row of the same round that is not newly put to review or completed.    *)
Same(m, n) == /\ n.round = m.round
              /\ n.status \in {"waiting_approval", "completed"} => n.status = m.status

LEMMA SaveSame ==
  ASSUME IInv, CopiesAreTheRow, NEW t \in Task, NEW new, NEW next, Save(t, new, next),
         Same(mem[t], Bump(new))
  PROVE  Same(run, run')
  BY DEF Save, Fresh, CopiesAreTheRow, Same

LEMMA UsuallySame ==
  ASSUME IInv, CopiesAreTheRow, [Next]_vars
  PROVE  \/ Same(run, run')
         \/ \E t \in Driver : Deepen(t) \/ PauseSave(t) \/ Finalize(t)
         \/ \E r \in Resumer : PauseAgain(r)
<1>0. /\ run \in Row /\ mem \in [Task -> Row] /\ "exec" \in Driver /\ "exec" \in Task
      /\ Driver \subseteq Task
  BY DriversAreTasks DEF IInv, TypeOK, Task
<1>1. ASSUME NEW m \in Row
      PROVE  /\ Same(m, Bump(m))
             /\ \A us : Same(m, Bump([m EXCEPT !.pending = us]))
             /\ \A b : Same(m, Bump([m EXCEPT !.cancelReq = b]))
             /\ \A s : s \notin {"waiting_approval", "completed"} =>
                  /\ Same(m, Bump([m EXCEPT !.status = s]))
                  /\ \A b : Same(m, Bump([m EXCEPT !.status = s, !.result = b]))
                  /\ \A b, ds : Same(m, Bump([m EXCEPT !.status = s, !.interrupt = b,
                                                       !.decisions = ds]))
  BY <1>1 DEF Bump, Row, Same
<1>2. ASSUME NEW t \in Task, Block(t) \/ Note(t)
      PROVE  Same(run, run')
  <2>1. /\ mem[t] \in Row /\ Same(run, run) /\ (Fresh(t) => mem[t] = run)
    BY <1>0, <1>2 DEF Fresh, CopiesAreTheRow, Same
  <2>2. Same(mem[t], Bump(mem[t])) /\ Same(mem[t], Bump([mem[t] EXCEPT !.status = "blocked"]))
    BY <1>1, <2>1
  <2>3. QED
    BY <1>2, <2>1, <2>2, SaveSame DEF Block, Note
<1>3. ASSUME NEW t \in Driver, Drive(t), ~Deepen(t), ~PauseSave(t), ~Finalize(t)
      PROVE  Same(run, run')
  <2> DEFINE m == mem[t]
  <2>0. t \in Task /\ m \in Row /\ Same(run, run) /\ node[t] \in StageNode
    BY <1>0, KindsOfTasks DEF Same, IInv, TypeOK
  <2>1. CASE UNCHANGED run
    BY <2>0, <2>1
  <2>2. CASE Enter(t)
    <3>1. \A s \in {"canceled", "running"} : Same(m, Bump([m EXCEPT !.status = s]))
      BY <1>1, <2>0
    <3>2. QED
      BY <2>0, <2>1, <2>2, <3>1, SaveSame DEF Enter
  <2>3. CASE Launch(t)
    <3>1. Same(m, Bump([m EXCEPT !.pending = @ \cup UnitsAt(pc[t], m)]))
      BY <1>1, <2>0
    <3>2. QED
      BY <2>0, <2>1, <2>3, <3>1, SaveSame DEF Launch
  <2>4. CASE Announce(t)
    <3>1. Same(m, Bump(m))
      BY <1>1, <2>0
    <3>2. QED
      BY <2>0, <2>4, <3>1, SaveSame DEF Announce
  <2>5. CASE Join(t)
    <3> DEFINE us == {c[2] : c \in {d \in Awaited(t) :
                       m.engine = "langgraph" /\ node[t] \in {"fanout", "evidence"} =>
                         ~DoneUnit(m, d[2])}}
               res == [u \in us |-> call[<<t, u, TRUE>>].res]
               new == Joined(m, us, res)
    <3>1. us \in SUBSET Unit /\ res \in [us -> Result]
      <4>1. \A c \in Awaited(t) : /\ c[2] \in Unit /\ <<t, c[2], TRUE>> \in DOMAIN call
                                  /\ call[<<t, c[2], TRUE>>].res \in Result
        BY <2>0, TypeParts, CallsOfTasks DEF IInv, Awaited, Call
      <4>2. QED
        BY <4>1
    <3>2. PICK next : Save(t, new, next)
      BY <2>5 DEF Join
    <3>3. new \in Row /\ new.round = m.round /\ new.status \in {m.status, "blocked", "failed", "canceled"}
      <4> HIDE DEF m, us, res
      <4>1. QED
        BY <2>0, <3>1, JoinedIsRow, JoinedStatus DEF m
    <3> HIDE DEF new
    <3>4. Same(m, Bump(new))
      BY <3>3 DEF Bump, Row, Same
    <3>5. QED
      BY <2>0, <3>2, <3>4, SaveSame
  <2>6. QED
    BY <1>3, <2>1, <2>2, <2>3, <2>4, <2>5 DEF Drive, Skip, Pause, durable
<1>4. CASE ExecStep \/ Execute
  <2>1. CASE Fail
    <3>1. \A s : s \in {"blocked", "failed"} => Same(run, Bump([run EXCEPT !.status = s]))
      BY <1>0 DEF Bump, Row, Same
    <3>2. QED
      BY <2>1, <3>1 DEF Fail, Same
  <2>2. CASE Takeover
    BY <1>0, <2>2 DEF Takeover, Bump, Row, Same
  <2>3. QED
    BY <1>0, <1>2, <1>3, <1>4, <2>1, <2>2 DEF ExecStep, Settle, Execute, Same
<1>5. ASSUME NEW r \in Resumer, ResumeStep(r) \/ Resume(r), ~PauseAgain(r),
             ~Deepen(r), ~PauseSave(r), ~Finalize(r)
      PROVE  Same(run, run')
  <2>0. r \in Task /\ r \in Driver /\ mem[r] \in Row /\ Same(run, run)
    BY <1>0, KindsOfTasks DEF Same
  <2>1. CASE TakeDecision(r)
    <3>1. Same(mem[r], Bump([mem[r] EXCEPT !.status = "running", !.interrupt = FALSE,
                                           !.decisions = @ \cup {r}]))
      BY <1>1, <2>0
    <3>2. QED
      BY <2>0, <2>1, <3>1, SaveSame DEF TakeDecision
  <2>2. CASE Expire(r)
    <3>1. Same(mem[r], Bump([mem[r] EXCEPT !.status = "expired"]))
      BY <1>1, <2>0
    <3>2. QED
      BY <2>0, <2>2, <3>1, SaveSame DEF Expire
  <2>3. QED
    BY <1>2, <1>3, <1>5, <2>0, <2>1, <2>2 DEF ResumeStep, Resume, Report, ResumeControl,
       ResolveInterrupt, ReplayInterrupt, StoreDecision, Back, AckResume, ExpireInterrupt
<1>6. ASSUME NEW c \in Canceller, CancelStep(c) \/ Cancel(c)
      PROVE  Same(run, run')
  <2>0. c \in Task /\ mem[c] \in Row /\ Same(run, run)
    BY <1>0, KindsOfTasks DEF Same
  <2>1. CASE Flag(c)
    <3>1. Same(mem[c], Bump([mem[c] EXCEPT !.cancelReq = TRUE]))
      BY <1>1, <2>0
    <3>2. QED
      BY <2>0, <2>1, <3>1, SaveSame DEF Flag
  <2>2. CASE SaveCanceled(c)
    <3>1. Same(mem[c], Bump([mem[c] EXCEPT !.status = "canceled"]))
      BY <1>1, <2>0
    <3>2. QED
      BY <2>0, <2>2, <3>1, SaveSame DEF SaveCanceled
  <2>3. QED
    BY <1>2, <1>6, <2>0, <2>1, <2>2 DEF CancelStep, Cancel, CancelControl, AckTerminal, Stop,
       AckCancel, Report
<1>7. ASSUME NEW c \in DOMAIN call, CallStep(c) \/ Raise(c)
      PROVE  Same(run, run')
  BY <1>7 DEF CallStep, Reserve, Complete, ForgetOrphan, Raise, durable, Same
<1>8. CASE Crash \/ Lapse \/ UNCHANGED vars \/ \E t \in Driver : GraphFails(t)
  BY <1>8 DEF Crash, Dies, Lapse, GraphFails, durable, vars, Same
<1>9. QED
  BY <1>0, <1>4, <1>5, <1>6, <1>7, <1>8, KindsOfTasks DEF Next, Program, World

(* A task that opens a round, puts the run to review or finalizes it moves, *)
(* and only the first changes the round.                                   *)
LEMMA ExceptionsMove ==
  ASSUME IInv, CopiesAreTheRow, NEW t \in Driver,
         Deepen(t) \/ PauseSave(t) \/ Finalize(t) \/ PauseAgain(t)
  PROVE  /\ pc'[t] # pc[t]
         /\ pc[t] \in {"deepen", "pause_save", "finalize", "r_again"}
         /\ pc[t] = "deepen" \/ run'.round = run.round
<1>0. t \in Task /\ pc \in [Task -> Pc] /\ mem \in [Task -> Row] /\ run \in Row
  BY KindsOfTasks DEF IInv, TypeOK
<1>1. ASSUME NEW new, NEW next, Save(t, new, next), next # pc[t], pc[t] # "raised"
      PROVE  pc'[t] # pc[t]
  BY <1>0, <1>1 DEF Save, Goto
<1>2. pc'[t] # pc[t]
  BY <1>1 DEF Deepen, PauseSave, Finalize, PauseAgain
<1>3. ASSUME NEW new, NEW next, Save(t, new, next), Bump(new).round = mem[t].round
      PROVE  run'.round = run.round
  BY <1>0, <1>3 DEF Save, Fresh, CopiesAreTheRow
<1>4. ASSUME NEW s, NEW b
      PROVE  /\ Bump([mem[t] EXCEPT !.status = s, !.interrupt = b]).round = mem[t].round
             /\ Bump([mem[t] EXCEPT !.status = s, !.result = b]).round = mem[t].round
  BY <1>0 DEF Bump, Row
<1>5. PauseSave(t) \/ PauseAgain(t) => run'.round = run.round
  BY <1>3, <1>4 DEF PauseSave, PauseAgain
<1>6. CASE Finalize(t)
  <2> DEFINE m == mem[t]
             s == IF m.engine = "langgraph" /\ m.status # "running" THEN m.status
                  ELSE Verdict(m)
  <2>1. Save(t, [m EXCEPT !.status = s, !.result = @ \/ HasMerge(m)], "announce")
    BY <1>6 DEF Finalize
  <2> HIDE DEF s
  <2>2. Bump([m EXCEPT !.status = s, !.result = @ \/ HasMerge(m)]).round = m.round
    BY <1>4
  <2>3. QED
    BY <1>2, <1>3, <1>6, <2>1, <2>2 DEF Finalize
<1>7. QED
  BY <1>2, <1>5, <1>6 DEF Deepen, PauseSave, Finalize, PauseAgain

(* So, unless a task steps off one of these nodes, the row is as it was.    *)
LEMMA OffTheNodes ==
  ASSUME IInv, CopiesAreTheRow, [Next]_vars
  PROVE  /\ \/ Same(run, run')
            \/ \E t \in Driver : /\ pc'[t] # pc[t]
                                 /\ pc[t] \in {"deepen", "pause_save", "finalize", "r_again"}
         /\ \/ run'.round = run.round
            \/ \E t \in Driver : pc'[t] # pc[t] /\ pc[t] = "deepen"
  BY UsuallySame, ExceptionsMove, KindsOfTasks DEF Same

(* What the invariant is proved from.                                      *)
Known ==
  /\ IInv /\ CopiesAreTheRow /\ StreamInv /\ VerdictInv /\ ReviewInv /\ EngineFirst
  /\ FirstEngine = "manual" => OneReviewInv
  /\ Calm /\ CollectInv

(* A step within the round, while no evidence is owed.                      *)
LEMMA RoundGathers ==
  ASSUME Known, Onward, ~Owing, run'.round = run.round, run.done \subseteq run'.done
  PROVE  ~Owing' /\ (run'.status = "completed" => Gathered')
<1>1. Gathered => Gathered'
  BY CollectedStays DEF Gathered, Collected
<1>2. CASE Gathered
  BY <1>1, <1>2 DEF Owing
<1>3. CASE run.status \in Terminal
  BY <1>1, <1>3 DEF Owing, Onward, Known, CollectInv
<1>4. QED
  BY <1>2, <1>3 DEF Owing

(* Who resumes the run finds its evidence gathered, and execute away.       *)
LEMMA ResumingIsGathered ==
  ASSUME Known, NEW r \in Resumer, pc[r] # "idle" \/ run.status = "waiting_approval"
  PROVE  ~Owing /\ pc["exec"] \notin EnginePc
  BY DEF Known, CollectInv, Unresumed

LEMMA ResumersBusy ==
  ASSUME NEW r \in Resumer, ResumeStep(r)
  PROVE  pc[r] # "idle"
  BY DEF ResumeStep, Drive, Enter, Skip, Launch, Join, Deepen, Pause, PauseSave, Finalize,
     Announce, Block, Note, Report, ResumeControl, ResolveInterrupt, ReplayInterrupt, PauseAgain,
     StoreDecision, TakeDecision, Back, AckResume, Expire, ExpireInterrupt, StageNode

(* A resumed run is not sent back for evidence.                             *)
LEMMA AsksStep ==
  ASSUME Known, [Next]_vars, NEW r \in Resumer, ResumeStep(r) \/ Resume(r)
  PROVE  AsksNoMore(r)'
<1> DEFINE m == mem[r]
<1>0. /\ r \in Task /\ r \in Driver /\ m \in Row /\ pc \in [Task -> Pc] /\ mem \in [Task -> Row]
      /\ node \in [Task -> StageNode] /\ IInv /\ CopiesAreTheRow /\ VerdictInv /\ AsksNoMore(r)
      /\ m.engine \in {"manual", "langgraph"} /\ InOrder(r)
  BY KindsOfTasks, DriverParts DEF Known, IInv, TypeOK, CollectInv, Row, Engine
<1>1. ASSUME pc'[r] \notin EnginePc
      PROVE  AsksNoMore(r)'
  BY <1>1 DEF AsksNoMore
<1>2. ASSUME NEW p, Goto(r, p), p \notin EnginePc
      PROVE  AsksNoMore(r)'
  BY <1>0, <1>1, <1>2 DEF Goto
<1>3. ASSUME NEW new, NEW p, Save(r, new, p), p \notin EnginePc
      PROVE  AsksNoMore(r)'
  <2>1. pc'[r] \in {p, "raised"}
    BY <1>0, <1>3 DEF Save, Goto
  <2>2. QED
    BY <1>1, <1>3, <2>1 DEF EnginePc, StageNode
(* A task that goes on, with a copy that still has the merge.               *)
<1>4. ASSUME NEW p \in EnginePc \ {"deepen", "await"}, pc'[r] = p,
             mem'[r].engine = m.engine,
             m.decisions \subseteq mem'[r].decisions, HasMerge(m) => HasMerge(mem'[r]),
             pc[r] \in EnginePc,
             m.engine = "langgraph" => p \in {"consolidate", "finalize", "announce"}
      PROVE  AsksNoMore(r)'
  BY <1>0, <1>4 DEF AsksNoMore, NodeOf
<1>5. ASSUME NEW new, NEW p \in EnginePc \ {"deepen", "await"}, Save(r, new, p),
             Bump(new).engine = m.engine, m.decisions \subseteq Bump(new).decisions,
             HasMerge(m) => HasMerge(Bump(new)), pc[r] \in EnginePc,
             m.engine = "langgraph" => p \in {"consolidate", "finalize", "announce"}
      PROVE  AsksNoMore(r)'
  <2>1. \/ pc'[r] = "raised"
        \/ pc'[r] = p /\ mem'[r] = Bump(new)
    BY <1>0, <1>5 DEF Save, Goto
  <2>2. QED
    BY <1>1, <1>4, <1>5, <2>1 DEF EnginePc, StageNode
<1>6. /\ \A s, b, us : /\ Bump([m EXCEPT !.status = s]).engine = m.engine
                       /\ Bump([m EXCEPT !.status = s]).decisions = m.decisions
                       /\ Bump([m EXCEPT !.status = s]).refs = m.refs
                       /\ Bump([m EXCEPT !.status = s, !.result = b]).engine = m.engine
                       /\ Bump([m EXCEPT !.status = s, !.result = b]).decisions = m.decisions
                       /\ Bump([m EXCEPT !.status = s, !.result = b]).refs = m.refs
                       /\ Bump([m EXCEPT !.pending = us]).engine = m.engine
                       /\ Bump([m EXCEPT !.pending = us]).decisions = m.decisions
                       /\ Bump([m EXCEPT !.pending = us]).refs = m.refs
  BY <1>0 DEF Bump, Row
<1>7. CASE Enter(r)
  <2>1. m.engine = "manual"
    BY <1>0, <1>7 DEF Enter, AsksNoMore, NodeOf, EnginePc
  <2>2. CASE Goto(r, "return")
    BY <1>2, <2>2 DEF EnginePc, StageNode
  <2>3. ASSUME NEW s, NEW p \in {"announce", "survey"}, Save(r, [m EXCEPT !.status = s], p)
        PROVE  AsksNoMore(r)'
    <3> DEFINE new == [m EXCEPT !.status = s]
    <3>1. /\ Bump(new).engine = m.engine /\ Bump(new).decisions = m.decisions
          /\ HasMerge(m) => HasMerge(Bump(new))
      BY <1>6 DEF HasMerge
    <3>2. p \in EnginePc \ {"deepen", "await"} /\ pc[r] \in EnginePc
      BY <1>7 DEF Enter, EnginePc, StageNode
    <3> HIDE DEF new
    <3>3. Save(r, new, p)
      BY <2>3 DEF new
    <3>4. QED
      BY <1>5, <2>1, <3>1, <3>2, <3>3
  <2>4. QED
    BY <1>7, <2>1, <2>2, <2>3 DEF Enter
<1>8. CASE Skip(r)
  <2>1. /\ pc[r] \in StageNode /\ pc[r] \in EnginePc /\ NodeOf(r) = pc[r]
        /\ UnitsAt(pc[r], m) = {} /\ UNCHANGED mem
        /\ pc'[r] = Following(pc[r], m.engine)
    BY <1>0, <1>8 DEF Skip, Goto, NodeOf, StageNode, EnginePc
  <2>2. m.engine = "langgraph" => pc[r] = "consolidate"
    BY <1>0, <2>1 DEF AsksNoMore, StageNode
  <2>3. /\ Following(pc[r], m.engine) \in EnginePc \ {"deepen", "await"}
        /\ pc[r] = "consolidate" => Following(pc[r], m.engine) = "finalize"
    BY <2>1 DEF Following, EnginePc, StageNode
  <2>4. QED
    BY <1>4, <2>1, <2>2, <2>3
<1>9. CASE Launch(r)
  <2> DEFINE us == UnitsAt(pc[r], m)
             n == [m EXCEPT !.pending = @ \cup us]
  <2>1. /\ pc[r] \in StageNode /\ pc[r] \in EnginePc /\ NodeOf(r) = pc[r] /\ us # {}
        /\ pc'[r] = "await" => node'[r] = pc[r]
    BY <1>0, <1>9 DEF Launch, NodeOf, StageNode, EnginePc
  <2>2. pc[r] # "merge"
    BY <1>0, <2>1 DEF AsksNoMore, UnitsAt
  <2>3. /\ Bump(n).engine = m.engine /\ Bump(n).decisions = m.decisions
        /\ HasMerge(Bump(n)) = HasMerge(m)
    BY <1>6 DEF HasMerge
  <2>4. \/ Save(r, n, "await")
        \/ Goto(r, "await") /\ UNCHANGED mem
    BY <1>9 DEF Launch
  <2> HIDE DEF n
  <2>5. \/ pc'[r] = "raised"
        \/ /\ pc'[r] = "await" /\ mem'[r] \in {m, Bump(n)}
    BY <1>0, <2>4 DEF Save, Goto
  <2>6. CASE pc'[r] = "await" /\ mem'[r] \in {m, Bump(n)}
    <3>1. /\ mem'[r].engine = m.engine /\ mem'[r].decisions = m.decisions
          /\ HasMerge(mem'[r]) = HasMerge(m) /\ NodeOf(r)' = NodeOf(r)
      BY <2>1, <2>3, <2>6 DEF NodeOf
    <3>2. QED
      BY <1>0, <2>1, <2>2, <2>6, <3>1 DEF AsksNoMore
  <2>7. QED
    BY <1>1, <2>5, <2>6 DEF EnginePc, StageNode
<1>10. CASE Join(r)
  <2> DEFINE us == {c[2] : c \in {d \in Awaited(r) :
                     m.engine = "langgraph" /\ node[r] \in {"fanout", "evidence"} =>
                       ~DoneUnit(m, d[2])}}
             res == [u \in us |-> call[<<r, u, TRUE>>].res]
             new == Joined(m, us, res)
             asked == IF node[r] = "merge" THEN res[<<"merge", m.round>>].next
                      ELSE "accept"
             next == Route(node[r], new, asked)
  <2>1. us \in SUBSET Unit /\ res \in [us -> Result]
    <3>1. \A c \in Awaited(r) : /\ c[2] \in Unit /\ <<r, c[2], TRUE>> \in DOMAIN call
                                /\ call[<<r, c[2], TRUE>>].res \in Result
      BY <1>0, TypeParts, CallsOfTasks DEF IInv, Awaited, Call
    <3>2. QED
      BY <3>1
  <2>2. Save(r, new, next) /\ pc[r] = "await" /\ pc[r] \in EnginePc /\ NodeOf(r) = node[r]
        /\ node[r] \in StageNode
    BY <1>0, <1>10 DEF Join, NodeOf, EnginePc
  <2> HIDE DEF us, res, asked
  <2>3. /\ new \in Row /\ new.engine = m.engine /\ new.decisions = m.decisions
        /\ HasMerge(m) => HasMerge(new)
    <3> HIDE DEF m
    <3>1. QED
      BY <1>0, <2>1, JoinedIsRow, JoinedMerges
  <2> HIDE DEF new
  <2>4. /\ next \in EnginePc \ {"deepen", "await"}
        /\ m.engine = "langgraph" => next \in {"finalize", "announce"}
    <3>1. node[r] # "merge" /\ (m.engine = "langgraph" => node[r] = "consolidate")
      BY <1>0, <2>2 DEF AsksNoMore, StageNode
    <3>2. QED
      BY <2>2, <2>3, <3>1 DEF Route, Following, EnginePc, StageNode
  <2>5. /\ Bump(new).engine = m.engine /\ Bump(new).decisions = m.decisions
        /\ HasMerge(m) => HasMerge(Bump(new))
    BY <2>3 DEF Bump, Row, HasMerge
  <2> HIDE DEF next
  <2>6. QED
    BY <1>5, <2>2, <2>4, <2>5
<1>11. CASE Deepen(r)
  BY <1>0, <1>11 DEF Deepen, AsksNoMore, EnginePc
<1>12. CASE Pause(r)
  <2>1. pc[r] = "pause" /\ NodeOf(r) = "pause" /\ pc[r] \in EnginePc
    BY <1>12 DEF Pause, NodeOf, EnginePc
  <2>2. m.engine # "langgraph"
    BY <1>0, <2>1 DEF AsksNoMore
  <2>3. Goto(r, "pause_save") /\ UNCHANGED mem
    BY <1>12, <2>2 DEF Pause
  <2>4. QED
    BY <1>0, <1>4, <2>1, <2>2, <2>3 DEF Goto, EnginePc
<1>13. CASE Finalize(r)
  <2> DEFINE s == IF m.engine = "langgraph" /\ m.status # "running" THEN m.status
                  ELSE Verdict(m)
             n == [m EXCEPT !.status = s, !.result = @ \/ HasMerge(m)]
  <2>1. Save(r, n, "announce") /\ pc[r] \in EnginePc
    BY <1>13 DEF Finalize, EnginePc
  <2> HIDE DEF s
  <2>2. /\ Bump(n).engine = m.engine /\ Bump(n).decisions = m.decisions
        /\ Bump(n).refs = m.refs
    BY <1>0 DEF Bump, Row
  <2> HIDE DEF n
  <2>3. HasMerge(m) => HasMerge(Bump(n))
    BY <2>2 DEF HasMerge
  <2>4. QED
    BY <1>5, <2>1, <2>2, <2>3 DEF EnginePc
<1>14. CASE TakeDecision(r)
  <2> DEFINE n == [m EXCEPT !.status = "running", !.interrupt = FALSE,
                            !.decisions = @ \cup {r}]
             next == IF m.engine = "langgraph" THEN "consolidate" ELSE "enter"
  <2>1. Save(r, n, next) /\ pc[r] = "r_save"
    BY <1>14 DEF TakeDecision
  <2>2. /\ n.status = "running" /\ Bump(n).engine = m.engine
        /\ Bump(n).decisions = m.decisions \cup {r} /\ Bump(n).refs = m.refs
    BY <1>0 DEF Bump, Row
  <2> HIDE DEF n
  <2>3. \/ pc'[r] = "raised"
        \/ pc'[r] = next /\ mem'[r] = Bump(n) /\ CanMove(m.status, "running")
    BY <1>0, <2>1, <2>2 DEF Save, Goto
  <2>4. CASE pc'[r] = next /\ mem'[r] = Bump(n) /\ CanMove(m.status, "running")
    <3>1. m.status = "waiting_approval"
      <4>1. m.status \in {"waiting_approval"} \cup Terminal
        BY <1>0, <2>1 DEF Known, ReviewInv, AtReview
      <4>2. QED
        BY <2>4, <4>1 DEF CanMove, Allowed, Terminal, Status
    <3>2. m.engine = "manual" => HasMerge(m)
      <4>1. m.engine = FirstEngine
        BY <1>0 DEF Known, EngineFirst, Calm
      <4>2. QED
        BY <1>0, <3>1, <4>1 DEF Known, OneReviewInv, ReviewsOnce, Undecided
    <3>3. /\ mem'[r].engine = m.engine /\ mem'[r].decisions # {}
          /\ HasMerge(m) => HasMerge(mem'[r])
      BY <2>2, <2>4 DEF HasMerge
    <3>4. QED
      BY <1>0, <2>4, <3>2, <3>3 DEF AsksNoMore, NodeOf
  <2>5. QED
    BY <1>1, <2>3, <2>4 DEF EnginePc, StageNode
<1>15. CASE PauseSave(r) \/ Announce(r) \/ PauseAgain(r) \/ Expire(r)
  <2>1. \E new, p : Save(r, new, p) /\ p \in {"return", "r_art", "e_ctl"}
    BY <1>15 DEF PauseSave, Announce, PauseAgain, Expire
  <2>2. QED
    BY <1>3, <2>1 DEF EnginePc, StageNode
<1>16. CASE Block(r)
  BY <1>2, <1>3, <1>16 DEF Block, Answer, EnginePc, StageNode
<1>17. CASE Note(r) \/ Report(r) \/ AckResume(r) \/ Back(r) \/ ExpireInterrupt(r)
  <2>1. \E p \in {"idle", "r_ack", "e_note"} : Goto(r, p)
    BY <1>17 DEF Note, Report, AckResume, Back, ExpireInterrupt, Answer
  <2>2. QED
    BY <1>2, <2>1 DEF EnginePc, StageNode
<1>18. CASE ResumeControl(r) \/ ResolveInterrupt(r) \/ ReplayInterrupt(r) \/ StoreDecision(r)
  <2>1. \E p \in {"r_int", "r_graph", "r_save", "r_art", "r_again", "raised"} : Goto(r, p)
    BY <1>18 DEF ResumeControl, ResolveInterrupt, ReplayInterrupt, StoreDecision
  <2>2. QED
    BY <1>2, <2>1 DEF EnginePc, StageNode
<1>19. CASE Resume(r)
  <2>1. CASE \E p \in {"incompatible", "e_save", "r_ctl"} : Goto(r, p)
    BY <1>2, <2>1 DEF EnginePc, StageNode
  <2>2. CASE UNCHANGED <<mem, pc>>
    BY <1>1, <1>19, <2>2 DEF Resume, EnginePc, StageNode
  <2>3. QED
    BY <1>19, <2>1, <2>2 DEF Resume
<1>20. QED
  BY <1>7, <1>8, <1>9, <1>10, <1>11, <1>12, <1>13, <1>14, <1>15, <1>16, <1>17, <1>18, <1>19
     DEF ResumeStep, Drive

(* A resume request collects nothing and leaves nothing owed.               *)
LEMMA ResumeGathers ==
  ASSUME Known, Onward, [Next]_vars, UNCHANGED compatible, run.done \subseteq run'.done,
         NEW r \in Resumer, ResumeStep(r) \/ Resume(r)
  PROVE  CollectInv'
<1>0. /\ r \in Task /\ r # "exec" /\ "exec" \in Task /\ Advances(r)
      /\ IInv /\ CopiesAreTheRow /\ CollectInv /\ Calm /\ compatible
  BY KindsOfTasks, ResumeAdvances, ConstantsAssumption DEF Known, Task, CollectInv
<1>1. /\ pc'["exec"] = pc["exec"] /\ NodeOf("exec")' = NodeOf("exec")
      /\ \A q \in Resumer \ {r} : AsksNoMore(q)'
  BY <1>0, KindsOfTasks DEF Advances, NodeOf, CollectInv, AsksNoMore
<1>2. AsksNoMore(r)'
  BY AsksStep
<1>3. CASE pc[r] # "idle"
  <2>1. ~Owing /\ pc["exec"] \notin EnginePc
    BY <1>3, ResumingIsGathered
  <2>2. run'.round = run.round
    <3>1. \A t \in Driver : pc'[t] # pc[t] => t = r
      BY <1>0, KindsOfTasks DEF Advances
    <3>2. pc[r] # "deepen"
      BY <1>0 DEF CollectInv, AsksNoMore, EnginePc
    <3>3. QED
      BY <1>0, <3>1, <3>2, OffTheNodes
  <2>3. QED
    BY <1>0, <1>1, <1>2, <2>1, <2>2, RoundGathers DEF CollectInv
<1>4. CASE pc[r] = "idle" /\ Resume(r)
  <2>1. UNCHANGED run
    BY <1>4 DEF Resume
  <2>2. pc'[r] = "idle" \/ run.status = "waiting_approval"
    BY <1>0, <1>4 DEF Resume, Goto
  <2>3. /\ Owing' = Owing /\ Gathered' = Gathered /\ (Collected(run.round - 1))' = Collected(run.round - 1)
    BY <2>1 DEF Owing, Gathered, Collected
  <2>4. Unresumed => Unresumed'
    BY <1>0, <2>1, <2>2, KindsOfTasks DEF Advances, Unresumed
  <2>5. QED
    BY <1>0, <1>1, <1>2, <2>1, <2>3, <2>4, ResumingIsGathered DEF CollectInv
<1>5. QED
  BY <1>3, <1>4, ResumersBusy

(* A cancel request neither opens a round, nor completes the run, nor puts  *)
(* it to review.                                                           *)
LEMMA CancelGathers ==
  ASSUME Known, Onward, [Next]_vars, UNCHANGED compatible, run.done \subseteq run'.done,
         NEW c \in Canceller, CancelStep(c) \/ Cancel(c)
  PROVE  CollectInv'
<1>0. /\ c \in Task /\ c \notin Driver /\ "exec" \in Task /\ "exec" # c /\ Advances(c)
      /\ IInv /\ CopiesAreTheRow /\ CollectInv /\ Calm /\ compatible
  BY KindsOfTasks, DriversAreTasks, CancelAdvances DEF Known, Task, CollectInv
<1>1. /\ pc'["exec"] = pc["exec"] /\ NodeOf("exec")' = NodeOf("exec")
      /\ \A r \in Resumer : AsksNoMore(r)' /\ pc'[r] = pc[r]
  BY <1>0, KindsOfTasks DEF Advances, NodeOf, CollectInv, AsksNoMore
<1>2. \A t \in Driver : pc'[t] = pc[t]
  BY <1>0, KindsOfTasks DEF Advances
<1>3. Same(run, run')
  BY <1>0, <1>2, OffTheNodes
<1>4. Unresumed => Unresumed'
  BY <1>1, <1>3 DEF Unresumed, Same
<1>5. run'.round = run.round /\ (Collected(run.round - 1) => (Collected(run.round - 1))')
  BY <1>3, CollectedStays DEF Same, Collected, DoneUnit
<1>6. CASE ~Owing
  BY <1>0, <1>1, <1>4, <1>5, <1>6, RoundGathers DEF CollectInv
<1>7. CASE Owing
  <2>1. run'.status # "completed"
    BY <1>3, <1>7 DEF Owing, Same, Terminal
  <2>2. QED
    BY <1>0, <1>1, <1>4, <1>5, <1>7, <2>1 DEF CollectInv
<1>8. QED
  BY <1>6, <1>7

(* A stage that fails, or goes on, leaves the row and the others alone.     *)
LEMMA AsideGathers ==
  ASSUME Known, NEW t \in Task, UNCHANGED <<run, mem, node, compatible>>,
         UNCHANGED pc \/ (Goto(t, "raised") /\ pc[t] \in EnginePc)
  PROVE  CollectInv'
<1>0. /\ CollectInv /\ Calm /\ pc \in [Task -> Pc] /\ "exec" \in Task /\ Resumer \subseteq Task
  BY KindsOfTasks DEF Known, IInv, TypeOK, Task
<1>1. /\ Owing' = Owing /\ Gathered' = Gathered /\ (Collected(run.round - 1))' = Collected(run.round - 1)
      /\ run'.status = run.status /\ run'.round = run.round
  BY DEF Owing, Gathered, Collected
<1>2. CASE UNCHANGED pc
  <2>1. Unresumed' = Unresumed /\ NodeOf("exec")' = NodeOf("exec")
        /\ \A r \in Resumer : AsksNoMore(r)' = AsksNoMore(r)
    BY <1>2 DEF Unresumed, NodeOf, AsksNoMore
  <2>2. QED
    BY <1>0, <1>1, <1>2, <2>1 DEF CollectInv
<1>3. CASE Goto(t, "raised") /\ pc[t] \in EnginePc
  <2>1. /\ pc' = [pc EXCEPT ![t] = "raised"]
        /\ "raised" \notin EnginePc /\ "idle" \notin EnginePc
    BY <1>3 DEF Goto, EnginePc, StageNode
  <2>2. Unresumed => Unresumed'
    BY <1>0, <1>3, <2>1 DEF Unresumed
  <2>3. NodeOf("exec")' \in {NodeOf("exec"), "raised"}
    BY <1>0, <2>1 DEF NodeOf
  <2>4. \A r \in Resumer : AsksNoMore(r) => AsksNoMore(r)'
    BY <1>0, <2>1 DEF AsksNoMore, NodeOf
  <2>5. pc'["exec"] \in EnginePc => pc["exec"] \in EnginePc
    BY <1>0, <2>1
  <2>6. QED
    BY <1>0, <1>1, <2>2, <2>3, <2>4, <2>5 DEF CollectInv
<1>4. QED
  BY <1>2, <1>3

(* What execute's own step must show, the rest of the system being still.   *)
LEMMA ExecSteps ==
  ASSUME Known, UNCHANGED compatible, Advances("exec"),
         run'.status = "completed" => Gathered',
         pc'["exec"] \in EnginePc => Unresumed /\ run'.status # "waiting_approval",
         Owing' => /\ NodeOf("exec")' \in {"evidence", "raised"}
                   /\ Unresumed /\ run'.status # "waiting_approval"
                   /\ (Collected(run.round - 1))'
  PROVE  CollectInv'
<1>1. "exec" \in Task /\ \A r \in Resumer : r \in Task /\ r # "exec"
  BY KindsOfTasks, ConstantsAssumption DEF Task
<1>2. Unresumed /\ run'.status # "waiting_approval" => Unresumed'
  BY <1>1 DEF Advances, Unresumed
<1>3. \A r \in Resumer : AsksNoMore(r)'
  BY <1>1 DEF Advances, AsksNoMore, NodeOf, Known, CollectInv
<1>4. QED
  BY <1>2, <1>3 DEF CollectInv, Known

(* Joining the round's evidence gathers it.                                 *)
LEMMA EvidenceJoined ==
  ASSUME Known, Join("exec"), node["exec"] = "evidence", Collected(run.round - 1)
  PROVE  pc'["exec"] = "raised" \/ Gathered'
<1> DEFINE m == mem["exec"]
           us == {c[2] : c \in {d \in Awaited("exec") :
                   m.engine = "langgraph" /\ node["exec"] \in {"fanout", "evidence"} =>
                     ~DoneUnit(m, d[2])}}
           res == [u \in us |-> call[<<"exec", u, TRUE>>].res]
           new == Joined(m, us, res)
           e == <<"evidence", m.round>>
<1>0. /\ "exec" \in Task /\ "exec" \in Driver /\ m \in Row /\ run \in Row
      /\ IInv /\ CopiesAreTheRow /\ InOrder("exec") /\ pc["exec"] = "await"
      /\ pc \in [Task -> Pc] /\ mem \in [Task -> Row]
  BY DriverParts, DriversAreTasks DEF Known, Join
<1>1. {c[2] : c \in Awaited("exec")} = {e}
  BY <1>0 DEF InOrder, UnitsAt
<1>2. us \subseteq {e} /\ (e \in us \/ DoneUnit(m, e))
  <2>1. PICK c \in Awaited("exec") : c[2] = e
    BY <1>1
  <2>2. \A d \in Awaited("exec") : d[2] = e
    BY <1>1
  <2>3. QED
    BY <2>1, <2>2
<1>3. /\ new.done = m.done \cup {<<u, res[u].status>> : u \in us}
      /\ new.round = m.round
  BY <1>0 DEF Joined, Row
<1>4. m.done \subseteq new.done /\ DoneUnit(new, e)
  <2>1. CASE e \in us
    <3>1. <<e, res[e].status>> \in new.done /\ <<e, res[e].status>>[1] = e
      BY <1>3, <2>1
    <3>2. QED
      BY <1>3, <3>1 DEF DoneUnit
  <2>2. CASE DoneUnit(m, e)
    BY <1>3, <2>2 DEF DoneUnit
  <2>3. QED
    BY <1>2, <2>1, <2>2
<1>5. PICK p : Save("exec", new, p)
  BY DEF Join
<1> HIDE DEF us, res, new
<1>6. /\ Bump(new).done = new.done /\ Bump(new).round = new.round
  BY <1>0 DEF Bump, new, Joined, Row
<1>7. \/ pc'["exec"] = "raised"
      \/ m = run /\ run' = Bump(new)
  BY <1>0, <1>5 DEF Save, Goto, Fresh, CopiesAreTheRow
<1>8. ASSUME m = run, run' = Bump(new), NEW j \in 1 .. run'.round
      PROVE  DoneUnit(run', <<"evidence", j>>)
  <2>1. run'.done = new.done /\ run'.round = run.round /\ run.round \in Nat
    BY <1>0, <1>3, <1>6, <1>8 DEF Row
  <2>2. CASE j = run.round
    BY <1>4, <1>8, <2>1, <2>2 DEF DoneUnit
  <2>3. CASE j \in 1 .. run.round - 1
    BY <1>4, <1>8, <2>1, <2>3 DEF DoneUnit, Collected
  <2>4. QED
    BY <1>8, <2>1, <2>2, <2>3
<1>9. QED
  BY <1>7, <1>8 DEF Gathered, Collected

(* Execute opens a round with all earlier evidence gathered, and goes       *)
(* straight to collect the round's.                                        *)
LEMMA DriveGathers ==
  ASSUME Known, Onward, [Next]_vars, UNCHANGED compatible, run.done \subseteq run'.done,
         Drive("exec"), run' \in Row
  PROVE  CollectInv'
<1> DEFINE m == mem["exec"]
<1>0. /\ "exec" \in Task /\ "exec" \in Driver /\ m \in Row /\ run \in Row /\ Advances("exec")
      /\ IInv /\ CopiesAreTheRow /\ CollectInv /\ Calm /\ InOrder("exec")
      /\ pc \in [Task -> Pc] /\ mem \in [Task -> Row] /\ node \in [Task -> StageNode]
  BY DriverParts, DriversAreTasks, DriveAdvances DEF Known
<1>1. pc["exec"] \in EnginePc /\ Unresumed
  <2>1. pc["exec"] \in EnginePc
    BY DEF Drive, Enter, Skip, Launch, Join, Deepen, Pause, PauseSave, Finalize, Announce,
       EnginePc, StageNode
  <2>2. QED
    BY <1>0, <2>1 DEF CollectInv
<1>2. Owing => NodeOf("exec") = "evidence" /\ Collected(run.round - 1)
  <2>1. NodeOf("exec") # "raised"
    BY <1>0, <1>1 DEF NodeOf, EnginePc, StageNode
  <2>2. QED
    BY <1>0, <2>1 DEF CollectInv
<1>3. \A t \in Driver \ {"exec"} : pc'[t] = pc[t]
  BY <1>0, KindsOfTasks DEF Advances
<1>4. CASE Deepen("exec")
  <2> DEFINE n == [m EXCEPT !.round = @ + 1]
  <2>1. Save("exec", n, "evidence") /\ pc["exec"] = "deepen"
    BY <1>4 DEF Deepen
  <2>2. ~Owing
    BY <1>2, <2>1 DEF NodeOf
  <2>3. /\ Bump(n).round = m.round + 1 /\ Bump(n).status = m.status
    BY <1>0 DEF Bump, Row
  <2> HIDE DEF n
  <2>4. CASE pc'["exec"] = "raised" /\ UNCHANGED <<run, mem>>
    <3>1. run'.round = run.round
      BY <2>4
    <3>2. QED
      BY <1>0, <2>2, <2>4, <3>1, ExecSteps, RoundGathers DEF EnginePc, StageNode
  <2>5. CASE pc'["exec"] = "evidence" /\ m = run /\ run' = Bump(n)
    <3>1. run'.round = run.round + 1 /\ run'.status = run.status /\ run.round \in Nat
      BY <1>0, <2>3, <2>5 DEF Row
    <3>2. run.status # "completed"
      BY <1>0, <2>1, <2>5 DEF InOrder, BusyPc, EnginePc
    <3>3. Owing' => Gathered
      BY <2>2, <3>1 DEF Owing
    <3>4. Gathered => (Collected(run.round - 1))'
      <4>1. run'.round - 1 = run.round
        BY <3>1
      <4>2. Gathered => \A j \in 1 .. run.round : DoneUnit(run', <<"evidence", j>>)
        BY DEF Gathered, Collected, DoneUnit
      <4>3. QED
        BY <4>1, <4>2 DEF Collected
    <3>5. NodeOf("exec")' = "evidence"
      BY <2>5 DEF NodeOf
    <3>6. QED
      BY <1>0, <1>1, <3>1, <3>2, <3>3, <3>4, <3>5, ExecSteps DEF Unresumed
  <2>6. QED
    BY <1>0, <2>1, <2>4, <2>5 DEF Save, Goto, Fresh, CopiesAreTheRow
<1>5. CASE pc["exec"] # "deepen"
  <2>1. run'.round = run.round
    BY <1>0, <1>3, <1>5, OffTheNodes
  <2>2. CASE pc["exec"] \notin {"pause_save", "finalize"}
    <3>1. Same(run, run')
      BY <1>0, <1>1, <1>3, <1>5, <2>2, OffTheNodes DEF EnginePc, StageNode
    <3>2. /\ run'.status = "completed" => Gathered'
          /\ run'.status # "waiting_approval"
      BY <1>0, <1>1, <2>1, <3>1, CollectedStays DEF Same, Unresumed, CollectInv, Gathered, Collected
    <3>3. CASE ~Owing
      BY <1>0, <1>1, <2>1, <3>2, <3>3, RoundGathers, ExecSteps
    <3>4. CASE Owing
      <4>1. (Collected(run.round - 1))'
        BY <1>2, <2>1, <3>4 DEF Collected, DoneUnit
      <4>2. CASE pc["exec"] = "evidence"
        <5>1. UnitsAt("evidence", m) # {}
          BY DEF UnitsAt
        <5>2. Launch("exec")
          BY <4>2, <5>1 DEF Drive, Enter, Skip, Join, Deepen, Pause, PauseSave, Finalize, Announce
        <5>3. \/ pc'["exec"] = "raised"
              \/ pc'["exec"] = "await" /\ node' = [node EXCEPT !["exec"] = "evidence"]
          BY <1>0, <4>2, <5>2 DEF Launch, Save, Goto
        <5>4. NodeOf("exec")' \in {"evidence", "raised"}
          BY <1>0, <5>3 DEF NodeOf
        <5>5. QED
          BY <1>0, <1>1, <3>2, <4>1, <5>4, ExecSteps
      <4>3. CASE pc["exec"] = "await" /\ node["exec"] = "evidence"
        <5>1. Join("exec")
          BY <4>3 DEF Drive, Enter, Skip, Launch, Deepen, Pause, PauseSave, Finalize, Announce,
             StageNode
        <5>2. pc'["exec"] = "raised" \/ Gathered'
          BY <1>2, <3>4, <4>3, <5>1, EvidenceJoined
        <5>3. Owing' => NodeOf("exec")' = "raised"
          BY <5>2 DEF Owing, NodeOf
        <5>4. QED
          BY <1>0, <1>1, <3>2, <4>1, <5>3, ExecSteps
      <4>4. QED
        BY <1>2, <3>4, <4>2, <4>3 DEF NodeOf
    <3>5. QED
      BY <3>3, <3>4
  <2>3. CASE pc["exec"] \in {"pause_save", "finalize"}
    <3>1. ~Owing
      BY <1>2, <2>3 DEF NodeOf
    <3>2. ~Owing' /\ (run'.status = "completed" => Gathered')
      BY <2>1, <3>1, RoundGathers
    <3>3. CASE pc["exec"] = "pause_save"
      <4>1. PauseSave("exec")
        BY <3>3 DEF Drive, Enter, Skip, Launch, Join, Deepen, Pause, Finalize, Announce, StageNode
      <4>2. pc'["exec"] \in {"return", "raised"}
        BY <1>0, <4>1 DEF PauseSave, Save, Goto
      <4>3. QED
        BY <1>0, <3>2, <4>2, ExecSteps DEF EnginePc, StageNode
    <3>4. CASE pc["exec"] = "finalize"
      <4> DEFINE s == IF m.engine = "langgraph" /\ m.status # "running" THEN m.status
                      ELSE Verdict(m)
                 n == [m EXCEPT !.status = s, !.result = @ \/ HasMerge(m)]
      <4>1. Save("exec", n, "announce")
        BY <3>4 DEF Drive, Enter, Skip, Launch, Join, Deepen, Pause, PauseSave, Finalize, Announce,
           StageNode
      <4>2. s \in {m.status} \cup Terminal
        <5>1. Verdict(m) \in Terminal
          BY VerdictIsTerminal DEF Verdict, HasMerge
        <5>2. QED
          BY <5>1
      <4> HIDE DEF s
      <4>3. Bump(n).status = s
        BY <1>0 DEF Bump, Row
      <4> HIDE DEF n
      <4>4. run'.status \in {run.status} \cup Terminal
        BY <1>0, <4>1, <4>2, <4>3 DEF Save, Fresh, CopiesAreTheRow
      <4>5. run'.status # "waiting_approval"
        BY <1>1, <4>4 DEF Unresumed, Terminal
      <4>6. QED
        BY <1>0, <1>1, <3>2, <4>5, ExecSteps
    <3>5. QED
      BY <2>3, <3>3, <3>4
  <2>4. QED
    BY <2>2, <2>3
<1>6. QED
  BY <1>4, <1>5 DEF Drive, Enter, Skip, Launch, Join, Pause, PauseSave, Finalize, Announce, StageNode

(* Execute begins with nothing owed, and fails a run that it cannot serve.  *)
LEMMA ExecGathers ==
  ASSUME Known, Onward, [Next]_vars, UNCHANGED compatible, run.done \subseteq run'.done,
         Settle \/ Fail \/ Block("exec") \/ Note("exec") \/ Execute
  PROVE  CollectInv'
<1>0. /\ "exec" \in Task /\ "exec" \in Driver /\ run \in Row /\ Advances("exec")
      /\ IInv /\ CopiesAreTheRow /\ CollectInv /\ Calm /\ compatible
      /\ pc \in [Task -> Pc] /\ mem \in [Task -> Row]
  BY DriverParts, DriversAreTasks, ExecAdvances, BlockAdvances, NoteAdvances DEF Known, CollectInv
<1>1. run'.round = run.round
  <2>1. \A t \in Driver : pc'[t] # pc[t] => t = "exec"
    BY <1>0, KindsOfTasks DEF Advances
  <2>2. pc["exec"] # "deepen"
    BY DEF Settle, Fail, Block, Note, Execute, Driver
  <2>3. QED
    BY <1>0, <2>1, <2>2, OffTheNodes
<1>2. CASE Execute
  <2>1. /\ \A t \in Driver : pc[t] = "idle"
        /\ UNCHANGED run /\ run.status \in {"queued", "running"}
    BY <1>2 DEF Execute
  <2>2. ~Owing /\ Unresumed
    BY <1>0, <2>1, KindsOfTasks DEF CollectInv, NodeOf, Unresumed
  <2>3. QED
    BY <1>0, <1>1, <2>1, <2>2, RoundGathers, ExecSteps
<1>3. ASSUME NEW p, Goto("exec", p), p \notin EnginePc,
             ~Owing \/ run'.status \in {"blocked", "failed"}
      PROVE  CollectInv'
  <2>1. pc'["exec"] \notin EnginePc
    BY <1>0, <1>3 DEF Goto
  <2>2. ~Owing' /\ (run'.status = "completed" => Gathered')
    BY <1>1, <1>3, RoundGathers DEF Owing, Terminal
  <2>3. QED
    BY <1>0, <2>1, <2>2, ExecSteps
<1>4. CASE Settle
  <2>1. ~Owing
    BY <1>0, <1>4 DEF Settle, CollectInv, NodeOf
  <2>2. QED
    BY <1>3, <1>4, <2>1 DEF Settle, Answer, EnginePc, StageNode
<1>5. CASE Fail
  <2>1. CASE Answer("exec") /\ UNCHANGED run
    <3>1. run.status \in Terminal \/ Rivals("exec")
      BY <1>0, <1>5, <2>1 DEF Fail, Answer, Goto
    <3>2. Rivals("exec") => ~Unresumed
      BY <1>0, KindsOfTasks DEF Rivals, InThread, Driver, Calm, Unresumed
    <3>3. ~Owing
      BY <1>0, <3>1, <3>2 DEF CollectInv, Owing
    <3>4. QED
      BY <1>3, <2>1, <3>3 DEF Answer, EnginePc, StageNode
  <2>2. CASE ~(Answer("exec") /\ UNCHANGED run)
    <3>1. \A s : Bump([run EXCEPT !.status = s]).status = s
      BY <1>0 DEF Bump, Row
    <3>2. run'.status \in {"blocked", "failed"} /\ Goto("exec", "fail_note")
      BY <1>5, <2>2, <3>1 DEF Fail
    <3>3. QED
      BY <1>3, <3>2 DEF EnginePc, StageNode
  <2>3. QED
    BY <2>1, <2>2
<1>6. CASE Block("exec") \/ Note("exec")
  <2>1. pc["exec"] \in {"incompatible", "fail_note", "c_note", "e_note"}
    BY <1>6 DEF Block, Note
  <2>2. ~Owing
    BY <1>0, <2>1 DEF CollectInv, NodeOf
  <2>3. \E p \in {"idle", "raised", "fail_note"} : Goto("exec", p)
    BY <1>6 DEF Block, Note, Answer, Save
  <2>4. QED
    BY <1>3, <2>2, <2>3 DEF EnginePc, StageNode
<1>7. QED
  BY <1>2, <1>4, <1>5, <1>6

LEMMA CollectStep ==
  ASSUME Known, [Next]_vars
  PROVE  CollectInv'
<1> SUFFICES ASSUME Calm'
             PROVE  CollectInv'
  BY DEF CollectInv
<1>0. /\ IInv /\ CopiesAreTheRow /\ VerdictInv /\ Onward /\ Shape /\ run' \in Row
      /\ ~Crash /\ ~Takeover /\ UNCHANGED compatible /\ run.done \subseteq run'.done
  <2>1. Shape /\ Onward /\ run.done \subseteq run'.done
    BY StepIsOnward, StepShape, RowFollows DEF Known, Keeps
  <2>2. QED
    BY <2>1, CalmBefore DEF Known, Shape, IInv, TypeOK
<1>1. CASE ExecStep \/ Execute
  BY <1>0, <1>1, DriveGathers, ExecGathers DEF ExecStep
<1>2. ASSUME NEW r \in Resumer, ResumeStep(r) \/ Resume(r)
      PROVE  CollectInv'
  BY <1>0, <1>2, ResumeGathers
<1>3. ASSUME NEW c \in Canceller, CancelStep(c) \/ Cancel(c)
      PROVE  CollectInv'
  BY <1>0, <1>3, CancelGathers
<1>4. ASSUME NEW t \in Driver, GraphFails(t)
      PROVE  CollectInv'
  BY <1>0, <1>4, KindsOfTasks, AsideGathers DEF GraphFails, durable
<1>5. ASSUME NEW c \in DOMAIN call, CallStep(c) \/ Raise(c)
      PROVE  CollectInv'
  <2>1. c[1] \in Task /\ InOrder(c[1])
    BY <1>0, TypeParts, CallsOfTasks DEF IInv, VerdictInv
  <2>2. c[3] => pc[c[1]] = "await"
    BY <2>1 DEF InOrder, Awaited
  <2>3. UNCHANGED <<run, mem, node>> /\ (UNCHANGED pc \/ (Goto(c[1], "raised") /\ c[3]))
    BY <1>5 DEF CallStep, Reserve, Complete, ForgetOrphan, Raise, Break, durable
  <2>4. QED
    BY <1>0, <2>1, <2>2, <2>3, AsideGathers DEF EnginePc
<1>6. CASE Lapse \/ UNCHANGED vars
  <2>1. UNCHANGED <<run, pc, mem, node>> /\ "exec" \in Task
    BY <1>6 DEF Lapse, durable, vars, Task
  <2>2. QED
    BY <1>0, <2>1, AsideGathers
<1>7. QED
  BY <1>0, <1>1, <1>2, <1>3, <1>4, <1>5, <1>6 DEF Next, Program, World

(* Evidence that the critic asked for is in the row before the run is       *)
(* completed, in every round the limit allows, whatever is cancelled,       *)
(* failed or reviewed meanwhile, unless a restart or a takeover came in     *)
(* between (manual.py, the critic loop of run; langgraph_engine.py,        *)
(* _critic_node and _critic_route).                                        *)
THEOREM EvidenceCollected == Spec => []UninterruptedEvidenceCollected
<1>1. Init => VerdictInv /\ EndsAgree /\ StreamInv /\ ReviewInv
  <2>1. Init => run = NewRow /\ \A t \in Task : /\ mem[t] = NoCopy /\ pc[t] = "idle"
                                                /\ Awaited(t) = {}
    BY DEF Init, Awaited
  <2>2. Init => VerdictInv
    BY <2>1, NewRowsWhole DEF VerdictInv, InOrder, NodeOf, AfterSurvey, AfterFanOut, BusyPc,
       EnginePc, StageNode
  <2>3. Init => EndsAgree /\ StreamInv
    BY KindsOfTasks DEF Init, EndsAgree, NoCopy, NewRow, Terminal, StreamInv, StandsRight, Owes,
       EventsAgree, OneDebtor, AloneCancels, BusyPc, EnginePc, StageNode, NotePc
  <2>4. Init => ReviewInv
    BY DEF Init, ReviewInv, Reviewed, NoCopy, NewRow, AtReview, Fresh
  <2>5. QED
    BY <2>2, <2>3, <2>4
<1>2. Init => (FirstEngine = "manual" => OneReviewInv) /\ GraphKeeps /\ EngineFirst
  <2>1. Init => (FirstEngine = "manual" => OneReviewInv)
    BY NewRowsUndecided DEF Init, OneReviewInv, ReviewsOnce, AsksReview, ResultsAsk,
       AsksWithMerge, NoResult, Returned
  <2>2. Init => GraphKeeps /\ EngineFirst
    BY DEF Init, GraphKeeps, GraphAlone, EngineFirst, NoCopy, NewRow
  <2>3. QED
    BY <2>1, <2>2
<1>3. Init => CollectInv
  <2>1. Init => Gathered /\ run.status = "queued"
    BY DEF Init, NewRow, Gathered, Collected
  <2>2. Init => compatible /\ pc["exec"] \notin EnginePc
                /\ \A r \in Resumer : AsksNoMore(r)
    BY KindsOfTasks DEF Init, AsksNoMore, EnginePc, StageNode, Task
  <2>3. QED
    BY <2>1, <2>2 DEF CollectInv, Owing
<1> DEFINE EInv == /\ EndsAgree /\ StreamInv /\ VerdictInv /\ ReviewInv
                   /\ FirstEngine = "manual" => OneReviewInv
                   /\ GraphKeeps /\ EngineFirst /\ CollectInv
<1>4. IInv /\ CopiesAreTheRow /\ EInv /\ [Next]_vars => EInv'
  <2> SUFFICES ASSUME IInv, CopiesAreTheRow, EInv, [Next]_vars
               PROVE  EInv'
    OBVIOUS
  <2>1. EndsAgree' /\ StreamInv' /\ VerdictInv'
    BY StepIsOnward, EndsAgreeStep, StreamStep, VerdictStep
  <2>2. ReviewInv' /\ GraphKeeps' /\ EngineFirst'
    BY LifeStep, GraphKeepsStep, EngineFirstStep
  <2>3. FirstEngine = "manual" => OneReviewInv'
    BY OneReviewStep
  <2>4. CollectInv'
    <3>1. Calm' => Calm
      BY CalmBefore
    <3>2. Calm => CollectInv'
      BY CollectStep DEF Known
    <3>3. QED
      BY <3>1, <3>2 DEF CollectInv
  <2>5. QED
    BY <2>1, <2>2, <2>3, <2>4
<1>5. Init => EInv
  BY <1>1, <1>2, <1>3
<1>6. EInv => UninterruptedEvidenceCollected
  BY DEF CollectInv, Calm, Gathered, Collected, UninterruptedEvidenceCollected,
     RequestedEvidenceCollected
<1> HIDE DEF EInv
<1>7. QED
  BY <1>4, <1>5, <1>6, TypeIsInvariant, CopiesCorrect, PTL DEF Spec
=============================================================================
