------------------------ MODULE RecoveryRunTheorems ------------------------
(***************************************************************************)
(* The steps of the run service, and the theorems about a whole recovery   *)
(* run they lead to, for every value of the constants: any number of       *)
(* requests, crashes and evidence rounds, either engine, one event loop or *)
(* several processes.                                                      *)
(***************************************************************************)
EXTENDS RecoveryRunProofs

(* A task reads the row. *)
LEMMA LoadShape ==
  ASSUME TasksOK, DeepensInBounds, NEW t \in Task, NEW p \in Pc \ {"deepen"},
         mem' = [mem EXCEPT ![t] = run], Goto(t, p), UNCHANGED <<run, why>>
  PROVE  TasksOK' /\ DeepensInBounds' /\ RowStep /\ CopyStep
  BY DEF TasksOK, DeepensInBounds, Goto, RowStep, CopyStep

(* A request is answered. *)
LEMMA AnswerShape ==
  ASSUME TasksOK, DeepensInBounds, NEW t \in Task, Answer(t), UNCHANGED run
  PROVE  TasksOK' /\ DeepensInBounds' /\ RowStep /\ CopyStep
  BY NoCopyIsRow DEF TasksOK, DeepensInBounds, Goto, RowStep, CopyStep, Answer, Pc

(* A task replaces the row it has just read and keeps the copy. *)
LEMMA ReplaceShape ==
  ASSUME TasksOK, DeepensInBounds, NEW t \in Task, NEW p \in Pc \ {"deepen"},
         NEW n \in Row, n.version = run.version, Keeps(run, n),
         CanMove(run.status, n.status),
         run' = Bump(n), mem' = [mem EXCEPT ![t] = run'], Goto(t, p),
         why' \in [Task -> {"none", "lock", "infra", "other"}]
  PROVE  TasksOK' /\ DeepensInBounds' /\ RowStep /\ CopyStep
<1>1. run \in Row  BY DEF TasksOK
<1>2. Bump(n) \in Row /\ Bump(n).version = run.version + 1
      /\ Bump(n).status = n.status /\ Keeps(run, Bump(n))
  BY <1>1, BumpIsRow
<1>3. TasksOK' /\ DeepensInBounds'
  BY <1>2 DEF TasksOK, DeepensInBounds, Goto
<1>4. RowStep  BY <1>2 DEF RowStep
<1>5. CopyStep  BY DEF CopyStep, TasksOK
<1> QED  BY <1>3, <1>4, <1>5

-----------------------------------------------------------------------------
(* execute *)

LEMMA ExecuteShape ==
  ASSUME IInv, Execute
  PROVE  Shape
<1>0. TasksOK /\ DeepensInBounds /\ "exec" \in Task /\ RestOK
  BY TypeParts, DriversAreTasks DEF IInv
<1>1. TasksOK' /\ DeepensInBounds' /\ RowStep /\ CopyStep
  BY <1>0, LoadShape DEF Execute, Load, Pc, EnginePc
<1>2. RestOK'  BY <1>0 DEF Execute, RestOK, engines
<1> QED  BY <1>1, <1>2, TypeParts DEF IInv, Shape, Execute, engines,
           CallsOK, ExecOK, NodesOK, ControlsOK

LEMMA SettleShape ==
  ASSUME IInv, Settle
  PROVE  Shape
<1>0. TasksOK /\ DeepensInBounds /\ "exec" \in Task
  BY TypeParts, DriversAreTasks DEF IInv
<1>1. TasksOK' /\ DeepensInBounds' /\ RowStep /\ CopyStep
  <2>1. CASE Goto("exec", "raised") /\ why' = [why EXCEPT !["exec"] = "infra"]
             /\ UNCHANGED mem
    BY <1>0, <2>1, MoveShape DEF Settle, TasksOK, Pc
  <2>2. CASE Answer("exec")  BY <1>0, <2>2, AnswerShape DEF Settle
  <2> QED  BY <2>1, <2>2 DEF Settle
<1> QED  BY <1>1, TypeParts DEF IInv, Shape, Settle, quiet, engines, bounded,
           CallsOK, ExecOK, NodesOK, ControlsOK, RestOK

LEMMA TakeoverShape ==
  ASSUME IInv, Takeover
  PROVE  Shape
<1> DEFINE n == [run EXCEPT !.engine = "manual", !.fallbacks = @ + 1]
<1>0. TasksOK /\ DeepensInBounds /\ "exec" \in Task /\ run \in Row
  BY TypeParts, DriversAreTasks DEF IInv, TasksOK
<1>1. n \in Row
  <2>1. run.fallbacks + 1 \in Nat /\ "manual" \in Engine  BY <1>0 DEF Row, Engine
  <2> QED  BY <1>0, <2>1 DEF Row
<1>2. n.version = run.version /\ Keeps(run, n) /\ CanMove(run.status, n.status)
  BY <1>0, <1>1 DEF Row, Keeps, CanMove
<1>3. TasksOK' /\ DeepensInBounds' /\ RowStep /\ CopyStep
  <2>1. run' = Bump(n) /\ mem' = [mem EXCEPT !["exec"] = run'] /\ Goto("exec", "enter")
        /\ why' \in [Task -> {"none", "lock", "infra", "other"}]
    BY <1>0 DEF Takeover, TasksOK
  <2> HIDE DEF n
  <2> QED  BY <1>0, <1>1, <1>2, <2>1, ReplaceShape DEF Pc, EnginePc
<1> QED  BY <1>3, TypeParts DEF IInv, Shape, Takeover, engines, bounded,
           CallsOK, ExecOK, NodesOK, ControlsOK, RestOK

LEMMA FailShape ==
  ASSUME IInv, Fail
  PROVE  Shape
<1> DEFINE s == IF run.status = "waiting_approval" THEN "blocked" ELSE "failed"
           n == [run EXCEPT !.status = s]
<1>0. TasksOK /\ DeepensInBounds /\ "exec" \in Task /\ run \in Row
  BY TypeParts, DriversAreTasks DEF IInv, TasksOK
<1>1. CASE Answer("exec") /\ UNCHANGED run
  <2>1. TasksOK' /\ DeepensInBounds' /\ RowStep /\ CopyStep
    BY <1>0, <1>1, AnswerShape
  <2> QED  BY <2>1, TypeParts DEF IInv, Shape, Fail, quiet, engines, bounded,
             CallsOK, ExecOK, NodesOK, ControlsOK, RestOK
<1>2. CASE run.status \notin Terminal /\ run' = Bump(n)
           /\ mem' = [mem EXCEPT !["exec"] = run'] /\ Goto("exec", "fail_note")
           /\ UNCHANGED why
  <2>1. n \in Row /\ n.version = run.version /\ Keeps(run, n)
    <3>1. s \in Status  BY DEF Status, Terminal
    <3> HIDE DEF s
    <3> QED  BY <1>0, <3>1, RowUpdates DEF Follows
  <2>2. CanMove(run.status, n.status)
    BY <1>0, <1>2, <2>1 DEF Row, CanMove, Allowed, Status, Terminal
  <2>3. TasksOK' /\ DeepensInBounds' /\ RowStep /\ CopyStep
    <3> HIDE DEF n
    <3> QED  BY <1>0, <1>2, <2>1, <2>2, ReplaceShape DEF TasksOK, Pc
  <2> QED  BY <2>3, TypeParts DEF IInv, Shape, Fail, quiet, engines, bounded,
             CallsOK, ExecOK, NodesOK, ControlsOK, RestOK
<1> QED  BY <1>1, <1>2 DEF Fail

LEMMA BlockShape ==
  ASSUME IInv, NEW t \in Task, Block(t)
  PROVE  Shape
<1>0. TasksOK /\ DeepensInBounds /\ mem[t] \in Row
  BY TypeParts DEF IInv, TasksOK
<1>1. TasksOK' /\ DeepensInBounds' /\ RowStep /\ CopyStep
  <2>1. CASE Answer(t) /\ UNCHANGED run  BY <1>0, <2>1, AnswerShape
  <2>2. CASE Save(t, [mem[t] EXCEPT !.status = "blocked"], "fail_note")
    <3>1. Follows(mem[t], [mem[t] EXCEPT !.status = "blocked"])
      BY <1>0, RowUpdates DEF Status, Terminal
    <3> QED  BY <1>0, <2>2, <3>1, SaveShape DEF Follows, Pc
  <2> QED  BY <2>1, <2>2 DEF Block
<1> QED  BY <1>1, TypeParts DEF IInv, Shape, Block, quiet, engines, bounded,
           CallsOK, ExecOK, NodesOK, ControlsOK, RestOK

LEMMA NoteShape ==
  ASSUME IInv, NEW t \in Task, Note(t)
  PROVE  Shape
<1>0. TasksOK /\ DeepensInBounds /\ mem[t] \in Row /\ run \in Row /\ RestOK
  BY TypeParts DEF IInv, TasksOK
<1>1. TasksOK' /\ DeepensInBounds'
  BY <1>0, NoCopyIsRow, BumpIsRow
     DEF Note, Answer, Goto, TasksOK, DeepensInBounds, Pc
<1>2. RowStep
  <2>1. CASE Fresh(t)
    <3>1. mem[t] \in {mem[x] : x \in {y \in Task : Fresh(y)}}  BY <2>1
    <3>2. run' = Bump(mem[t])  BY <2>1 DEF Note
    <3> QED  BY <1>0, <2>1, <3>1, <3>2, BumpIsRow DEF RowStep, Fresh
  <2>2. CASE ~Fresh(t)  BY <2>2 DEF Note, RowStep
  <2> QED  BY <2>1, <2>2
<1>3. CopyStep  BY <1>0 DEF CopyStep, Note, Answer, TasksOK
<1>4. RestOK'
  <2>1. mem[t].status \in Status  BY <1>0 DEF Row
  <2> QED  BY <1>0, <2>1 DEF Note, RestOK, quiet, engines, bounded
<1> QED  BY <1>1, <1>2, <1>3, <1>4, TypeParts DEF IInv, Shape, Note, quiet, engines,
           CallsOK, ExecOK, NodesOK, ControlsOK

LEMMA ReportShape ==
  ASSUME IInv, NEW t \in Task, Report(t)
  PROVE  Shape
<1>1. TasksOK' /\ DeepensInBounds' /\ RowStep /\ CopyStep
  BY TypeParts, AnswerShape DEF IInv, Report
<1> QED  BY <1>1, TypeParts DEF IInv, Shape, Report, quiet, engines, bounded,
           CallsOK, ExecOK, NodesOK, ControlsOK, RestOK

-----------------------------------------------------------------------------
(* resume *)

LEMMA ResumeShape ==
  ASSUME IInv, NEW r \in Resumer, Resume(r)
  PROVE  Shape
<1>0. TasksOK /\ DeepensInBounds /\ r \in Task /\ ControlsOK /\ RestOK
  BY TypeParts, DriversAreTasks DEF IInv
<1>1. TasksOK' /\ DeepensInBounds' /\ RowStep /\ CopyStep
  <2>1. CASE UNCHANGED <<mem, pc>>  BY <1>0, <2>1, AsideShape DEF Resume
  <2>2. CASE Load(r) /\ Goto(r, "incompatible")
    BY <1>0, <2>2, LoadShape DEF Resume, Load, Pc
  <2>3. CASE Load(r) /\ Goto(r, IF lapsed THEN "e_save" ELSE "r_ctl")
    BY <1>0, <2>3, LoadShape DEF Resume, Load, Pc
  <2> QED  BY <2>1, <2>2, <2>3 DEF Resume
<1>2. ControlsOK'  BY <1>0 DEF Resume, ControlsOK
<1>3. RestOK'  BY <1>0 DEF Resume, Tried, RestOK, engines
<1> QED  BY <1>1, <1>2, <1>3, TypeParts DEF IInv, Shape, Resume, engines,
           CallsOK, ExecOK, NodesOK

LEMMA ResumeControlShape ==
  ASSUME IInv, NEW r \in Resumer, ResumeControl(r)
  PROVE  Shape
<1>0. TasksOK /\ DeepensInBounds /\ r \in Task /\ ControlsOK
  BY TypeParts, DriversAreTasks DEF IInv
<1>1. TasksOK' /\ DeepensInBounds' /\ RowStep /\ CopyStep
  BY <1>0, MoveShape DEF ResumeControl, TasksOK, Pc
<1>2. ControlsOK'  BY <1>0 DEF ResumeControl, ControlsOK
<1> QED  BY <1>1, <1>2, TypeParts DEF IInv, Shape, ResumeControl, quiet, engines,
           bounded, CallsOK, ExecOK, NodesOK, RestOK

LEMMA ResolveInterruptShape ==
  ASSUME IInv, NEW r \in Resumer, ResolveInterrupt(r)
  PROVE  Shape
<1>0. TasksOK /\ DeepensInBounds /\ r \in Task /\ ControlsOK
  BY TypeParts, DriversAreTasks DEF IInv
<1>1. TasksOK' /\ DeepensInBounds' /\ RowStep /\ CopyStep
  BY <1>0, MoveShape DEF ResolveInterrupt, TasksOK, Pc
<1>2. ControlsOK'  BY <1>0 DEF ResolveInterrupt, ControlsOK
<1> QED  BY <1>1, <1>2, TypeParts DEF IInv, Shape, ResolveInterrupt, quiet, engines,
           bounded, CallsOK, ExecOK, NodesOK, RestOK

LEMMA ReplayInterruptShape ==
  ASSUME IInv, NEW r \in Resumer, ReplayInterrupt(r)
  PROVE  Shape
<1>1. TasksOK' /\ DeepensInBounds' /\ RowStep /\ CopyStep
  BY TypeParts, DriversAreTasks, LoadShape DEF IInv, ReplayInterrupt, Load, Pc
<1> QED  BY <1>1, TypeParts DEF IInv, Shape, ReplayInterrupt, quiet, engines,
           bounded, CallsOK, ExecOK, NodesOK, ControlsOK, RestOK

LEMMA PauseAgainShape ==
  ASSUME IInv, NEW r \in Resumer, PauseAgain(r)
  PROVE  Shape
<1>0. TasksOK /\ DeepensInBounds /\ r \in Task /\ mem[r] \in Row
  BY TypeParts, DriversAreTasks DEF IInv, TasksOK
<1>1. Follows(mem[r], [mem[r] EXCEPT !.status = "waiting_approval", !.interrupt = TRUE])
  BY <1>0, RowUpdates DEF Status
<1>2. TasksOK' /\ DeepensInBounds' /\ RowStep /\ CopyStep
  BY <1>0, <1>1, SaveShape DEF PauseAgain, Follows, Pc
<1> QED  BY <1>2, TypeParts DEF IInv, Shape, PauseAgain, quiet, engines, bounded,
           CallsOK, ExecOK, NodesOK, ControlsOK, RestOK

LEMMA StoreDecisionShape ==
  ASSUME IInv, NEW r \in Resumer, StoreDecision(r)
  PROVE  Shape
<1>0. TasksOK /\ DeepensInBounds /\ r \in Task /\ ControlsOK
  BY TypeParts, DriversAreTasks DEF IInv
<1>1. TasksOK' /\ DeepensInBounds' /\ RowStep /\ CopyStep
  BY <1>0, MoveShape DEF StoreDecision, TasksOK, Pc
<1>2. ControlsOK'  BY <1>0 DEF StoreDecision, ControlsOK
<1> QED  BY <1>1, <1>2, TypeParts DEF IInv, Shape, StoreDecision, quiet, engines,
           bounded, CallsOK, ExecOK, NodesOK, RestOK

LEMMA TakeDecisionShape ==
  ASSUME IInv, NEW r \in Resumer, TakeDecision(r)
  PROVE  Shape
<1> DEFINE n == [mem[r] EXCEPT !.status = "running", !.interrupt = FALSE,
                               !.decisions = @ \cup {r}]
<1>0. TasksOK /\ DeepensInBounds /\ r \in Task /\ mem[r] \in Row
  BY TypeParts, DriversAreTasks DEF IInv, TasksOK
<1>1. Follows(mem[r], n)  BY <1>0, RowUpdates DEF Status
<1>2. TasksOK' /\ DeepensInBounds' /\ RowStep /\ CopyStep
  <2>1. Save(r, n, IF mem[r].engine = "langgraph" THEN "consolidate" ELSE "enter")
    BY DEF TakeDecision
  <2> HIDE DEF n
  <2> QED  BY <1>0, <1>1, <2>1, SaveShape DEF Follows, Pc, EnginePc, StageNode
<1> QED  BY <1>2, TypeParts DEF IInv, Shape, TakeDecision, quiet, engines, bounded,
           CallsOK, ExecOK, NodesOK, ControlsOK, RestOK

LEMMA BackShape ==
  ASSUME IInv, NEW r \in Resumer, Back(r)
  PROVE  Shape
<1>1. TasksOK' /\ DeepensInBounds' /\ RowStep /\ CopyStep
  BY TypeParts, DriversAreTasks, MoveShape DEF IInv, Back, TasksOK, Pc
<1> QED  BY <1>1, TypeParts DEF IInv, Shape, Back, quiet, engines, bounded,
           CallsOK, ExecOK, NodesOK, ControlsOK, RestOK

LEMMA AckResumeShape ==
  ASSUME IInv, NEW r \in Resumer, AckResume(r)
  PROVE  Shape
<1>0. TasksOK /\ DeepensInBounds /\ r \in Task /\ ControlsOK
  BY TypeParts, DriversAreTasks DEF IInv
<1>1. TasksOK' /\ DeepensInBounds' /\ RowStep /\ CopyStep
  BY <1>0, AnswerShape DEF AckResume
<1>2. ControlsOK'  BY <1>0 DEF AckResume, ControlsOK
<1> QED  BY <1>1, <1>2, TypeParts DEF IInv, Shape, AckResume, quiet, engines,
           bounded, CallsOK, ExecOK, NodesOK, RestOK

LEMMA ExpireShape ==
  ASSUME IInv, NEW r \in Resumer, Expire(r)
  PROVE  Shape
<1>0. TasksOK /\ DeepensInBounds /\ r \in Task /\ mem[r] \in Row
  BY TypeParts, DriversAreTasks DEF IInv, TasksOK
<1>1. Follows(mem[r], [mem[r] EXCEPT !.status = "expired"])
  BY <1>0, RowUpdates DEF Status, Terminal
<1>2. TasksOK' /\ DeepensInBounds' /\ RowStep /\ CopyStep
  BY <1>0, <1>1, SaveShape DEF Expire, Follows, Pc
<1> QED  BY <1>2, TypeParts DEF IInv, Shape, Expire, quiet, engines, bounded,
           CallsOK, ExecOK, NodesOK, ControlsOK, RestOK

LEMMA ExpireInterruptShape ==
  ASSUME IInv, NEW r \in Resumer, ExpireInterrupt(r)
  PROVE  Shape
<1>0. TasksOK /\ DeepensInBounds /\ r \in Task /\ ControlsOK
  BY TypeParts, DriversAreTasks DEF IInv
<1>1. TasksOK' /\ DeepensInBounds' /\ RowStep /\ CopyStep
  BY <1>0, MoveShape DEF ExpireInterrupt, TasksOK, Pc
<1>2. ControlsOK'  BY <1>0 DEF ExpireInterrupt, ControlsOK
<1> QED  BY <1>1, <1>2, TypeParts DEF IInv, Shape, ExpireInterrupt, quiet, engines,
           bounded, CallsOK, ExecOK, NodesOK, RestOK

LEMMA ResumeStepShape ==
  ASSUME IInv, NEW r \in Resumer, ResumeStep(r)
  PROVE  Shape
  BY DriversAreTasks, DriveShape, BlockShape, NoteShape, ReportShape,
     ResumeControlShape, ResolveInterruptShape, ReplayInterruptShape, PauseAgainShape,
     StoreDecisionShape, TakeDecisionShape, BackShape, AckResumeShape, ExpireShape,
     ExpireInterruptShape DEF ResumeStep

-----------------------------------------------------------------------------
(* cancel *)

LEMMA CancelShape ==
  ASSUME IInv, NEW c \in Canceller, Cancel(c)
  PROVE  Shape
<1>0. TasksOK /\ DeepensInBounds /\ c \in Task /\ RestOK
  BY TypeParts, DriversAreTasks DEF IInv
<1>1. TasksOK' /\ DeepensInBounds' /\ RowStep /\ CopyStep
  BY <1>0, LoadShape DEF Cancel, Load, Pc
<1>2. RestOK'  BY <1>0 DEF Cancel, Tried, RestOK, engines
<1> QED  BY <1>1, <1>2, TypeParts DEF IInv, Shape, Cancel, engines,
           CallsOK, ExecOK, NodesOK, ControlsOK

LEMMA CancelControlShape ==
  ASSUME IInv, NEW c \in Canceller, CancelControl(c)
  PROVE  Shape
<1>0. TasksOK /\ DeepensInBounds /\ c \in Task /\ ControlsOK
  BY TypeParts, DriversAreTasks DEF IInv
<1>1. TasksOK' /\ DeepensInBounds' /\ RowStep /\ CopyStep
  <2>1. CASE Answer(c)  BY <1>0, <2>1, AnswerShape DEF CancelControl
  <2>2. CASE Goto(c, IF mem[c].status \in Terminal THEN "c_ack_terminal" ELSE "c_flag")
             /\ UNCHANGED <<mem, why>>
    BY <1>0, <2>2, MoveShape DEF CancelControl, TasksOK, Pc
  <2> QED  BY <2>1, <2>2 DEF CancelControl
<1>2. ControlsOK'  BY <1>0 DEF CancelControl, ControlsOK
<1> QED  BY <1>1, <1>2, TypeParts DEF IInv, Shape, CancelControl, quiet, engines,
           bounded, CallsOK, ExecOK, NodesOK, RestOK

LEMMA AckTerminalShape ==
  ASSUME IInv, NEW c \in Canceller, AckTerminal(c)
  PROVE  Shape
<1>0. TasksOK /\ DeepensInBounds /\ c \in Task /\ ControlsOK
  BY TypeParts, DriversAreTasks DEF IInv
<1>1. TasksOK' /\ DeepensInBounds' /\ RowStep /\ CopyStep
  BY <1>0, AnswerShape DEF AckTerminal
<1>2. ControlsOK'  BY <1>0 DEF AckTerminal, ControlsOK
<1> QED  BY <1>1, <1>2, TypeParts DEF IInv, Shape, AckTerminal, quiet, engines,
           bounded, CallsOK, ExecOK, NodesOK, RestOK

LEMMA FlagShape ==
  ASSUME IInv, NEW c \in Canceller, Flag(c)
  PROVE  Shape
<1>0. TasksOK /\ DeepensInBounds /\ c \in Task /\ mem[c] \in Row
  BY TypeParts, DriversAreTasks DEF IInv, TasksOK
<1>1. Follows(mem[c], [mem[c] EXCEPT !.cancelReq = TRUE])
  BY <1>0, RowUpdates DEF Status
<1>2. TasksOK' /\ DeepensInBounds' /\ RowStep /\ CopyStep
  BY <1>0, <1>1, SaveShape DEF Flag, Follows, Pc
<1> QED  BY <1>2, TypeParts DEF IInv, Shape, Flag, quiet, engines, bounded,
           CallsOK, ExecOK, NodesOK, ControlsOK, RestOK

LEMMA StopShape ==
  ASSUME IInv, NEW c \in Canceller, Stop(c)
  PROVE  Shape
<1>0. TasksOK /\ DeepensInBounds /\ c \in Task /\ RestOK
  BY TypeParts, DriversAreTasks DEF IInv
<1>1. TasksOK' /\ DeepensInBounds' /\ RowStep /\ CopyStep
  BY <1>0, LoadShape DEF Stop, Load, Pc
<1>2. RestOK'  BY <1>0 DEF Stop, RestOK, engines, bounded
<1> QED  BY <1>1, <1>2, TypeParts DEF IInv, Shape, Stop, engines,
           CallsOK, ExecOK, NodesOK, ControlsOK

LEMMA SaveCanceledShape ==
  ASSUME IInv, NEW c \in Canceller, SaveCanceled(c)
  PROVE  Shape
<1>0. TasksOK /\ DeepensInBounds /\ c \in Task /\ mem[c] \in Row
  BY TypeParts, DriversAreTasks DEF IInv, TasksOK
<1>1. TasksOK' /\ DeepensInBounds' /\ RowStep /\ CopyStep
  <2>1. CASE Load(c) /\ Goto(c, "c_ack") /\ UNCHANGED <<run, why>>
    BY <1>0, <2>1, LoadShape DEF Load, Pc
  <2>2. CASE Save(c, [mem[c] EXCEPT !.status = "canceled"], "c_ack")
    <3>1. Follows(mem[c], [mem[c] EXCEPT !.status = "canceled"])
      BY <1>0, RowUpdates DEF Status, Terminal
    <3> QED  BY <1>0, <2>2, <3>1, SaveShape DEF Follows, Pc
  <2> QED  BY <2>1, <2>2 DEF SaveCanceled
<1> QED  BY <1>1, TypeParts DEF IInv, Shape, SaveCanceled, quiet, engines, bounded,
           CallsOK, ExecOK, NodesOK, ControlsOK, RestOK

LEMMA AckCancelShape ==
  ASSUME IInv, NEW c \in Canceller, AckCancel(c)
  PROVE  Shape
<1>0. TasksOK /\ DeepensInBounds /\ c \in Task /\ ControlsOK
  BY TypeParts, DriversAreTasks DEF IInv
<1>1. TasksOK' /\ DeepensInBounds' /\ RowStep /\ CopyStep
  BY <1>0, MoveShape DEF AckCancel, TasksOK, Pc
<1>2. ControlsOK'  BY <1>0 DEF AckCancel, ControlsOK
<1> QED  BY <1>1, <1>2, TypeParts DEF IInv, Shape, AckCancel, quiet, engines,
           bounded, CallsOK, ExecOK, NodesOK, RestOK

LEMMA CancelStepShape ==
  ASSUME IInv, NEW c \in Canceller, CancelStep(c)
  PROVE  Shape
  BY DriversAreTasks, CancelControlShape, AckTerminalShape, FlagShape, StopShape,
     SaveCanceledShape, AckCancelShape, NoteShape, ReportShape DEF CancelStep

-----------------------------------------------------------------------------
(* The world, and every step *)

(* Dying tasks lose their copies, never the row. *)
LEMMA DiesShape ==
  ASSUME IInv, NEW T \in SUBSET Task, Dies(T)
  PROVE  Shape
<1>0. /\ TasksOK /\ DeepensInBounds /\ CallsOK /\ NodesOK /\ RestOK
  BY TypeParts DEF IInv
<1>1. TasksOK' /\ DeepensInBounds'
  BY <1>0, NoCopyIsRow DEF Dies, TasksOK, DeepensInBounds, Pc, durable
<1>2. RowStep /\ CopyStep  BY <1>0 DEF Dies, RowStep, CopyStep, TasksOK, durable
<1>3. CallsOK'  BY <1>0, WithoutKeepsCalls DEF Dies
<1>4. RestOK'
  <2>1. token' \in BOOLEAN /\ compatible' \in BOOLEAN  BY <1>0 DEF Dies, RestOK
  <2>2. crashes' \in Nat  BY <1>0 DEF Dies, RestOK
  <2>3. UNCHANGED <<log, lapsed, executes, tries, wins>>
    BY DEF Dies, durable
  <2> QED  BY <1>0, <2>1, <2>2, <2>3 DEF RestOK
<1> QED  BY <1>1, <1>2, <1>3, <1>4, TypeParts DEF IInv, Shape, Dies, durable,
           NodesOK, ExecOK, ControlsOK

LEMMA CrashShape ==
  ASSUME IInv, Crash
  PROVE  Shape
  BY DiesShape DEF Crash

LEMMA LapseShape ==
  ASSUME IInv, Lapse
  PROVE  Shape
<1>1. TasksOK' /\ DeepensInBounds' /\ RowStep /\ CopyStep
  BY TypeParts, AsideShape DEF IInv, Lapse, durable
<1> QED  BY <1>1, TypeParts DEF IInv, Shape, Lapse, durable, bounded,
           CallsOK, ExecOK, NodesOK, ControlsOK, RestOK

LEMMA StutterShape ==
  ASSUME IInv, UNCHANGED vars
  PROVE  Shape
<1>1. TasksOK' /\ DeepensInBounds' /\ RowStep /\ CopyStep
  BY TypeParts, AsideShape DEF IInv, vars
<1> QED  BY <1>1, TypeParts DEF IInv, Shape, vars,
           CallsOK, ExecOK, NodesOK, ControlsOK, RestOK

LEMMA StepShape ==
  ASSUME IInv, [Next]_vars
  PROVE  Shape
<1>1. CASE ExecStep
  BY <1>1, DriversAreTasks, DriveShape, SettleShape, TakeoverShape, FailShape,
     BlockShape, NoteShape DEF ExecStep, Task
<1>2. ASSUME NEW r \in Resumer, ResumeStep(r)  PROVE Shape
  BY <1>2, ResumeStepShape
<1>3. ASSUME NEW c \in Canceller, CancelStep(c)  PROVE Shape
  BY <1>3, CancelStepShape
<1>4. ASSUME NEW c \in DOMAIN call, CallStep(c)  PROVE Shape
  BY <1>4, ReserveShape, CompleteShape, ForgetOrphanShape DEF CallStep
<1>5. CASE World
  BY <1>5, ExecuteShape, ResumeShape, CancelShape, GraphFailsShape, RaiseShape,
     CrashShape, LapseShape DEF World
<1> QED  BY <1>1, <1>2, <1>3, <1>4, <1>5, StutterShape DEF Next, Program

LEMMA InitIsTyped ==
  ASSUME Init
  PROVE  IInv
<1>1. TasksOK  BY NoCopyIsRow DEF Init, TasksOK, Pc
<1>2. DeepensInBounds  BY DEF Init, DeepensInBounds
<1>3. CallsOK  BY DEF Init, CallsOK
<1>4. ExecOK
  <2>1. NoInput \in Input /\ NoResult \in Result
    BY DEF NoInput, Input, NoResult, Returned, Result, StageStatus
  <2> QED  BY <2>1 DEF Init, ExecOK
<1>5. NodesOK  BY DEF Init, NodesOK, StageNode
<1>6. ControlsOK  BY DEF Init, ControlsOK
<1>7. RestOK
  <2>1. log \in Seq(Status)  BY DEF Init
  <2>2. tries \in [Resumer \cup Canceller -> Nat] /\ wins \in [Unit -> Nat]
    BY DEF Init
  <2> QED  BY <2>1, <2>2 DEF Init, RestOK
<1> QED  BY <1>1, <1>2, <1>3, <1>4, <1>5, <1>6, <1>7, TypeParts DEF IInv

-----------------------------------------------------------------------------
(* The theorems *)

(* IInv is inductive. *)
LEMMA TypeIsInvariant == Spec => []IInv
<1>1. Init => IInv  BY InitIsTyped
<1>2. IInv /\ [Next]_vars => IInv'  BY StepShape DEF Shape
<1> QED  BY <1>1, <1>2, PTL DEF Spec

(* Every variable keeps to its domain: no status, unit, round or control    *)
(* outside the tables the code writes, and in particular the evidence round *)
(* never passes the critic's loop limit.                                   *)
THEOREM TypeCorrect == Spec => []TypeOK
<1>1. IInv => TypeOK  BY DEF IInv
<1> QED  BY <1>1, TypeIsInvariant, PTL

(* Locking: the row's version counts its writes from 1, NoCopy is older. *)
Locking == CopiesAreTheRow /\ run.version >= 1

LEMMA LockingStep ==
  ASSUME IInv, Locking, Shape
  PROVE  Locking'
<1>0. run \in Row /\ run' \in Row /\ mem \in [Task -> Row] /\ mem' \in [Task -> Row]
  BY DEF IInv, Shape, TypeOK
<1>1. run.version \in Nat /\ run'.version \in Nat
      /\ \A t \in Task : mem[t].version \in Nat
  BY <1>0 DEF Row
<1>2. run' = run \/ run'.version = run.version + 1
  BY DEF Shape, RowStep
<1>3. run'.version >= 1  BY <1>1, <1>2 DEF Locking
<1>4. ASSUME NEW t \in Task
      PROVE  /\ mem'[t].version <= run'.version
             /\ mem'[t].version = run'.version => mem'[t] = run'
  <2>1. CASE mem'[t] = run'  BY <1>1, <2>1
  <2>2. CASE mem'[t] = NoCopy  BY <1>1, <1>3, <2>2, NoCopyIsRow
  <2>3. CASE mem'[t] = mem[t]
    BY <1>1, <1>2, <2>3 DEF Locking, CopiesAreTheRow
  <2> QED  BY <2>1, <2>2, <2>3 DEF Shape, CopyStep
<1> QED  BY <1>3, <1>4 DEF Locking, CopiesAreTheRow

(* Optimistic locking works: whatever engine, request or failure handler    *)
(* writes, a copy with the row's version is the row.  So a save that passes *)
(* the version test of SQLiteRunRepository.save overwrites nothing unseen. *)
THEOREM CopiesCorrect == Spec => []CopiesAreTheRow
<1>1. Init => Locking
  BY NoCopyIsRow DEF Init, Locking, CopiesAreTheRow, NewRow
<1>2. IInv /\ Locking /\ [Next]_vars => Locking'
  BY StepShape, LockingStep
<1>3. Locking => CopiesAreTheRow  BY DEF Locking
<1> QED  BY <1>1, <1>2, <1>3, TypeIsInvariant, PTL DEF Spec

(* A step replaces the row by one that follows from the row itself. *)
LEMMA RowFollows ==
  ASSUME IInv, CopiesAreTheRow, Shape
  PROVE  /\ Keeps(run, run') /\ CanMove(run.status, run'.status)
         /\ run.version <= run'.version
<1>0. run \in Row /\ run.version \in Nat  BY DEF IInv, TypeOK, Row
<1>1. CASE run' = run
  BY <1>0, <1>1 DEF Keeps, CanMove, Row
<1>2. CASE run' # run
  <2>1. PICK m \in {run} \cup {mem[t] : t \in {x \in Task : Fresh(x)}} :
          Keeps(m, run') /\ CanMove(m.status, run'.status)
    BY <1>2 DEF Shape, RowStep
  <2>2. m = run  BY DEF CopiesAreTheRow, Fresh
  <2>3. run'.version = run.version + 1  BY <1>2 DEF Shape, RowStep
  <2> QED  BY <1>0, <2>1, <2>2, <2>3
<1> QED  BY <1>1, <1>2

(* No write loses what an earlier write recorded: a cancellation, a         *)
(* reviewer's decision, a finished unit, a takeover.                       *)
THEOREM NothingIsLost == Spec => NothingLost
<1>1. IInv /\ CopiesAreTheRow /\ [Next]_vars =>
        /\ run.cancelReq => run'.cancelReq
        /\ run.decisions \subseteq run'.decisions
        /\ run.done \subseteq run'.done
        /\ run.fallbacks <= run'.fallbacks
        /\ run.version <= run'.version
  BY StepShape, RowFollows DEF Keeps
<1> QED  BY <1>1, TypeIsInvariant, CopiesCorrect, PTL DEF Spec, NothingLost

(* The published status walks the status graph, and a terminal one is the   *)
(* last: a run that ended is never reopened, by no engine, reviewer, late   *)
(* stage, takeover or failure handler.                                     *)
THEOREM TerminalStays ==
  Spec => [][/\ CanMove(run.status, run'.status)
             /\ run.status \in Terminal => run'.status = run.status]_vars
<1>1. IInv /\ CopiesAreTheRow /\ [Next]_vars =>
        /\ CanMove(run.status, run'.status)
        /\ run.status \in Terminal => run'.status = run.status
  <2> SUFFICES ASSUME IInv, CopiesAreTheRow, [Next]_vars
               PROVE  /\ CanMove(run.status, run'.status)
                      /\ run.status \in Terminal => run'.status = run.status
    OBVIOUS
  <2>1. Shape /\ CanMove(run.status, run'.status)  BY StepShape, RowFollows
  <2>2. run'.status \in Status  BY <2>1 DEF Shape, IInv, TypeOK, Row
  <2> QED  BY <2>1, <2>2, TerminalIsFinal
<1> QED  BY <1>1, TypeIsInvariant, CopiesCorrect, PTL DEF Spec
-----------------------------------------------------------------------------
(* Replay: a recorded success is final                                     *)

(* A stage at work has an execution that is not a success; if that is still *)
(* the reservation, nobody else works on the unit.                         *)
OneRunner ==
  \A c \in DOMAIN call : call[c].st = "running" =>
    /\ exec[c[2]].st \notin Good \cup {"none"}
    /\ exec[c[2]].st = "running" =>
         \A d \in DOMAIN call : d[2] = c[2] /\ call[d].st = "running" => d = c

(* The status of a finished execution is the one of its stored result. *)
RecordsAgree ==
  \A u \in Unit : exec[u].st \in StageStatus => exec[u].res.status = exec[u].st

StagesOK == OneRunner /\ RecordsAgree

(* What SuccessIsReplayed asks of one step *)
Replayed ==
  \A u \in Unit : exec[u].st \in Good => wins'[u] = wins[u] /\ exec'[u] = exec[u]

(* A step that may only stop, drop or rename coroutines at work. *)
LEMMA FewerRunners ==
  ASSUME StagesOK, UNCHANGED exec, NEW f \in [DOMAIN call' -> DOMAIN call],
         \A d \in DOMAIN call' : call'[d].st = "running" =>
           call[f[d]].st = "running" /\ f[d][2] = d[2],
         \A d, e \in DOMAIN call' :
           call'[d].st = "running" /\ call'[e].st = "running" /\ f[d] = f[e] => d = e
  PROVE  StagesOK'
<1>1. OneRunner'
  <2> SUFFICES ASSUME NEW c \in DOMAIN call', call'[c].st = "running"
               PROVE  /\ exec[c[2]].st \notin Good \cup {"none"}
                      /\ exec[c[2]].st = "running" =>
                           \A d \in DOMAIN call' :
                             d[2] = c[2] /\ call'[d].st = "running" => d = c
    BY DEF OneRunner
  <2>1. f[c] \in DOMAIN call /\ call[f[c]].st = "running" /\ f[c][2] = c[2]
    OBVIOUS
  <2>2. exec[c[2]].st \notin Good \cup {"none"}
    BY <2>1 DEF StagesOK, OneRunner
  <2>3. ASSUME exec[c[2]].st = "running", NEW d \in DOMAIN call', d[2] = c[2],
               call'[d].st = "running"
        PROVE  d = c
    <3>1. f[d] \in DOMAIN call /\ call[f[d]].st = "running" /\ f[d][2] = c[2]
      BY <2>3
    <3>2. f[d] = f[c]  BY <2>1, <2>3, <3>1 DEF StagesOK, OneRunner
    <3> QED  BY <2>3, <3>2
  <2> QED  BY <2>2, <2>3
<1> QED  BY <1>1 DEF StagesOK, RecordsAgree

LEMMA StoppedRunners ==
  ASSUME StagesOK, UNCHANGED exec,
         \A d \in DOMAIN call' : call'[d].st = "running" =>
           d \in DOMAIN call /\ call[d].st = "running"
  PROVE  StagesOK'
  BY DEF StagesOK, OneRunner, RecordsAgree

LEMMA NothingRuns ==
  ASSUME StagesOK, UNCHANGED <<exec, call, wins>>
  PROVE  StagesOK' /\ Replayed
  BY DEF StagesOK, OneRunner, RecordsAgree, Replayed

LEMMA WithoutStages ==
  ASSUME StagesOK, NEW cs, call' = Without(cs), UNCHANGED <<exec, wins>>
  PROVE  StagesOK' /\ Replayed
  BY StoppedRunners DEF Without, Replayed

LEMMA LaunchStages ==
  ASSUME StagesOK, NEW t, Launch(t)
  PROVE  StagesOK' /\ Replayed
<1>1. UNCHANGED <<exec, wins>>  BY DEF Launch
<1>2. \A d \in DOMAIN call' : call'[d].st = "running" =>
        d \in DOMAIN call /\ call[d].st = "running"
  <2>1. CASE UNCHANGED call  BY <2>1
  <2>2. ASSUME NEW new, NEW fresh, fresh.st = "ready",
               call' = [c \in new \cup DOMAIN call |->
                          IF c \in new THEN fresh ELSE call[c]],
               NEW d \in DOMAIN call', call'[d].st = "running"
        PROVE  d \in DOMAIN call /\ call[d].st = "running"
    <3>1. d \in new \cup DOMAIN call  BY <2>2
    <3>2. call'[d] = IF d \in new THEN fresh ELSE call[d]  BY <2>2, <3>1
    <3> QED  BY <2>2, <3>1, <3>2
  <2>3. CASE pc'[t] = "await"
    <3> DEFINE m == mem[t]
               new == {t} \X UnitsAt(pc[t], m) \X {TRUE}
               fresh == [st |-> "ready", in |-> InputOf(m),
                         cancelled |-> m.cancelReq, res |-> NoResult]
    <3>1. call' = [c \in new \cup DOMAIN call |-> IF c \in new THEN fresh ELSE call[c]]
      BY <2>3 DEF Launch
    <3>2. fresh.st = "ready"  OBVIOUS
    <3> HIDE DEF new, fresh
    <3> QED  BY <2>2, <3>1, <3>2
  <2> QED  BY <2>1, <2>3 DEF Launch
<1> QED  BY <1>1, <1>2, StoppedRunners DEF Replayed

LEMMA ReserveStages ==
  ASSUME IInv, StagesOK, NEW c \in DOMAIN call, Reserve(c)
  PROVE  StagesOK' /\ Replayed
<1> DEFINE u == c[2]
<1>0. CallsOK /\ ExecOK /\ u \in Unit
  BY TypeParts, CallsOfTasks DEF IInv
<1>1. UNCHANGED wins  BY DEF Reserve
<1>2. CASE /\ exec[u].st = "none"
           /\ exec' = [exec EXCEPT ![u].st = "running", ![u].in = call[c].in]
           /\ call' = [call EXCEPT ![c].st = "running"]
  <2>1. \A d \in DOMAIN call : call[d].st = "running" => d[2] # u
    BY <1>2 DEF StagesOK, OneRunner
  <2>2. exec'[u].st = "running" /\ \A v \in Unit \ {u} : exec'[v] = exec[v]
    BY <1>0, <1>2 DEF ExecOK
  <2>3. \A d \in DOMAIN call' : /\ d \in DOMAIN call /\ d[2] \in Unit
                                /\ d # c => call'[d] = call[d]
    BY <1>0, <1>2, CallsOfTasks
  <2>4. OneRunner'
    <3> SUFFICES ASSUME NEW d \in DOMAIN call', call'[d].st = "running"
                 PROVE  /\ exec'[d[2]].st \notin Good \cup {"none"}
                        /\ exec'[d[2]].st = "running" =>
                             \A e \in DOMAIN call' :
                               e[2] = d[2] /\ call'[e].st = "running" => e = d
      BY DEF OneRunner
    <3>1. \A e \in DOMAIN call' : e[2] = u /\ call'[e].st = "running" => e = c
      BY <2>1, <2>3
    <3>2. CASE d = c
      BY <2>2, <3>1, <3>2 DEF Good
    <3>3. CASE d # c
      <4>1. d[2] # u /\ d[2] \in Unit /\ call[d].st = "running" /\ d \in DOMAIN call
        BY <2>3, <3>1, <3>3
      <4>2. exec'[d[2]] = exec[d[2]]  BY <2>2, <4>1
      <4>3. \A e \in DOMAIN call' : e[2] = d[2] => call'[e] = call[e] /\ e \in DOMAIN call
        BY <2>3, <4>1
      <4> QED  BY <4>1, <4>2, <4>3 DEF StagesOK, OneRunner
    <3> QED  BY <3>2, <3>3
  <2>5. RecordsAgree'  BY <1>2, <2>2 DEF StagesOK, RecordsAgree, StageStatus
  <2>6. Replayed  BY <1>1, <1>2, <2>2 DEF Replayed, Good
  <2> QED  BY <2>4, <2>5, <2>6 DEF StagesOK
<1>3. CASE /\ exec[u].st \notin Good \cup {"none", "running"}
           /\ call' = [call EXCEPT ![c].st = "running"] /\ UNCHANGED exec
  <2>1. \A d \in DOMAIN call' : d \in DOMAIN call /\ (d # c => call'[d] = call[d])
    BY <1>3
  <2>2. OneRunner'  BY <1>3, <2>1 DEF StagesOK, OneRunner
  <2>3. RecordsAgree' /\ Replayed
    BY <1>1, <1>3 DEF StagesOK, RecordsAgree, Replayed
  <2> QED  BY <2>2, <2>3 DEF StagesOK
<1>4. ASSUME NEW r, call' = [call EXCEPT ![c].st = "done", ![c].res = r], UNCHANGED exec
      PROVE  StagesOK' /\ Replayed
  <2>1. \A d \in DOMAIN call' : call'[d].st = "running" =>
          d \in DOMAIN call /\ call[d].st = "running"
    BY <1>0, <1>4 DEF CallsOK, Call
  <2> QED  BY <1>1, <1>4, <2>1, StoppedRunners DEF Replayed
<1> QED  BY <1>2, <1>3, <1>4 DEF Reserve, Replays, Unknown

LEMMA BreakStages ==
  ASSUME IInv, StagesOK, NEW c \in DOMAIN call, NEW kinds, Break(c, kinds),
         UNCHANGED exec
  PROVE  StagesOK'
<1> DEFINE t == c[1]
           others == {d \in Awaited(t) : d # c /\ call[d].st # "done"}
           left == IF mem[t].engine = "langgraph" THEN {}
                   ELSE {<<t, d[2], FALSE>> : d \in others}
<1>0. CallsOK /\ \A d \in DOMAIN call : d = <<d[1], d[2], d[3]>>
  BY TypeParts, CallsOfTasks DEF IInv
<1>1. CASE call' = [d \in (DOMAIN call \ Awaited(t)) \cup left |->
                     IF d \in DOMAIN call THEN call[d] ELSE call[<<t, d[2], TRUE>>]]
  <2> DEFINE f == [d \in DOMAIN call' |->
                     IF d \in DOMAIN call THEN d ELSE <<t, d[2], TRUE>>]
  <2>1. DOMAIN call' = (DOMAIN call \ Awaited(t)) \cup left  BY <1>1
  <2>2. \A d \in left : /\ d = <<t, d[2], FALSE>> /\ d[3] = FALSE
                        /\ <<t, d[2], TRUE>> \in Awaited(t)
    <3>1. ASSUME NEW d \in left
          PROVE  /\ d = <<t, d[2], FALSE>> /\ d[3] = FALSE
                 /\ <<t, d[2], TRUE>> \in Awaited(t)
      <4>1. PICK e \in others : d = <<t, e[2], FALSE>>  BY <3>1
      <4>2. e = <<t, e[2], TRUE>>  BY <1>0, <4>1 DEF Awaited
      <4> QED  BY <4>1, <4>2
    <3> QED  BY <3>1
  <2> HIDE DEF left
  <2>3. f \in [DOMAIN call' -> DOMAIN call]
    BY <2>1, <2>2 DEF Awaited
  <2>4. \A d \in DOMAIN call' : call'[d] = call[f[d]] /\ f[d][2] = d[2]
    BY <1>1, <2>1
  <2>5. ASSUME NEW d \in DOMAIN call', NEW e \in DOMAIN call', f[d] = f[e]
        PROVE  d = e
    <3>1. ASSUME NEW x \in DOMAIN call', NEW y \in DOMAIN call', f[x] = f[y],
                 x \in DOMAIN call, y \notin DOMAIN call
          PROVE  FALSE
      <4>1. y \in left /\ x = <<t, y[2], TRUE>>  BY <2>1, <3>1
      <4>2. x \in Awaited(t) /\ x \notin left
        BY <2>2, <4>1 
      <4> QED  BY <2>1, <3>1, <4>2
    <3>2. CASE d \notin DOMAIN call /\ e \notin DOMAIN call
      <4>1. d \in left /\ e \in left /\ <<t, d[2], TRUE>> = <<t, e[2], TRUE>>
        BY <2>1, <2>5, <3>2
      <4> QED  BY <2>2, <4>1
    <3>3. CASE d \in DOMAIN call /\ e \in DOMAIN call  BY <2>5, <3>3
    <3> QED  BY <2>5, <3>1, <3>2, <3>3
  <2> HIDE DEF f
  <2> QED  BY <2>3, <2>4, <2>5, FewerRunners
<1>2. CASE call' = Without({c})
  BY <1>2, StoppedRunners DEF Without
<1> QED  BY <1>1, <1>2 DEF Break

LEMMA CompleteStages ==
  ASSUME IInv, StagesOK, NEW c \in DOMAIN call, Complete(c)
  PROVE  StagesOK' /\ Replayed
<1> DEFINE u == c[2]
<1>0. /\ CallsOK /\ ExecOK /\ RestOK /\ u \in Unit /\ call[c].cancelled \in BOOLEAN
      /\ exec[u].st \notin Good \cup {"none"}
  <2>1. CallsOK /\ ExecOK /\ RestOK  BY TypeParts DEF IInv
  <2>2. u \in Unit /\ call[c].cancelled \in BOOLEAN  BY <2>1, CallsOfTasks DEF Call
  <2>3. call[c].st = "running"  BY DEF Complete
  <2> QED  BY <2>1, <2>2, <2>3 DEF StagesOK, OneRunner
<1>1. PICK r \in Result :
         /\ wins' = IF r.status \in Good THEN [wins EXCEPT ![u] = @ + 1] ELSE wins
         /\ \/ /\ exec[u].st # "running" => r = exec[u].res
               /\ exec' = [exec EXCEPT ![u].st = r.status, ![u].res = r]
               /\ call' = [call EXCEPT ![c].st = "done", ![c].res = r]
            \/ /\ Break(c, {"lock"})
               /\ UNCHANGED exec
  BY <1>0, StageResultsAreResults DEF Complete
<1>2. \A v \in Unit \ {u} : wins'[v] = wins[v] /\ exec'[v] = exec[v]
  BY <1>0, <1>1 DEF RestOK, ExecOK
<1>3. Replayed  BY <1>0, <1>2 DEF Replayed
<1>4. CASE Break(c, {"lock"}) /\ UNCHANGED exec  BY <1>3, <1>4, BreakStages
<1>5. CASE /\ exec[u].st # "running" => r = exec[u].res
           /\ exec' = [exec EXCEPT ![u].st = r.status, ![u].res = r]
           /\ call' = [call EXCEPT ![c].st = "done", ![c].res = r]
  <2>1. exec'[u].st = r.status /\ exec'[u].res = r /\ r.status \in StageStatus
    BY <1>0, <1>5 DEF ExecOK, Result
  <2>2. RecordsAgree'  BY <1>2, <2>1 DEF StagesOK, RecordsAgree
  <2>3. \A d \in DOMAIN call' : /\ d \in DOMAIN call /\ d[2] \in Unit
                                /\ d # c => call'[d] = call[d]
                                /\ call'[c].st = "done"
    BY <1>0, <1>5, CallsOfTasks DEF CallsOK, Call
  <2>4. ASSUME NEW d \in DOMAIN call', call'[d].st = "running", d[2] = u
        PROVE  exec'[u].st \notin Good \cup {"none", "running"}
    <3>1. call[d].st = "running" /\ d # c /\ d \in DOMAIN call  BY <2>3, <2>4
    <3>2. exec[u].st # "running"
      BY <1>0, <2>4, <3>1 DEF StagesOK, OneRunner, Complete
    <3>3. exec[u].st \in StageStatus  BY <1>0, <3>2 DEF ExecOK
    <3>4. r.status = exec[u].st
      BY <1>0, <1>5, <3>2, <3>3 DEF StagesOK, RecordsAgree
    <3> QED  BY <1>0, <2>1, <3>2, <3>4
  <2>5. OneRunner'
    BY <1>2, <2>3, <2>4 DEF StagesOK, OneRunner
  <2> QED  BY <1>3, <2>2, <2>5 DEF StagesOK
<1> QED  BY <1>1, <1>3, <1>4, <1>5

LEMMA DriveStages ==
  ASSUME StagesOK, NEW t, Drive(t)
  PROVE  StagesOK' /\ Replayed
<1>1. CASE Launch(t)  BY <1>1, LaunchStages
<1>2. CASE Join(t)  BY <1>2, WithoutStages DEF Join
<1>3. CASE Enter(t) \/ Skip(t)  BY <1>3, NothingRuns DEF Enter, Skip, durable
<1>4. CASE Deepen(t) \/ Pause(t) \/ PauseSave(t) \/ Finalize(t) \/ Announce(t)
  BY <1>4, NothingRuns DEF Deepen, Pause, PauseSave, Finalize, Announce
<1> QED  BY <1>1, <1>2, <1>3, <1>4 DEF Drive

(* The steps of the service leave the stages alone. *)
LEMMA ServiceStages ==
  ASSUME StagesOK, UNCHANGED engines
  PROVE  StagesOK' /\ Replayed
  BY NothingRuns DEF engines

LEMMA StepStages ==
  ASSUME IInv, StagesOK, [Next]_vars
  PROVE  StagesOK' /\ Replayed
<1>1. CASE ExecStep
  <2>1. CASE Drive("exec")  BY <2>1, DriveStages
  <2>2. CASE Settle \/ Takeover \/ Fail \/ Block("exec") \/ Note("exec")
    BY <2>2, ServiceStages DEF Settle, Takeover, Fail, Block, Note, quiet
  <2> QED  BY <1>1, <2>1, <2>2 DEF ExecStep
<1>2. ASSUME NEW r \in Resumer, ResumeStep(r)
      PROVE  StagesOK' /\ Replayed
  <2>1. CASE Drive(r)  BY <2>1, DriveStages
  <2>2. CASE ~Drive(r)
    <3>1. UNCHANGED engines
      BY <1>2, <2>2 DEF ResumeStep, Block, Note, Report, ResumeControl,
         ResolveInterrupt, ReplayInterrupt, PauseAgain, StoreDecision, TakeDecision,
         Back, AckResume, Expire, ExpireInterrupt, quiet
    <3> QED  BY <3>1, ServiceStages
  <2> QED  BY <2>1, <2>2
<1>3. ASSUME NEW c \in Canceller, CancelStep(c)
      PROVE  StagesOK' /\ Replayed
  <2>1. UNCHANGED engines
    BY <1>3 DEF CancelStep, CancelControl, AckTerminal, Flag, Stop, SaveCanceled,
       AckCancel, Note, Report, quiet
  <2> QED  BY <2>1, ServiceStages
<1>4. ASSUME NEW c \in DOMAIN call, CallStep(c)
      PROVE  StagesOK' /\ Replayed
  <2>1. CASE ForgetOrphan(c)  BY <2>1, WithoutStages DEF ForgetOrphan, durable
  <2> QED  BY <1>4, <2>1, ReserveStages, CompleteStages DEF CallStep
<1>5. CASE World
  <2>1. CASE Execute \/ Lapse
    BY <2>1, ServiceStages, NothingRuns DEF Execute, Lapse, durable
  <2>2. ASSUME NEW r \in Resumer, Resume(r)  PROVE StagesOK' /\ Replayed
    BY <2>2, ServiceStages DEF Resume
  <2>3. ASSUME NEW c \in Canceller, Cancel(c)  PROVE StagesOK' /\ Replayed
    BY <2>3, ServiceStages DEF Cancel
  <2>4. ASSUME NEW t \in Driver, GraphFails(t)  PROVE StagesOK' /\ Replayed
    BY <2>4, WithoutStages DEF GraphFails, durable
  <2>5. ASSUME NEW c \in DOMAIN call, Raise(c)  PROVE StagesOK' /\ Replayed
    BY <2>5, BreakStages DEF Raise, durable, Replayed
  <2>6. ASSUME NEW T, Dies(T)  PROVE StagesOK' /\ Replayed
    BY <2>6, WithoutStages DEF Dies, durable
  <2> QED  BY <1>5, <2>1, <2>2, <2>3, <2>4, <2>5, <2>6 DEF World, Crash
<1>6. CASE UNCHANGED vars  BY <1>6, NothingRuns DEF vars
<1> QED  BY <1>1, <1>2, <1>3, <1>4, <1>5, <1>6 DEF Next, Program

(* A success on record is final: no restart, takeover or second request     *)
(* makes the stage do its work again or overwrites the record, in whatever  *)
(* order reservations, completions and deaths interleave.                  *)
THEOREM RecordedSuccessFinal == Spec => SuccessIsReplayed
<1>1. Init => StagesOK
  BY DEF Init, StagesOK, OneRunner, RecordsAgree, StageStatus
<1>2. IInv /\ StagesOK /\ [Next]_vars => StagesOK' /\ Replayed
  BY StepStages
<1> QED  BY <1>1, <1>2, TypeIsInvariant, PTL DEF Spec, SuccessIsReplayed, Replayed
=============================================================================
