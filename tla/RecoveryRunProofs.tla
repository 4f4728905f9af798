------------------------- MODULE RecoveryRunProofs -------------------------
(***************************************************************************)
(* Theorems about the recovery run, for every value of the constants.      *)
(*                                                                         *)
(* TypeOK is not inductive: a task about to deepen the run must not be in  *)
(* the last evidence round.  IInv adds that.                               *)
(***************************************************************************)
EXTENDS RecoveryRunProperties, TLAPS

(* A task about to begin a new evidence round may still do so. *)
DeepensInBounds == \A t \in Task : pc[t] = "deepen" => mem[t].round < MaxRounds

IInv == TypeOK /\ DeepensInBounds

-----------------------------------------------------------------------------
(* The operators the model is built from *)

(* No move leaves a terminal status: read off the table of                  *)
(* RecoveryStateMachine.transition.                                        *)
LEMMA TerminalIsFinal ==
  /\ \A s \in Status : Allowed[s] \subseteq Status
  /\ \A s \in Terminal, d \in Status : CanMove(s, d) => d = s
  BY DEF Terminal, Status, Allowed, CanMove

(* Some status of a group is the gravest, and it is one of the requests.    *)
LEMMA GravestIsAsked ==
  ASSUME NEW R \in SUBSET {"none", "blocked", "failed", "canceled"}, R # {}
  PROVE  Gravest(R) \in R
<1>1. \E s \in R : \A r \in R : Severity[r] <= Severity[s]
  <2>1. CASE "canceled" \in R  BY <2>1 DEF Severity
  <2>2. CASE "canceled" \notin R /\ "failed" \in R  BY <2>2 DEF Severity
  <2>3. CASE "canceled" \notin R /\ "failed" \notin R /\ "blocked" \in R
    BY <2>3 DEF Severity
  <2>4. CASE R = {"none"}  BY <2>4 DEF Severity
  <2> QED  BY <2>1, <2>2, <2>3, <2>4
<1> QED  BY <1>1 DEF Gravest

LEMMA VerdictIsTerminal ==
  ASSUME NEW a \in BOOLEAN, NEW b \in BOOLEAN, NEW c \in BOOLEAN, NEW d \in BOOLEAN
  PROVE  TerminalFor(a, b, c, d) \in Terminal
  BY DEF TerminalFor, Terminal

(* Every unit a node launches is a unit. *)
LEMMA UnitsAreUnits ==
  ASSUME NEW m \in Row, NEW p \in StageNode
  PROVE  UnitsAt(p, m) \subseteq Unit
<1>1. m.round \in 0 .. MaxRounds /\ 0 \in 0 .. MaxRounds /\ m.pending \subseteq Unit
  BY ConstantsAssumption DEF Row
<1>2. FanOut \subseteq Worker
  BY ConstantsAssumption DEF Worker
<1> QED  BY <1>1, <1>2 DEF UnitsAt, StageNode, Unit, Worker, Memory

LEMMA NextNode ==
  ASSUME NEW p \in StageNode, NEW m \in Row, NEW v
  PROVE  /\ Following(p, m.engine) \in Pc \ {"deepen"}
         /\ Route(p, m, v) \in Pc
         /\ Route(p, m, v) = "deepen" => m.round < MaxRounds
  BY DEF Following, Route, MoreRounds, Pc, EnginePc, StageNode

(* What a new row must keep of the old one *)
Keeps(m, n) ==
  /\ m.cancelReq => n.cancelReq
  /\ m.decisions \subseteq n.decisions
  /\ m.done \subseteq n.done
  /\ m.fallbacks <= n.fallbacks

(* A group of results leaves a row a row, and only adds to its record. *)
LEMMA JoinedIsRow ==
  ASSUME NEW m \in Row, NEW us \in SUBSET Unit,
         NEW res \in [us -> Result]
  PROVE  /\ Joined(m, us, res) \in Row
         /\ Joined(m, us, res).round = m.round
         /\ Joined(m, us, res).version = m.version
         /\ Keeps(m, Joined(m, us, res))
<1> DEFINE asked == {Asked(u, res[u]) : u \in us} \cup {"none"}
           out == {u \in us : res[u].out}
           s == IF Gravest(asked) = "none" THEN m.status ELSE Gravest(asked)
           sn == m.snapshot \/ \E u \in out : u[1] \notin Memory
           dn == m.done \cup {<<u, res[u].status>> : u \in us}
<1>1. s \in Status
  <2>1. asked \in SUBSET {"none", "blocked", "failed", "canceled"} /\ asked # {}
    BY DEF Asked
  <2>2. Gravest(asked) \in asked  BY <2>1, GravestIsAsked
  <2> QED  BY <2>1, <2>2 DEF Row, Status, Terminal
<1>2. sn \in BOOLEAN  BY DEF Row
<1>3. dn \subseteq Unit \X StageStatus
  <2>1. \A u \in us : res[u].status \in StageStatus  BY DEF Result
  <2> QED  BY <2>1 DEF Row
<1>4. WithRefs(m.refs, out) \subseteq Unit
  <2>1. \A u \in out : RefOf(u) \in Unit
    BY ConstantsAssumption DEF RefOf, Unit, Memory, Worker
  <2> QED  BY <2>1 DEF WithRefs, Row
<1>5. Joined(m, us, res) = [m EXCEPT !.status = s, !.snapshot = sn,
                          !.pending = @ \ us, !.done = dn,
                          !.refs = WithRefs(@, out)]
  BY DEF Joined
<1> HIDE DEF s, sn, dn, asked, out
<1>6. Joined(m, us, res) \in Row
  <2>1. m.pending \ us \in SUBSET Unit  BY DEF Row
  <2>2. dn \in SUBSET (Unit \X StageStatus)  BY <1>3
  <2>3. WithRefs(m.refs, out) \in SUBSET Unit  BY <1>4
  <2> HIDE DEF WithRefs
  <2> QED  BY <1>1, <1>2, <1>5, <2>1, <2>2, <2>3 DEF Row
<1>7. m.done \subseteq dn  BY DEF dn
<1>8. Keeps(m, Joined(m, us, res))  BY <1>5, <1>6, <1>7 DEF Row, Keeps
<1> QED  BY <1>5, <1>6, <1>8 DEF Row

-----------------------------------------------------------------------------
(* The shape of a step: what any action may do to the row and to the copies. *)
(* Proving it once per action gives typing, locking and history together.  *)

RowStep ==
  \/ run' = run
  \/ /\ run'.version = run.version + 1
     /\ \E m \in {run} \cup {mem[t] : t \in {x \in Task : Fresh(x)}} :
          Keeps(m, run') /\ CanMove(m.status, run'.status)

CopyStep == \A t \in Task : mem'[t] \in {mem[t], run', NoCopy}

Shape == IInv' /\ RowStep /\ CopyStep

(* The part of the type invariant about rows and tasks *)
TasksOK ==
  /\ run \in Row /\ mem \in [Task -> Row]
  /\ pc \in [Task -> Pc]
  /\ why \in [Task -> {"none", "lock", "infra", "other"}]

LEMMA BumpIsRow ==
  ASSUME NEW m \in Row
  PROVE  /\ Bump(m) \in Row
         /\ Bump(m).version = m.version + 1
         /\ Bump(m).status = m.status /\ Bump(m).round = m.round
         /\ Keeps(m, Bump(m)) /\ CanMove(m.status, Bump(m).status)
         /\ \A n \in Row : Keeps(n, m) => Keeps(n, Bump(m))
  BY DEF Bump, Row, Keeps, CanMove

LEMMA NoCopyIsRow == NoCopy \in Row /\ NoCopy.version = 0 /\ NewRow \in Row
<1>1. NewRow \in Row
  BY ConstantsAssumption DEF NewRow, Row, Status, Engine
<1> QED  BY <1>1 DEF NoCopy, Row

(* A save, whether it succeeds, loses the race or is refused. *)
LEMMA SaveShape ==
  ASSUME TasksOK, DeepensInBounds, NEW t \in Task, NEW new \in Row, NEW next \in Pc,
         new.version = mem[t].version, Keeps(mem[t], new),
         next = "deepen" => new.round < MaxRounds,
         Save(t, new, next)
  PROVE  TasksOK' /\ DeepensInBounds' /\ RowStep /\ CopyStep
<1>1. CASE Fresh(t) /\ CanMove(mem[t].status, new.status) /\ run' = Bump(new)
           /\ mem' = [mem EXCEPT ![t] = Bump(new)] /\ Goto(t, next) /\ UNCHANGED why
  <2>1. Bump(new) \in Row /\ Bump(new).version = new.version + 1
        /\ Bump(new).status = new.status /\ Bump(new).round = new.round
        /\ Keeps(mem[t], Bump(new))
    BY BumpIsRow DEF TasksOK
  <2>2. TasksOK'  BY <1>1, <2>1 DEF TasksOK, Goto
  <2>3. DeepensInBounds'  BY <1>1, <2>1 DEF TasksOK, Goto, DeepensInBounds
  <2>4. RowStep
    <3>1. mem[t] \in {mem[x] : x \in {x \in Task : Fresh(x)}}  BY <1>1
    <3>2. run'.version = run.version + 1 /\ CanMove(mem[t].status, run'.status)
      BY <1>1, <2>1 DEF Fresh
    <3> QED  BY <1>1, <2>1, <3>1, <3>2 DEF RowStep
  <2>5. CopyStep  BY <1>1 DEF CopyStep, TasksOK
  <2> QED  BY <2>2, <2>3, <2>4, <2>5
<1>2. CASE Goto(t, "raised") /\ why' \in {[why EXCEPT ![t] = k] : k \in {"lock", "other"}}
           /\ UNCHANGED <<run, mem>>
  <2>1. TasksOK'  BY <1>2 DEF TasksOK, Goto, Pc
  <2>2. DeepensInBounds'  BY <1>2 DEF TasksOK, Goto, DeepensInBounds
  <2> QED  BY <1>2, <2>1, <2>2 DEF RowStep, CopyStep
<1> QED  BY <1>1, <1>2 DEF Save

(* The other part of the type invariant, table by table *)
CallsOK == DOMAIN call \subseteq CallId /\ call \in [DOMAIN call -> Call]
ExecOK == exec \in [Unit -> [st : {"none", "running"} \cup StageStatus, in : Input,
                             res : Result]]
NodesOK == node \in [Task -> StageNode]
ControlsOK == ctl \in [{"review"} \cup Resumer \cup Canceller ->
                       {"none", "pending", "resolved", "expired"}]
RestOK ==
  /\ log \in Seq(Status) /\ lapsed \in BOOLEAN
  /\ token \in BOOLEAN /\ compatible \in BOOLEAN
  /\ crashes \in Nat /\ executes \in Nat
  /\ tries \in [Resumer \cup Canceller -> Nat]
  /\ wins \in [Unit -> Nat]

LEMMA TypeParts ==
  /\ TypeOK <=> TasksOK /\ CallsOK /\ ExecOK /\ NodesOK /\ ControlsOK /\ RestOK
  /\ TypeOK' <=> TasksOK' /\ CallsOK' /\ ExecOK' /\ NodesOK' /\ ControlsOK' /\ RestOK'
  BY DEF TypeOK, TasksOK, CallsOK, ExecOK, NodesOK, ControlsOK, RestOK

LEMMA DriversAreTasks == Driver \subseteq Task /\ "exec" \in Driver
                         /\ Resumer \subseteq Driver /\ Canceller \subseteq Task
  BY DEF Driver, Task

-----------------------------------------------------------------------------
(* Steps of the engines *)

(* A step that moves one task and leaves its copy and every table alone. *)
LEMMA MoveShape ==
  ASSUME TasksOK, DeepensInBounds, NEW t \in Task, NEW p \in Pc \ {"deepen"},
         Goto(t, p), UNCHANGED <<run, mem>>,
         why' \in [Task -> {"none", "lock", "infra", "other"}]
  PROVE  TasksOK' /\ DeepensInBounds' /\ RowStep /\ CopyStep
  BY DEF TasksOK, DeepensInBounds, Goto, RowStep, CopyStep

(* The rows the steps write are rows and keep what the old row recorded. *)
Follows(m, n) == n \in Row /\ n.version = m.version /\ n.round = m.round /\ Keeps(m, n)

LEMMA RowUpdates ==
  ASSUME NEW m \in Row, NEW s \in Status
  PROVE  /\ Follows(m, m)
         /\ Follows(m, [m EXCEPT !.status = s])
         /\ \A us \in SUBSET Unit : Follows(m, [m EXCEPT !.pending = @ \cup us])
         /\ Follows(m, [m EXCEPT !.status = s, !.interrupt = TRUE])
         /\ \A r \in Resumer : Follows(m, [m EXCEPT !.status = s, !.interrupt = FALSE,
                                                   !.decisions = @ \cup {r}])
         /\ \A b \in BOOLEAN : Follows(m, [m EXCEPT !.status = s, !.result = @ \/ b])
         /\ Follows(m, [m EXCEPT !.cancelReq = TRUE])
<1>1. Follows(m, m) /\ Follows(m, [m EXCEPT !.status = s])
  BY DEF Follows, Row, Keeps
<1>2. Follows(m, [m EXCEPT !.status = s, !.interrupt = TRUE])
  <2> DEFINE n == [m EXCEPT !.status = s, !.interrupt = TRUE]
  <2>1. n \in Row  BY DEF Row
  <2> QED  BY <2>1 DEF Follows, Row, Keeps
<1>3. Follows(m, [m EXCEPT !.cancelReq = TRUE])
  <2> DEFINE n == [m EXCEPT !.cancelReq = TRUE]
  <2>1. n \in Row /\ n.cancelReq  BY DEF Row
  <2> QED  BY <2>1 DEF Follows, Row, Keeps
<1>4. ASSUME NEW us \in SUBSET Unit
      PROVE  Follows(m, [m EXCEPT !.pending = @ \cup us])
  <2>1. m.pending \cup us \in SUBSET Unit  BY DEF Row
  <2> DEFINE n == [m EXCEPT !.pending = @ \cup us]
  <2>2. n \in Row  BY <2>1 DEF Row
  <2> QED  BY <2>2 DEF Follows, Row, Keeps
<1>5. ASSUME NEW r \in Resumer
      PROVE  Follows(m, [m EXCEPT !.status = s, !.interrupt = FALSE,
                                  !.decisions = @ \cup {r}])
  <2>1. m.decisions \cup {r} \in SUBSET Resumer  BY DEF Row
  <2> DEFINE n == [m EXCEPT !.status = s, !.interrupt = FALSE, !.decisions = @ \cup {r}]
  <2>2. n \in Row  BY <2>1 DEF Row
  <2> QED  BY <2>2 DEF Follows, Row, Keeps
<1>6. ASSUME NEW b \in BOOLEAN
      PROVE  Follows(m, [m EXCEPT !.status = s, !.result = @ \/ b])
  <2> DEFINE n == [m EXCEPT !.status = s, !.result = @ \/ b]
  <2>1. (m.result \/ b) \in BOOLEAN  OBVIOUS
  <2>2. n \in Row  BY <2>1 DEF Row
  <2> QED  BY <2>2 DEF Follows, Row, Keeps
<1> QED  BY <1>1, <1>2, <1>3, <1>4, <1>5, <1>6

LEMMA EnterShape ==
  ASSUME IInv, NEW t \in Driver, Enter(t)
  PROVE  Shape
<1> DEFINE m == mem[t]
<1>0. TasksOK /\ DeepensInBounds /\ t \in Task /\ m \in Row
  BY TypeParts, DriversAreTasks DEF IInv, TasksOK
<1>1. TasksOK' /\ DeepensInBounds' /\ RowStep /\ CopyStep
  <2>1. CASE Save(t, [m EXCEPT !.status = "canceled"], "announce")
    <3>1. Follows(m, [m EXCEPT !.status = "canceled"])
      BY <1>0, RowUpdates DEF Status, Terminal
    <3> QED  BY <1>0, <2>1, <3>1, SaveShape DEF Follows, Pc, EnginePc
  <2>2. CASE Save(t, [m EXCEPT !.status = "running"], "survey")
    <3>1. Follows(m, [m EXCEPT !.status = "running"])
      BY <1>0, RowUpdates DEF Status
    <3> QED  BY <1>0, <2>2, <3>1, SaveShape DEF Follows, Pc, EnginePc, StageNode
  <2>3. CASE (Goto(t, "return") \/ Goto(t, "survey")) /\ UNCHANGED <<run, mem, why>>
    BY <1>0, <2>3, MoveShape DEF TasksOK, Pc, EnginePc, StageNode
  <2> QED  BY <2>1, <2>2, <2>3 DEF Enter
<1> QED  BY <1>1, TypeParts DEF IInv, Shape, Enter, durable, bounded,
           CallsOK, ExecOK, NodesOK, ControlsOK, RestOK

LEMMA SkipShape ==
  ASSUME IInv, NEW t \in Driver, Skip(t)
  PROVE  Shape
<1>0. TasksOK /\ DeepensInBounds /\ t \in Task /\ mem[t] \in Row
  BY TypeParts, DriversAreTasks DEF IInv, TasksOK
<1>1. TasksOK' /\ DeepensInBounds' /\ RowStep /\ CopyStep
  <2>1. Following(pc[t], mem[t].engine) \in Pc \ {"deepen"}
    BY <1>0, NextNode DEF Skip
  <2> QED  BY <1>0, <2>1, MoveShape DEF Skip, TasksOK, durable
<1> QED  BY <1>1, TypeParts DEF IInv, Shape, Skip, durable, bounded,
           CallsOK, ExecOK, NodesOK, ControlsOK, RestOK

LEMMA RefusalsAreResults ==
  /\ \A c \in {"input_conflict", "completion_unknown"} : Refused(c) \in Result
  /\ NoResult \in Result
  BY DEF Refused, Result, StageStatus, NoResult, Returned

LEMMA LaunchShape ==
  ASSUME IInv, NEW t \in Driver, Launch(t)
  PROVE  Shape
<1> DEFINE m == mem[t]
           us == UnitsAt(pc[t], m)
<1>0. TasksOK /\ DeepensInBounds /\ t \in Task /\ m \in Row /\ us \in SUBSET Unit
  BY TypeParts, DriversAreTasks, UnitsAreUnits DEF IInv, TasksOK, Launch
<1>1. TasksOK' /\ DeepensInBounds' /\ RowStep /\ CopyStep
  <2>1. CASE Save(t, [m EXCEPT !.pending = @ \cup us], "await")
    <3>1. Follows(m, [m EXCEPT !.pending = @ \cup us])
      BY <1>0, RowUpdates DEF Row
    <3> QED  BY <1>0, <2>1, <3>1, SaveShape DEF Follows, Pc, EnginePc
  <2>2. CASE Goto(t, "await") /\ UNCHANGED <<run, mem, why>>
    BY <1>0, <2>2, MoveShape DEF TasksOK, Pc, EnginePc
  <2> QED  BY <2>1, <2>2 DEF Launch
<1>2. NodesOK' /\ CallsOK'
  <2> DEFINE new == {t} \X us \X {TRUE}
             fresh == [st |-> "ready", in |-> InputOf(m), cancelled |-> m.cancelReq,
                       res |-> NoResult]
  <2>1. CallsOK /\ NodesOK  BY TypeParts DEF IInv
  <2>2. fresh \in Call
    <3>1. InputOf(m) \in Input /\ m.cancelReq \in BOOLEAN
      BY <1>0 DEF InputOf, Input, Row
    <3> QED  BY <3>1, RefusalsAreResults DEF Call
  <2>3. CASE /\ node' = [node EXCEPT ![t] = pc[t]]
             /\ call' = [c \in new \cup DOMAIN call |->
                           IF c \in new THEN fresh ELSE call[c]]
    <3>1. new \subseteq CallId  BY <1>0 DEF CallId
    <3>2. DOMAIN call' = new \cup DOMAIN call  BY <2>3
    <3>3. \A c \in DOMAIN call' : call'[c] \in Call
      <4> HIDE DEF fresh, new
      <4> QED  BY <2>1, <2>2, <2>3 DEF CallsOK
    <3>4. CallsOK'  BY <2>1, <2>3, <3>1, <3>2, <3>3 DEF CallsOK
    <3> QED  BY <1>0, <2>1, <2>3, <3>4 DEF NodesOK, Launch
  <2>4. CASE UNCHANGED <<node, call>>  BY <2>1, <2>4 DEF CallsOK, NodesOK
  <2> QED  BY <2>3, <2>4 DEF Launch
<1> QED  BY <1>1, <1>2, TypeParts DEF IInv, Shape, Launch, bounded,
           ExecOK, ControlsOK, RestOK

LEMMA StageResultsAreResults ==
  ASSUME NEW u \in Unit, NEW x \in BOOLEAN
  PROVE  HybridResults(u, x) \subseteq Result /\ MemoryResults(u, x) \subseteq Result
<1>1. \A s \in StageStatus, o \in BOOLEAN, n \in {"accept", "needs_review", "request"} :
        Returned(s, o, n) \in Result
  BY DEF Returned, Result
<1>2. {"completed"} \cup Faults \subseteq StageStatus /\ "canceled" \in StageStatus
      /\ "failed" \in StageStatus /\ "degraded" \in StageStatus
  BY ConstantsAssumption DEF StageStatus
<1>3. HybridResults(u, x) \subseteq Result
  <2>1. {Returned(s, TRUE, "accept") : s \in {"completed"} \cup Faults} \subseteq Result
    BY <1>1, <1>2
  <2>2. CriticAsks("needs_review") \subseteq Result /\ CriticAsks("request") \subseteq Result
    BY <1>1, <1>2 DEF CriticAsks
  <2>3. /\ Returned("failed", FALSE, "accept") \in Result
        /\ Returned("canceled", FALSE, "accept") \in Result
        /\ Returned("canceled", TRUE, "accept") \in Result
    BY <1>1, <1>2
  <2> HIDE DEF Returned, Result
  <2> QED  BY <2>1, <2>2, <2>3 DEF HybridResults
<1>4. MemoryResults(u, x) \subseteq Result
  BY <1>1, <1>2 DEF MemoryResults
<1> QED  BY <1>3, <1>4

(* A step of the stage coroutines leaves rows and tasks alone. *)
LEMMA AsideShape ==
  ASSUME TasksOK, DeepensInBounds, UNCHANGED <<run, mem, pc, why>>
  PROVE  TasksOK' /\ DeepensInBounds' /\ RowStep /\ CopyStep
  BY DEF TasksOK, DeepensInBounds, RowStep, CopyStep

(* A coroutine belongs to a task and a unit. *)
LEMMA CallsOfTasks ==
  ASSUME CallsOK, NEW c \in DOMAIN call
  PROVE  /\ c[1] \in Task /\ c[2] \in Unit /\ c[3] \in BOOLEAN
         /\ c = <<c[1], c[2], c[3]>> /\ call[c] \in Call
  BY DEF CallsOK, CallId

LEMMA CallUpdates ==
  ASSUME CallsOK, NEW c \in DOMAIN call, NEW s \in {"ready", "running", "done"},
         NEW r \in Result,
         \/ call' = [call EXCEPT ![c].st = s]
         \/ call' = [call EXCEPT ![c].st = s, ![c].res = r]
  PROVE  CallsOK'
<1>1. DOMAIN call' = DOMAIN call  OBVIOUS
<1>2. \A d \in DOMAIN call' : call'[d] \in Call  BY DEF CallsOK, Call
<1> QED  BY <1>1, <1>2 DEF CallsOK

LEMMA WithoutKeepsCalls ==
  ASSUME CallsOK, NEW cs, call' = Without(cs)
  PROVE  CallsOK'
  BY DEF CallsOK, Without

LEMMA ReserveShape ==
  ASSUME IInv, NEW c \in DOMAIN call, Reserve(c)
  PROVE  Shape
<1>0. TasksOK /\ DeepensInBounds /\ CallsOK /\ ExecOK /\ RestOK
  BY TypeParts DEF IInv
<1>1. c[2] \in Unit /\ call[c].in \in Input /\ exec[c[2]].res \in Result
  BY <1>0, CallsOfTasks DEF Call, ExecOK
<1>2. TasksOK' /\ DeepensInBounds' /\ RowStep /\ CopyStep
  BY <1>0, AsideShape DEF Reserve
<1>3. ExecOK'  BY <1>0, <1>1 DEF Reserve, ExecOK
<1>4. CallsOK'
  <2>1. CASE call' = [call EXCEPT ![c].st = "running"]
    BY <1>0, <1>1, <2>1, CallUpdates
  <2>2. ASSUME NEW r \in Result, call' = [call EXCEPT ![c].st = "done", ![c].res = r]
        PROVE  CallsOK'
    BY <1>0, <2>2, CallUpdates
  <2> QED  BY <1>1, <2>1, <2>2, RefusalsAreResults DEF Reserve
<1>5. RestOK'  BY <1>0, <1>1 DEF Reserve, RestOK, bounded
<1> QED  BY <1>2, <1>3, <1>4, <1>5, TypeParts DEF IInv, Shape, Reserve,
           NodesOK, ControlsOK

(* An exception of a coroutine reaches its task, or nobody. *)
LEMMA BreakShape ==
  ASSUME IInv, NEW c \in DOMAIN call, NEW kinds \in SUBSET {"lock", "infra", "other"},
         Break(c, kinds), UNCHANGED <<run, mem>>
  PROVE  TasksOK' /\ DeepensInBounds' /\ RowStep /\ CopyStep /\ CallsOK'
<1> DEFINE t == c[1]
           others == {d \in Awaited(t) : d # c /\ call[d].st # "done"}
           left == IF mem[t].engine = "langgraph" THEN {}
                   ELSE {<<t, d[2], FALSE>> : d \in others}
<1>0. TasksOK /\ DeepensInBounds /\ t \in Task /\ CallsOK
  BY TypeParts, CallsOfTasks DEF IInv
<1>1. TasksOK' /\ DeepensInBounds' /\ RowStep /\ CopyStep
  <2>1. CASE Goto(t, "raised") /\ why' \in {[why EXCEPT ![t] = k] : k \in kinds}
    <3>1. why' \in [Task -> {"none", "lock", "infra", "other"}]
      BY <1>0, <2>1 DEF TasksOK
    <3>2. "raised" \in Pc \ {"deepen"}  BY DEF Pc
    <3> QED  BY <1>0, <2>1, <3>1, <3>2, MoveShape
  <2>2. CASE UNCHANGED <<pc, why>>  BY <1>0, <2>2, AsideShape
  <2> QED  BY <2>1, <2>2 DEF Break
<1>2. CallsOK'
  <2>1. CASE call' = [d \in (DOMAIN call \ Awaited(t)) \cup left |->
                       IF d \in DOMAIN call THEN call[d] ELSE call[<<t, d[2], TRUE>>]]
    <3>1. \A d \in others : /\ d[2] \in Unit /\ d = <<t, d[2], TRUE>>
                            /\ <<t, d[2], TRUE>> \in DOMAIN call
      BY <1>0, CallsOfTasks DEF Awaited
    <3>2. \A d \in left : d \in CallId /\ <<t, d[2], TRUE>> \in DOMAIN call
      <4>1. ASSUME NEW d \in left
            PROVE  d \in CallId /\ <<t, d[2], TRUE>> \in DOMAIN call
        <5>1. PICK e \in others : d = <<t, e[2], FALSE>>
          BY <4>1
        <5>2. d[2] = e[2] /\ e[2] \in Unit  BY <3>1, <5>1
        <5> QED  BY <1>0, <3>1, <5>1, <5>2 DEF CallId
      <4> QED  BY <4>1
    <3>3. DOMAIN call' \subseteq CallId  BY <1>0, <2>1, <3>2 DEF CallsOK
    <3>4. \A d \in DOMAIN call' : call'[d] \in Call
      <4> HIDE DEF left
      <4> QED  BY <1>0, <2>1, <3>2 DEF CallsOK
    <3> QED  BY <2>1, <3>3, <3>4 DEF CallsOK
  <2>2. CASE call' = Without({c})  BY <1>0, <2>2, WithoutKeepsCalls
  <2> QED  BY <2>1, <2>2 DEF Break
<1> QED  BY <1>1, <1>2

LEMMA CompleteShape ==
  ASSUME IInv, NEW c \in DOMAIN call, Complete(c)
  PROVE  Shape
<1>0. TasksOK /\ DeepensInBounds /\ CallsOK /\ ExecOK /\ RestOK
  BY TypeParts DEF IInv
<1>1. c[2] \in Unit /\ call[c].cancelled \in BOOLEAN
  BY <1>0, CallsOfTasks DEF Call
<1>2. PICK r \in Result :
         /\ wins' = IF r.status \in Good THEN [wins EXCEPT ![c[2]] = @ + 1] ELSE wins
         /\ \/ /\ exec' = [exec EXCEPT ![c[2]].st = r.status, ![c[2]].res = r]
               /\ call' = [call EXCEPT ![c].st = "done", ![c].res = r]
               /\ UNCHANGED <<pc, why>>
            \/ /\ Break(c, {"lock"})
               /\ UNCHANGED exec
  BY <1>1, StageResultsAreResults DEF Complete
<1>3. TasksOK' /\ DeepensInBounds' /\ RowStep /\ CopyStep /\ CallsOK'
  <2>1. UNCHANGED <<run, mem>>  BY DEF Complete
  <2>2. CASE Break(c, {"lock"})  BY <2>1, <2>2, BreakShape
  <2>3. CASE call' = [call EXCEPT ![c].st = "done", ![c].res = r] /\ UNCHANGED <<pc, why>>
    BY <1>0, <2>1, <2>3, AsideShape, CallUpdates
  <2> QED  BY <1>2, <2>2, <2>3
<1>4. ExecOK'
  <2>1. r.status \in StageStatus  BY DEF Result
  <2> QED  BY <1>0, <1>1, <1>2, <2>1 DEF ExecOK
<1>5. RestOK'  BY <1>0, <1>1, <1>2 DEF Complete, RestOK, bounded
<1> QED  BY <1>3, <1>4, <1>5, TypeParts DEF IInv, Shape, Complete,
           NodesOK, ControlsOK

LEMMA RaiseShape ==
  ASSUME IInv, NEW c \in DOMAIN call, Raise(c)
  PROVE  Shape
<1>1. TasksOK' /\ DeepensInBounds' /\ RowStep /\ CopyStep /\ CallsOK'
  BY BreakShape DEF Raise, durable
<1> QED  BY <1>1, TypeParts DEF IInv, Shape, Raise, durable, bounded,
           ExecOK, NodesOK, ControlsOK, RestOK

LEMMA ForgetOrphanShape ==
  ASSUME IInv, NEW c \in DOMAIN call, ForgetOrphan(c)
  PROVE  Shape
<1>0. TasksOK /\ DeepensInBounds /\ CallsOK
  BY TypeParts DEF IInv
<1>1. TasksOK' /\ DeepensInBounds' /\ RowStep /\ CopyStep
  BY <1>0, AsideShape DEF ForgetOrphan, durable
<1>2. CallsOK'  BY <1>0, WithoutKeepsCalls DEF ForgetOrphan
<1> QED  BY <1>1, <1>2, TypeParts DEF IInv, Shape, ForgetOrphan, durable, bounded, ExecOK, NodesOK, ControlsOK, RestOK

LEMMA JoinShape ==
  ASSUME IInv, NEW t \in Driver, Join(t)
  PROVE  Shape
<1> DEFINE m == mem[t]
           us == {c[2] : c \in {d \in Awaited(t) :
                   m.engine = "langgraph" /\ node[t] \in {"fanout", "evidence"} =>
                     ~DoneUnit(m, d[2])}}
           res == [u \in us |-> call[<<t, u, TRUE>>].res]
           new == Joined(m, us, res)
           asked == IF node[t] = "merge" THEN res[<<"merge", m.round>>].next
                    ELSE "accept"
<1>0. TasksOK /\ DeepensInBounds /\ t \in Task /\ CallsOK /\ NodesOK /\ m \in Row
  BY TypeParts, DriversAreTasks DEF IInv, TasksOK
<1>1. us \in SUBSET Unit /\ res \in [us -> Result] /\ node[t] \in StageNode
  <2>1. \A c \in Awaited(t) : /\ c[2] \in Unit /\ <<t, c[2], TRUE>> \in DOMAIN call
                              /\ call[<<t, c[2], TRUE>>].res \in Result
    BY <1>0, CallsOfTasks DEF Awaited, Call
  <2> QED  BY <1>0, <2>1 DEF NodesOK
<1>2. /\ new \in Row /\ new.version = m.version /\ Keeps(m, new)
  <2> HIDE DEF us, res, m
  <2> QED  BY <1>0, <1>1, JoinedIsRow
<1>3. /\ Route(node[t], new, asked) \in Pc
      /\ Route(node[t], new, asked) = "deepen" => new.round < MaxRounds
  BY <1>1, <1>2, NextNode
<1>4. Save(t, new, Route(node[t], new, asked))  BY DEF Join
<1>5. TasksOK' /\ DeepensInBounds' /\ RowStep /\ CopyStep
  <2> HIDE DEF new, asked, us, res, m
  <2> QED  BY <1>0, <1>2, <1>3, <1>4, SaveShape DEF m
<1>6. CallsOK'  BY <1>0, WithoutKeepsCalls DEF Join
<1> QED  BY <1>5, <1>6, TypeParts DEF IInv, Shape, Join, bounded, ExecOK, NodesOK, ControlsOK, RestOK

LEMMA DeepenShape ==
  ASSUME IInv, NEW t \in Driver, Deepen(t)
  PROVE  Shape
<1> DEFINE m == mem[t]
           new == [m EXCEPT !.round = @ + 1]
<1>0. TasksOK /\ DeepensInBounds /\ t \in Task /\ m \in Row
  BY TypeParts, DriversAreTasks DEF IInv, TasksOK
<1>1. m.round + 1 \in 0 .. MaxRounds
  BY <1>0, ConstantsAssumption DEF Deepen, DeepensInBounds, Row
<1>2. new \in Row /\ new.version = m.version /\ Keeps(m, new)
  BY <1>0, <1>1 DEF Row, Keeps
<1>3. TasksOK' /\ DeepensInBounds' /\ RowStep /\ CopyStep
  BY <1>0, <1>2, SaveShape DEF Deepen, Pc, EnginePc, StageNode
<1> QED  BY <1>3, TypeParts DEF IInv, Shape, Deepen, bounded,
           CallsOK, ExecOK, NodesOK, ControlsOK, RestOK

LEMMA PauseShape ==
  ASSUME IInv, NEW t \in Driver, Pause(t)
  PROVE  Shape
<1>0. TasksOK /\ DeepensInBounds /\ t \in Task /\ ControlsOK
  BY TypeParts, DriversAreTasks DEF IInv
<1>1. CASE mem' = mem
  <2>1. TasksOK' /\ DeepensInBounds' /\ RowStep /\ CopyStep
    BY <1>0, <1>1, MoveShape DEF Pause, TasksOK, Pc, EnginePc
  <2>2. ControlsOK'  BY <1>0 DEF Pause, ControlsOK
  <2> QED  BY <2>1, <2>2, TypeParts DEF IInv, Shape, Pause, bounded,
             CallsOK, ExecOK, NodesOK, RestOK
<1>2. CASE mem' = [mem EXCEPT ![t] = run] /\ Goto(t, "pause_save")
  <2>1. TasksOK' /\ DeepensInBounds'
    BY <1>0, <1>2 DEF Pause, TasksOK, DeepensInBounds, Goto, Pc, EnginePc
  <2>2. RowStep /\ CopyStep  BY <1>0, <1>2 DEF Pause, TasksOK, RowStep, CopyStep
  <2>3. ControlsOK'  BY <1>0 DEF Pause, ControlsOK
  <2> QED  BY <2>1, <2>2, <2>3, TypeParts DEF IInv, Shape, Pause, bounded,
             CallsOK, ExecOK, NodesOK, RestOK
<1> QED  BY <1>1, <1>2 DEF Pause

LEMMA PauseSaveShape ==
  ASSUME IInv, NEW t \in Driver, PauseSave(t)
  PROVE  Shape
<1>0. TasksOK /\ DeepensInBounds /\ t \in Task /\ mem[t] \in Row
  BY TypeParts, DriversAreTasks DEF IInv, TasksOK
<1>1. Follows(mem[t], [mem[t] EXCEPT !.status = "waiting_approval", !.interrupt = TRUE])
  BY <1>0, RowUpdates DEF Status
<1>2. TasksOK' /\ DeepensInBounds' /\ RowStep /\ CopyStep
  BY <1>0, <1>1, SaveShape DEF PauseSave, Follows, Pc, EnginePc
<1> QED  BY <1>2, TypeParts DEF IInv, Shape, PauseSave, bounded,
           CallsOK, ExecOK, NodesOK, ControlsOK, RestOK

LEMMA FinalizeShape ==
  ASSUME IInv, NEW t \in Driver, Finalize(t)
  PROVE  Shape
<1> DEFINE m == mem[t]
           s == IF m.engine = "langgraph" /\ m.status # "running" THEN m.status
                ELSE Verdict(m)
<1>0. TasksOK /\ DeepensInBounds /\ t \in Task /\ m \in Row
  BY TypeParts, DriversAreTasks DEF IInv, TasksOK
<1>1. s \in Status /\ HasMerge(m) \in BOOLEAN
  <2>1. Verdict(m) \in Terminal
    BY VerdictIsTerminal DEF Verdict, HasMerge
  <2> QED  BY <1>0, <2>1 DEF Row, Status, HasMerge
<1>2. Follows(m, [m EXCEPT !.status = s, !.result = @ \/ HasMerge(m)])
  <2> HIDE DEF s
  <2> QED  BY <1>0, <1>1, RowUpdates
<1>3. Save(t, [m EXCEPT !.status = s, !.result = @ \/ HasMerge(m)], "announce")
  BY DEF Finalize
<1>4. TasksOK' /\ DeepensInBounds' /\ RowStep /\ CopyStep
  <2> HIDE DEF s
  <2> QED  BY <1>0, <1>2, <1>3, SaveShape DEF Follows, Pc, EnginePc
<1> QED  BY <1>4, TypeParts DEF IInv, Shape, Finalize, bounded,
           CallsOK, ExecOK, NodesOK, ControlsOK, RestOK

LEMMA AnnounceShape ==
  ASSUME IInv, NEW t \in Driver, Announce(t)
  PROVE  Shape
<1>0. TasksOK /\ DeepensInBounds /\ t \in Task /\ mem[t] \in Row /\ RestOK
  BY TypeParts, DriversAreTasks DEF IInv, TasksOK
<1>1. Follows(mem[t], mem[t])  BY <1>0, RowUpdates DEF Status
<1>2. TasksOK' /\ DeepensInBounds' /\ RowStep /\ CopyStep
  BY <1>0, <1>1, SaveShape DEF Announce, Follows, Pc, EnginePc
<1>3. RestOK'
  <2>1. mem[t].status \in Status  BY <1>0 DEF Row
  <2> QED  BY <1>0, <2>1 DEF Announce, RestOK, bounded
<1> QED  BY <1>2, <1>3, TypeParts DEF IInv, Shape, Announce, bounded,
           CallsOK, ExecOK, NodesOK, ControlsOK

LEMMA GraphFailsShape ==
  ASSUME IInv, NEW t \in Driver, GraphFails(t)
  PROVE  Shape
<1>0. TasksOK /\ DeepensInBounds /\ t \in Task /\ CallsOK /\ NodesOK
  BY TypeParts, DriversAreTasks DEF IInv
<1>1. TasksOK' /\ DeepensInBounds' /\ RowStep /\ CopyStep
  BY <1>0, MoveShape DEF GraphFails, TasksOK, durable, Pc
<1>2. CallsOK'  BY <1>0, WithoutKeepsCalls DEF GraphFails
<1> QED  BY <1>1, <1>2, TypeParts DEF IInv, Shape, GraphFails, durable, bounded, NodesOK, ExecOK, ControlsOK, RestOK

LEMMA DriveShape ==
  ASSUME IInv, NEW t \in Driver, Drive(t)
  PROVE  Shape
  BY EnterShape, SkipShape, LaunchShape, JoinShape, DeepenShape, PauseShape,
     PauseSaveShape, FinalizeShape, AnnounceShape DEF Drive
=============================================================================
