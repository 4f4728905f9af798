--------------------------- MODULE RecoveryState ---------------------------
(***************************************************************************)
(* The state of one recovery run: its row, controls, stage executions and  *)
(* events in SQLite (persistence/run_repository.py, event_log.py), and the *)
(* tasks and stage coroutines that work on them in memory.                 *)
(*                                                                         *)
(* A task is one HTTP request: "exec" is POST /runs, a member of Resumer   *)
(* or Canceller is a resume or a cancel request, named by its request id.  *)
(* A task works on mem[t], the copy of the row it read or last wrote, and  *)
(* writes it back under the optimistic version of the row.                 *)
(***************************************************************************)
EXTENDS RunStateMachine, Sequences, FiniteSets

CONSTANTS
  FanOut,         \* workers of the fan-out group
  MaxRounds,      \* loop limit of the critic node
  MemoryStages,   \* are the memory stages registered
  FirstEngine,    \* the engine the run is created for
  AutoFallback,   \* may LangGraph hand over to the manual engine
  MaxFallbacks,
  Resumer,        \* request ids of resume requests
  Canceller,      \* request ids of cancel requests
  OneLoop,        \* one event loop, or several processes
  Upgrade,        \* may a restart bring another workflow version
  Faults,         \* the imperfect statuses stages report in this instance
  MaxCrashes, MaxExecutes, MaxTries   \* bounds of an instance

ASSUME ConstantsAssumption ==
  /\ FanOut \subseteq {"column", "name", "code", "orm"} /\ "column" \in FanOut
  /\ MaxRounds \in Nat /\ MaxFallbacks \in Nat
  /\ MaxCrashes \in Nat /\ MaxExecutes \in Nat /\ MaxTries \in Nat
  /\ {MemoryStages, AutoFallback, OneLoop, Upgrade} \subseteq BOOLEAN
  /\ FirstEngine \in {"manual", "langgraph"}
  /\ Faults \subseteq {"degraded", "failed", "blocked"}
  /\ "exec" \notin Resumer \cup Canceller
  /\ "review" \notin Resumer \cup Canceller
  /\ Resumer \cap Canceller = {}

-----------------------------------------------------------------------------
(* Work units.  A unit is a worker and the evidence round it belongs to;   *)
(* "evidence" stands for the column unit a critic request is turned into.  *)

Memory == {"memory_retrieve", "memory_verify", "memory_consolidate"}
Worker == {"survey", "column", "name", "code", "orm", "merge", "evidence"} \cup Memory
Unit == Worker \X (0 .. MaxRounds)

(* the workers whose failure fails the run *)
Required == {"survey", "column", "name", "code", "merge", "evidence"}

(* RunStatus values a stage can end with, and those that are replayed *)
StageStatus == {"completed", "degraded", "failed", "blocked", "canceled"}
Good == {"completed", "degraded"}

(* What a stage returns: its status, whether it names an output artifact,  *)
(* what the critic inside merge asks for, and why the engine refused it.   *)
Result == [status : StageStatus, out : BOOLEAN,
           next : {"accept", "needs_review", "request"},
           code : {"none", "input_conflict", "completion_unknown"}]

Returned(s, o, n) == [status |-> s, out |-> o, next |-> n, code |-> "none"]
Refused(c) == [status |-> "blocked", out |-> FALSE, next |-> "accept", code |-> c]
NoResult == Returned("failed", FALSE, "accept")

(* The part of a stage's input the engine hashes: the output references    *)
(* of the row, the human decision being one of them.                       *)
Input == [refs : SUBSET Unit, approved : BOOLEAN]
NoInput == [refs |-> {}, approved |-> FALSE]

-----------------------------------------------------------------------------
Engine == {"manual", "langgraph"}
Task == {"exec"} \cup Resumer \cup Canceller
Driver == {"exec"} \cup Resumer             \* the tasks that run an engine

(* RecoveryStateV2, as far as control depends on it *)
Row == [version : Nat, status : Status, engine : Engine, fallbacks : Nat,
        cancelReq : BOOLEAN, interrupt : BOOLEAN, snapshot : BOOLEAN,
        round : 0 .. MaxRounds, pending : SUBSET Unit,
        done : SUBSET (Unit \X StageStatus), refs : SUBSET Unit,
        decisions : SUBSET Resumer, result : BOOLEAN]

NewRow == [version |-> 1, status |-> "queued", engine |-> FirstEngine,
           fallbacks |-> 0, cancelReq |-> FALSE, interrupt |-> FALSE,
           snapshot |-> FALSE, round |-> 0, pending |-> {}, done |-> {},
           refs |-> {}, decisions |-> {}, result |-> FALSE]
NoCopy == [NewRow EXCEPT !.version = 0]

(* Engine nodes that run stages, and the other program points of a task *)
StageNode == {"survey", "retrieve", "frontier", "fanout", "verify", "merge",
              "evidence", "consolidate"}
EnginePc == StageNode \cup {"enter", "await", "deepen", "pause", "pause_save",
                            "finalize", "announce"}
Pc == EnginePc \cup {"idle", "return", "raised", "incompatible", "fail_note",
        "r_ctl", "r_int", "r_graph", "r_again", "r_art", "r_save", "r_ack", "e_save", "e_ctl", "e_note",
        "c_ctl", "c_ack_terminal", "c_flag", "c_stop", "c_save", "c_ack", "c_note"}

VARIABLES
  run,        \* recovery_runs: the row
  ctl,        \* run_controls: status by request id; "review" is the interrupt
  exec,       \* stage_executions, by unit (the idempotency key)
  log,        \* run_events: the run.<terminal status> events, in order
  lapsed,     \* the review's deadline has passed
  pc, mem,    \* each task's position and copy of the row
  node,       \* the engine node whose stages a task awaits
  why,        \* the kind of exception a task is handling
  call,       \* the stage coroutines alive: whose, for which unit, still awaited?
  token,      \* the process's cancellation token for the run is set
  compatible, \* the process runs the row's workflow version
  crashes, executes, tries,   \* bounded environment
  wins        \* history: how often each unit's stage succeeded, recorded or not

durable == <<run, ctl, exec, log>>
bounded == <<crashes, executes, tries>>
vars == <<run, ctl, exec, log, lapsed, pc, mem, node, why, call, token,
          compatible, crashes, executes, tries, wins>>

-----------------------------------------------------------------------------
(* Reading the row *)

WorkerOf(u) == IF u[1] = "evidence" THEN "column" ELSE u[1]
DoneUnit(m, u) == \E d \in m.done : d[1] = u
DoneWorker(m, w) == \E d \in m.done : WorkerOf(d[1]) = w
HasMerge(m) == \E u \in m.refs : u[1] = "merge"
InputOf(m) == [refs |-> m.refs, approved |-> m.decisions # {}]

(* The reference a result adds to output_refs.  Memory references name the *)
(* context package, the same in every round.                               *)
RefOf(u) == IF u[1] \in Memory THEN <<u[1], 0>> ELSE u

(* output_refs is keyed by worker: a later merge replaces an earlier one. *)
WithRefs(refs, us) ==
  LET new == {RefOf(u) : u \in us} IN
  {v \in refs : ~(v[1] = "merge" /\ \E u \in new : u[1] = "merge")} \cup new

-----------------------------------------------------------------------------
(* Writing the row *)

(* mutants: the version is not counted; the version is not compared *)
BumpForgotten(m) == m
FreshAlways(t) == mem[t].version <= run.version

Bump(m) == [m EXCEPT !.version = @ + 1]
Goto(t, p) == pc' = [pc EXCEPT ![t] = p]
Fresh(t) == mem[t].version = run.version

(* apply_patch then SQLiteRunRepository.save: the row is replaced only if  *)
(* it still has the version the task read.                                 *)
Save(t, new, next) ==
  \/ /\ Fresh(t)
     /\ CanMove(mem[t].status, new.status)
     /\ run' = Bump(new)
     /\ mem' = [mem EXCEPT ![t] = Bump(new)]
     /\ Goto(t, next)
     /\ UNCHANGED why
  \/ /\ ~Fresh(t)
     /\ CanMove(mem[t].status, new.status)
     /\ Goto(t, "raised")
     /\ why' = [why EXCEPT ![t] = "lock"]
     /\ UNCHANGED <<run, mem>>
  \/ /\ ~CanMove(mem[t].status, new.status)
     /\ Goto(t, "raised")
     /\ why' = [why EXCEPT ![t] = "other"]
     /\ UNCHANGED <<run, mem>>

(* The request is answered; nothing of it stays in memory. *)
Answer(t) ==
  /\ Goto(t, "idle")
  /\ mem' = [mem EXCEPT ![t] = NoCopy]
  /\ why' = [why EXCEPT ![t] = "none"]

(* Stage coroutines.  A second one for the same unit, of another task or    *)
(* left over by an earlier gather, is one of its own.                      *)
CallId == Task \X Unit \X BOOLEAN
Call == [st : {"ready", "running", "done"}, in : Input, cancelled : BOOLEAN, res : Result]
Awaited(t) == {c \in DOMAIN call : c[1] = t /\ c[3]}
Without(cs) == [c \in DOMAIN call \ cs |-> call[c]]
=============================================================================
