--------------------------- MODULE RecoveryEngine ---------------------------
(***************************************************************************)
(* The two engines that drive the stages of a run: ManualEngine            *)
(* (engines/manual.py) and the LangGraph engine (engines/langgraph_engine  *)
(* .py), whose nodes call the manual engine's helpers.                     *)
(*                                                                         *)
(* A step ends where the code commits a transaction whose neighbours       *)
(* matter, or awaits.  OneLoop is the shipped deployment, one event loop   *)
(* in one process: then only a task that awaits lets another one run, and  *)
(* the graph's synchronous nodes, in threads, run beside them all.          *)
(* With OneLoop FALSE every transaction of every task interleaves, as in   *)
(* several server processes over one database.                             *)
(***************************************************************************)
EXTENDS RecoveryState

(* Applying stage results *)

(* The status a stage result asks for (_patch_for_result). *)
Asked(u, res) ==
  IF u[1] \in Required /\ res.status \in {"blocked", "failed", "canceled"}
  THEN res.status ELSE "none"

(* _patch_for_result of every unit of a group, merged and applied *)
Joined(m, us, res) ==
  LET asked == {Asked(u, res[u]) : u \in us} \cup {"none"}
      out == {u \in us : res[u].out}
  IN [m EXCEPT
        !.status = IF Gravest(asked) = "none" THEN @ ELSE Gravest(asked),
        !.snapshot = @ \/ \E u \in out : u[1] \notin Memory,
        !.pending = @ \ us,
        !.done = @ \cup {<<u, res[u].status>> : u \in us},
        !.refs = WithRefs(@, out)]

(* mutant: degraded stages are forgotten *)
VerdictForgetsDegraded(m) ==
  TerminalFor(
    \E d \in m.done : d[1][1] \in Required /\ d[2] \notin Good,
    \E d \in m.done : d[1][1] = "orm" /\ d[2] \notin Good, FALSE, HasMerge(m))

(* The verdict of the finalize node *)
Verdict(m) ==
  TerminalFor(
    \E d \in m.done : d[1][1] \in Required /\ d[2] \notin Good,
    \E d \in m.done : d[1][1] = "orm" /\ d[2] \notin Good,
    \E d \in m.done : d[2] = "degraded",
    HasMerge(m))

-----------------------------------------------------------------------------
(* The engine's order of nodes *)

(* The units a node still has to run.  The manual engine asks the row which *)
(* of them are complete; the graph runs every node it enters.               *)
UnitsAt(p, m) ==
  LET graph == m.engine = "langgraph" IN
  CASE p = "survey" -> IF m.snapshot THEN {} ELSE {<<"survey", 0>>}
    [] p = "retrieve" ->
         IF ~MemoryStages \/ (~graph /\ DoneWorker(m, "memory_retrieve"))
         THEN {} ELSE {<<"memory_retrieve", 0>>}
    [] p = "frontier" -> {u \in m.pending : ~DoneUnit(m, u)}
    [] p = "fanout" ->
         IF ~graph /\ DoneWorker(m, "column") THEN {}
         ELSE {<<w, m.round>> : w \in FanOut}
    [] p = "verify" ->
         IF ~MemoryStages \/ (~graph /\ DoneWorker(m, "memory_verify"))
         THEN {} ELSE {<<"memory_verify", m.round>>}
    [] p = "merge" ->
         IF ~graph /\ m.decisions # {} /\ HasMerge(m) THEN {}
         ELSE {<<"merge", m.round>>}
    [] p = "evidence" -> {<<"evidence", m.round>>}
    [] p = "consolidate" ->
         IF ~MemoryStages \/ (~graph /\ DoneWorker(m, "memory_consolidate"))
         THEN {} ELSE {<<"memory_consolidate", m.round>>}

(* The next node once p's stages are in the row. *)
Following(p, engine) ==
  CASE p = "survey" -> "retrieve"
    [] p = "retrieve" -> IF engine = "manual" THEN "frontier" ELSE "fanout"
    [] p = "frontier" -> "fanout"
    [] p = "fanout" -> "verify"
    [] p = "verify" -> "merge"
    [] p = "merge" -> "consolidate"
    [] p = "evidence" -> IF engine = "manual" THEN "merge" ELSE "verify"
    [] p = "consolidate" -> "finalize"

(* Nodes whose units are first written to pending_work_units *)
Grouped(engine) ==
  IF engine = "manual" THEN {"survey", "frontier", "fanout", "evidence"}
  ELSE {"fanout", "evidence"}

(* mutant: off by one at the loop limit *)
MoreRoundsByOne(m) == m.round <= MaxRounds

MoreRounds(m) == m.round < MaxRounds

(* Where the engine goes after it has committed node p: _must_stop and the *)
(* critic in the manual engine, the conditional edges in the graph.        *)
Route(p, m, verdict) ==
  IF m.engine = "manual" /\ p \in Grouped("manual") \cup {"merge"}
       /\ m.status # "running"
  THEN "announce"
  ELSE IF m.engine = "langgraph" /\ p \in {"survey", "fanout", "evidence"}
            /\ m.status # "running"
  THEN "finalize"
  ELSE IF p = "merge" /\ verdict = "needs_review" THEN "pause"
  ELSE IF p = "merge" /\ verdict = "request" /\ MoreRounds(m) THEN "deepen"
  ELSE Following(p, m.engine)

-----------------------------------------------------------------------------
(* Scheduling *)

(* mutant: a group is joined only when every stage succeeded *)
AllDoneWell(t) ==
  \A c \in Awaited(t) : call[c].st = "done" /\ call[c].res.status \in Good

AllDone(t) == \A c \in Awaited(t) : call[c].st = "done"

(* The synchronous nodes of the graph (plan_work, validate_join, critic,    *)
(* human_interrupt, finalize) run in a thread of the loop's executor.       *)
GraphOnly == {"r_graph", "r_again", "r_art"}
InThread(t) ==
  /\ t \in Driver
  /\ \/ pc[t] \in GraphOnly
     \/ /\ mem[t].engine = "langgraph"
        /\ \/ pc[t] \in {"deepen", "pause", "pause_save", "finalize", "announce", "r_save"}
           \/ pc[t] \in Grouped("langgraph")
           \/ pc[t] = "await" /\ node[t] \in Grouped("langgraph") /\ AllDone(t)

(* Task t has handed the loop back: it is between requests, awaits a stage, *)
(* or is in the graph, whose nodes, checkpoints and exceptions reach        *)
(* ainvoke over the loop.  An exception of resume or cancel is only         *)
(* reported.                                                               *)
Awaits(t) ==
  \/ pc[t] = "idle" \/ InThread(t)
  \/ pc[t] = "await" /\ (~AllDone(t) \/ node[t] \in Grouped(mem[t].engine))
  \/ pc[t] \in EnginePc \cup {"return", "raised"} /\ mem[t].engine = "langgraph"
  \/ pc[t] = "raised" /\ t # "exec"

(* A thread needs no turn on the loop, and steps while another task has it. *)
MayStep(t) == OneLoop => InThread(t) \/ \A u \in Task \ {t} : Awaits(u)
CallsMayStep == OneLoop => \A t \in Task : Awaits(t)

-----------------------------------------------------------------------------
(* The engines *)

(* mutants: the cancellation on record is ignored; a recorded success is   *)
(* not replayed                                                            *)
StopsNever(m) == FALSE
ReplaysNever(e) == FALSE

(* ManualEngine.run looks for a recorded cancellation only here. *)
StopsAtOnce(m) == m.cancelReq

(* ManualEngine.run before its first node; the graph only starts the run. *)
Enter(t) ==
  /\ pc[t] = "enter" /\ MayStep(t)
  /\ LET m == mem[t]
         manual == m.engine = "manual"
     IN \/ /\ manual /\ (m.status \in Terminal \/ m.status = "waiting_approval")
           /\ Goto(t, "return")
           /\ UNCHANGED <<run, mem, why>>
        \/ /\ manual /\ m.status \in {"queued", "running"} /\ StopsAtOnce(m)
           /\ Save(t, [m EXCEPT !.status = "canceled"], "announce")
        \/ /\ manual /\ m.status \in {"queued", "running"} /\ ~StopsAtOnce(m)
           /\ Save(t, [m EXCEPT !.status = "running"], "survey")
        \/ /\ ~manual /\ m.status = "queued"
           /\ Save(t, [m EXCEPT !.status = "running"], "survey")
        \/ /\ ~manual /\ m.status # "queued"
           /\ Goto(t, "survey")
           /\ UNCHANGED <<run, mem, why>>
  /\ UNCHANGED <<ctl, exec, log, lapsed, node, call, token, compatible,
                 bounded, wins>>

(* The node has nothing left to run. *)
Skip(t) ==
  /\ pc[t] \in StageNode /\ MayStep(t)
  /\ UnitsAt(pc[t], mem[t]) = {}
  /\ Goto(t, Following(pc[t], mem[t].engine))
  /\ UNCHANGED <<durable, lapsed, mem, node, why, call, token,
                 compatible, bounded, wins>>

(* The node schedules its units: the plan and the pending units are saved  *)
(* (a survey already pending is not saved again) and the stage coroutines  *)
(* are created with the row the task holds.                                *)
Launch(t) ==
  /\ pc[t] \in StageNode /\ MayStep(t)
  /\ LET m == mem[t]
         us == UnitsAt(pc[t], m)
         writes == /\ pc[t] \in Grouped(m.engine)
                   /\ ~(pc[t] = "survey" /\ us \subseteq m.pending)
         new == {t} \X us \X {TRUE}
     IN /\ us # {}
        /\ \/ /\ writes
              /\ Save(t, [m EXCEPT !.pending = @ \cup us], "await")
           \/ /\ ~writes
              /\ Goto(t, "await")
              /\ UNCHANGED <<run, mem, why>>
        /\ IF pc'[t] = "await"
           THEN /\ node' = [node EXCEPT ![t] = pc[t]]
                /\ call' = [c \in new \cup DOMAIN call |->
                     IF c \in new
                     THEN [st |-> "ready", in |-> InputOf(m),
                           cancelled |-> m.cancelReq, res |-> NoResult]
                     ELSE call[c]]
           ELSE UNCHANGED <<node, call>>
  /\ UNCHANGED <<ctl, exec, log, lapsed, token, compatible, bounded, wins>>

(* What a reservation found in stage_executions means for a new call.       *)
Conflicts(c) == exec[c[2]].in # call[c].in
Replays(e) == e.st \in Good
Unknown(e) == e.st = "running"

(* _execute_stage up to the call of the stage: reserve the execution, or    *)
(* replay or refuse it.  A failed execution is run again under its old      *)
(* reservation, which stays "failed" meanwhile.                            *)
Reserve(c) ==
  /\ call[c].st = "ready" /\ CallsMayStep
  /\ LET u == c[2]
         e == exec[u]
         answer(r) == /\ call' = [call EXCEPT ![c].st = "done", ![c].res = r]
                      /\ UNCHANGED exec
     IN \/ /\ e.st = "none"
           /\ exec' = [exec EXCEPT ![u].st = "running", ![u].in = call[c].in]
           /\ call' = [call EXCEPT ![c].st = "running"]
        \/ /\ e.st # "none" /\ Conflicts(c)
           /\ answer(Refused("input_conflict"))
        \/ /\ Replays(e) /\ ~Conflicts(c)
           /\ answer(e.res)
        \/ /\ Unknown(e) /\ ~Conflicts(c)
           /\ answer(Refused("completion_unknown"))
        \/ /\ e.st # "none" /\ ~Conflicts(c) /\ ~Replays(e) /\ ~Unknown(e)
           /\ call' = [call EXCEPT ![c].st = "running"]
           /\ UNCHANGED exec
  /\ UNCHANGED <<run, ctl, log, lapsed, pc, mem, node, why, token,
                 compatible, bounded, wins>>

(* merge with a critic that wants a review, or more evidence *)
CriticAsks(n) ==
  {Returned(s, TRUE, n) : s \in {"completed"} \cup (Faults \cap {"degraded"})}

(* What a stage may return.  A worker that sees the cancellation in its     *)
(* state returns before it does anything; a timed-out one names no output.  *)
HybridResults(u, cancelled) ==
  IF cancelled THEN {Returned("canceled", FALSE, "accept")}
  ELSE {Returned(s, TRUE, "accept") : s \in {"completed"} \cup Faults}
       \cup (IF "failed" \in Faults THEN {Returned("failed", FALSE, "accept")} ELSE {})
       \cup (IF token THEN {Returned("canceled", TRUE, "accept")} ELSE {})
       \cup (IF u[1] = "merge" THEN CriticAsks("needs_review") \cup CriticAsks("request")
             ELSE {})

MemoryResults(u, cancelled) ==
  IF cancelled THEN {Returned("canceled", FALSE, "accept")}
  ELSE {Returned("completed", TRUE, "accept")}
       \cup (IF "degraded" \in Faults
             THEN {Returned("degraded", u[1] = "memory_retrieve", "accept")} ELSE {})
       \cup (IF "failed" \in Faults THEN {Returned("failed", FALSE, "accept")} ELSE {})
       \cup (IF token THEN {Returned("canceled", FALSE, "accept")} ELSE {})

(* An exception ends coroutine c.  gather passes it on to the task and      *)
(* leaves the other stages of the group running; the graph drops them.     *)
(* Nobody hears of an exception of a stage left over.                      *)
Break(c, kinds) ==
  LET t == c[1]
      others == {d \in Awaited(t) : d # c /\ call[d].st # "done"}
      left == IF mem[t].engine = "langgraph" THEN {}
              ELSE {<<t, d[2], FALSE>> : d \in others}
  IN \/ /\ c[3]
        /\ Goto(t, "raised")
        /\ why' \in {[why EXCEPT ![t] = k] : k \in kinds}
        /\ call' = [d \in (DOMAIN call \ Awaited(t)) \cup left |->
                     IF d \in DOMAIN call THEN call[d] ELSE call[<<t, d[2], TRUE>>]]
     \/ /\ ~c[3]
        /\ call' = Without({c})
        /\ UNCHANGED <<pc, why>>

(* The stage returned: its result is stored under a name the unit has for   *)
(* ever, and its execution completed.  If an earlier invocation stored      *)
(* another content there, put_artifact raises OptimisticLockError instead. *)
Complete(c) ==
  /\ call[c].st = "running" /\ CallsMayStep
  /\ LET u == c[2]
         stored == exec[u].st # "running"
     IN \E r \in IF u[1] \in Memory THEN MemoryResults(u, call[c].cancelled)
                                    ELSE HybridResults(u, call[c].cancelled) :
          /\ wins' = IF r.status \in Good THEN [wins EXCEPT ![u] = @ + 1] ELSE wins
          /\ \/ /\ stored => r = exec[u].res
                /\ exec' = [exec EXCEPT ![u].st = r.status, ![u].res = r]
                /\ call' = [call EXCEPT ![c].st = "done", ![c].res = r]
                /\ UNCHANGED <<pc, why>>
             \/ /\ stored
                /\ Break(c, {"lock"})
                /\ UNCHANGED exec
  /\ UNCHANGED <<run, ctl, log, lapsed, mem, node, token, compatible, bounded>>

(* The stage raised: the reservation stays "running".                       *)
Raise(c) ==
  /\ call[c].st = "running" /\ CallsMayStep
  /\ Break(c, {"infra", "other"})
  /\ UNCHANGED <<durable, lapsed, mem, node, token, compatible, bounded, wins>>

(* A stage nobody awaits any more ends. *)
ForgetOrphan(c) ==
  /\ call[c].st = "done" /\ ~c[3] /\ CallsMayStep
  /\ call' = Without({c})
  /\ UNCHANGED <<durable, lapsed, pc, mem, node, why, token, compatible,
                 bounded, wins>>

(* Every stage of the node has returned: their patches are merged into one  *)
(* commit.  The graph's join leaves out units the row already has.          *)
Join(t) ==
  /\ pc[t] = "await" /\ AllDone(t) /\ MayStep(t)
  /\ LET m == mem[t]
         us == {c[2] : c \in {d \in Awaited(t) :
                 m.engine = "langgraph" /\ node[t] \in {"fanout", "evidence"} =>
                   ~DoneUnit(m, d[2])}}
         res == [u \in us |-> call[<<t, u, TRUE>>].res]
         new == Joined(m, us, res)
         asked == IF node[t] = "merge" THEN res[<<"merge", m.round>>].next
                  ELSE "accept"
     IN Save(t, new, Route(node[t], new, asked))
  /\ call' = Without(Awaited(t))
  /\ UNCHANGED <<ctl, exec, log, lapsed, node, token, compatible, bounded, wins>>

(* mutant: the units of the new round are never planned *)
DeepenForgets(t) ==
  /\ pc[t] = "deepen" /\ MayStep(t)
  /\ Save(t, [mem[t] EXCEPT !.round = @ + 1], "merge")
  /\ UNCHANGED <<ctl, exec, log, lapsed, node, call, token, compatible,
                 bounded, wins>>

(* The critic's requests were authorised: a new evidence round begins.  The *)
(* units that answer them are saved in a later commit.                      *)
Deepen(t) ==
  /\ pc[t] = "deepen" /\ MayStep(t)
  /\ Save(t, [mem[t] EXCEPT !.round = @ + 1], "evidence")
  /\ UNCHANGED <<ctl, exec, log, lapsed, node, call, token, compatible,
                 bounded, wins>>

(* The run waits for a reviewer: first the interrupt's control, then the row. *)
(* The graph's node reads the row again and does not interrupt it twice.   *)
Pause(t) ==
  /\ pc[t] = "pause" /\ MayStep(t)
  /\ LET graph == mem[t].engine = "langgraph" IN
     \/ /\ graph /\ run.interrupt
        /\ Goto(t, "return")
        /\ UNCHANGED <<ctl, mem>>
     \/ /\ ~(graph /\ run.interrupt)
        /\ ctl' = [ctl EXCEPT !["review"] = IF @ = "none" THEN "pending" ELSE @]
        /\ mem' = IF graph THEN [mem EXCEPT ![t] = run] ELSE mem
        /\ Goto(t, "pause_save")
  /\ UNCHANGED <<run, exec, log, lapsed, node, why, call, token,
                 compatible, bounded, wins>>

PauseSave(t) ==
  /\ pc[t] = "pause_save" /\ MayStep(t)
  /\ Save(t, [mem[t] EXCEPT !.status = "waiting_approval", !.interrupt = TRUE],
          "return")
  /\ UNCHANGED <<ctl, exec, log, lapsed, node, call, token, compatible,
                 bounded, wins>>

(* The verdict is committed; the graph keeps a status that stopped it. *)
Finalize(t) ==
  /\ pc[t] = "finalize" /\ MayStep(t)
  /\ LET m == mem[t] IN
     Save(t, [m EXCEPT !.status = IF m.engine = "langgraph" /\ m.status # "running"
                                  THEN @ ELSE Verdict(m),
                       !.result = @ \/ HasMerge(m)], "announce")
  /\ UNCHANGED <<ctl, exec, log, lapsed, node, call, token, compatible,
                 bounded, wins>>

(* The terminal checkpoint and the run.<status> event *)
Announce(t) ==
  /\ pc[t] = "announce" /\ MayStep(t)
  /\ log' = Append(log, mem[t].status)
  /\ Save(t, mem[t], "return")
  /\ UNCHANGED <<ctl, exec, lapsed, node, call, token, compatible,
                 bounded, wins>>

(* The graph's own checkpointer or connection fails between two nodes or   *)
(* while one runs.                                                         *)
GraphFails(t) ==
  /\ pc[t] \in EnginePc /\ mem[t].engine = "langgraph" /\ AutoFallback
  /\ MayStep(t)
  /\ Goto(t, "raised")
  /\ why' = [why EXCEPT ![t] = "infra"]
  /\ call' = Without(Awaited(t))
  /\ UNCHANGED <<durable, lapsed, mem, node, token, compatible, bounded, wins>>
=============================================================================
