------------------------------ MODULE ChatRuns ------------------------------
(* Chat threads (chat/repository.py, chat/service.py, api/v2/threads.py) and *)
(* the browser that posts, polls and cancels (frontend chat/store.ts). One   *)
(* thread; every transaction of the store is one step, as BEGIN IMMEDIATE    *)
(* makes it. The runs of the thread each drive a QaAgent pipeline.           *)
EXTENDS QaAgent, Sequences

CONSTANTS Clients,     \* browsers and other callers of the thread
          NoRun,
          PageSize,    \* limit of GET /threads/{id}/events
          MaxCrashes,  \* bound on restarts of the server
          MaxCancels   \* bound on requests to cancel

\* Every run is given a context of its own (chat/service.py, execute).
ASSUME ChatAssumption ==
  /\ NoRun \notin Callers
  /\ \A r, s \in Callers: Ledger[r] = Ledger[s] => r = s
  /\ PageSize \in Nat \ {0} /\ MaxCrashes \in Nat /\ MaxCancels \in Nat

VARIABLES row,       \* run -> row of qa_runs
          log,       \* chat_events of the thread: run and type, in sequence
          said,      \* chat_messages of the assistant: run and table, in order
          client,    \* client -> its store
          crashes

Ends == {"run.completed", "run.failed", "run.canceled"}
Statuses == {"completed", "degraded", "blocked", "failed", "canceled"}

Row == [status: {"none", "running"} \cup Statuses, cancel: BOOLEAN,
        task: {"none", "due", "working", "lost"}]
ClientState == [asked: Callers \cup {NoRun}, active: Callers \cup {NoRun}, cursor: Nat]
Event == [run: Callers, type: {"run.started", "run.cancel_requested"} \cup Ends]

chatVars == <<row, log, said, client, crashes>>
agentVars == <<qa, model, tool, stopped, warned, usage, late>>
vars == <<agentVars, chatVars>>

Init ==
  /\ BudgetInit /\ GatewayInit /\ ToolInit /\ QaInit
  /\ row = [r \in Callers |-> [status |-> "none", cancel |-> FALSE, task |-> "none"]]
  /\ log = <<>> /\ said = <<>>
  /\ client = [c \in Clients |-> [asked |-> NoRun, active |-> NoRun, cursor |-> 0]]
  /\ crashes = 0

SmallerOf(a, b) == IF a < b THEN a ELSE b
Appended(r, type) == log' = Append(log, [run |-> r, type |-> type])

\* POST .../messages, sent while nothing else is loading: every message has a
\* fresh key, so it gets a run of its own, and the run a background task.
Post(c) ==
  /\ client[c].asked = NoRun /\ client[c].active = NoRun
  /\ \E r \in Callers:
       /\ row[r].status = "none"
       /\ row' = [row EXCEPT ![r].status = "running", ![r].task = "due"]
       /\ Appended(r, "run.started")
       /\ client' = [client EXCEPT ![c].asked = r]
  /\ UNCHANGED <<agentVars, said, crashes>>

\* A defect to test with: the browser follows from the last event on, as it
\* does when the page is loaded.
FollowFromEnd(c) ==
  /\ client[c].asked # NoRun
  /\ client' = [client EXCEPT ![c].asked = NoRun, ![c].active = client[c].asked,
                              ![c].cursor = Len(log)]
  /\ UNCHANGED <<agentVars, row, log, said, crashes>>

\* The answer arrives: the browser follows the run from the event it has
\* reached, whatever was appended meanwhile.
Follow(c) ==
  /\ client[c].asked # NoRun
  /\ client' = [client EXCEPT ![c].asked = NoRun, ![c].active = client[c].asked]
  /\ UNCHANGED <<agentVars, row, log, said, crashes>>

\* A defect to test with: the cursor moves by the size of a full page.
PollByLimit(c) ==
  LET r == client[c].active
      page == SubSeq(log, client[c].cursor + 1, SmallerOf(client[c].cursor + PageSize, Len(log)))
      over == \E i \in 1..Len(page): page[i].run = r /\ page[i].type \in Ends
  IN /\ r # NoRun
     /\ page # <<>>
     /\ client' = [client EXCEPT ![c].cursor = @ + PageSize,
                                 ![c].active = IF over THEN NoRun ELSE r]
     /\ UNCHANGED <<agentVars, row, log, said, crashes>>

\* One turn of the polling loop: a page of events moves the cursor, and the
\* end of the run that is followed ends the loop.
Poll(c) ==
  LET r == client[c].active
      page == SubSeq(log, client[c].cursor + 1, SmallerOf(client[c].cursor + PageSize, Len(log)))
      over == \E i \in 1..Len(page): page[i].run = r /\ page[i].type \in Ends
  IN /\ r # NoRun
     /\ page # <<>>
     /\ client' = [client EXCEPT ![c].cursor = @ + Len(page),
                                 ![c].active = IF over THEN NoRun ELSE r]
     /\ UNCHANGED <<agentVars, row, log, said, crashes>>

\* A request fails, or the page is loaded again: the run is not followed any
\* more. A loaded page starts at the thread's last event.
GiveUp(c) == \E reload \in BOOLEAN:
  /\ reload \/ client[c].asked # NoRun \/ client[c].active # NoRun
  /\ client' = [client EXCEPT ![c].asked = NoRun, ![c].active = NoRun,
                              ![c].cursor = IF reload THEN Len(log) ELSE @]
  /\ UNCHANGED <<agentVars, row, log, said, crashes>>

\* The background task begins: the run's token is set if a request to cancel
\* came first; then the agent is asked.
Execute(r) ==
  /\ row[r].task = "due"
  /\ row' = [row EXCEPT ![r].task = "working"]
  /\ stopped' = IF row[r].cancel THEN stopped \cup {Ledger[r]} ELSE stopped
  /\ UNCHANGED <<qa, tool, model, warned, budgetVars, log, said, client, crashes>>

\* What a pronoun means: the table of the latest answer about one.
Focus ==
  LET telling == {i \in DOMAIN said: said[i].about # NoTable}
      last == CHOOSE i \in telling: \A j \in telling: j <= i
  IN IF telling = {} THEN NoTable ELSE said[last].about

AskAgent(r) ==
  /\ row[r].task = "working"
  /\ Ask(r, Focus)
  /\ UNCHANGED chatVars

EndOf(status) ==
  CASE status \in {"completed", "degraded"} -> "run.completed"
    [] status = "canceled" -> "run.canceled"
    [] OTHER -> "run.failed"

\* The contexts of these runs are gone: token, ledger, warnings, calls.
Dropped(runs) ==
  LET ledgers == {Ledger[r] : r \in runs} IN
  /\ qa' = [r \in Callers |-> IF r \in runs THEN NoPipeline ELSE qa[r]]
  /\ model' = [r \in Callers |-> IF r \in runs THEN NoCall ELSE model[r]]
  /\ tool' = [r \in Callers |-> IF r \in runs THEN NoTool ELSE tool[r]]
  /\ usage' = [l \in Ledgers |-> IF l \in ledgers THEN NoUsage ELSE usage[l]]
  /\ stopped' = stopped \ ledgers
  /\ warned' = warned \ ledgers /\ late' = late \ ledgers

\* The result of the agent, one answer and one last event in a transaction.
CompleteRun(r) ==
  /\ qa[r].at = "finished" /\ row[r].task = "working"
  /\ row' = [row EXCEPT ![r].status = qa[r].result, ![r].task = "none"]
  /\ said' = Append(said, [run |-> r, about |->
                 IF qa[r].result \in {"completed", "degraded"} THEN qa[r].about ELSE NoTable])
  /\ Appended(r, EndOf(qa[r].result))
  /\ Dropped({r})
  /\ UNCHANGED <<client, crashes>>

\* The store or the runtime raises before the agent is asked, or when its result
\* is to be stored: the background task ends, and nobody hears of it.
TaskFails(r) ==
  /\ row[r].task = "due" \/ (row[r].task = "working" /\ qa[r].at \in {"idle", "finished"})
  /\ row' = [row EXCEPT ![r].task = "lost"]
  /\ Dropped({r})
  /\ UNCHANGED <<log, said, client, crashes>>

\* A defect to test with: the status of the run is not asked.
CancelAnyway(r) ==
  /\ row' = [row EXCEPT ![r].cancel = TRUE]
  /\ Appended(r, "run.cancel_requested")

\* POST /runs/{id}/cancel: flag and event, refused once the run has ended.
RequestCancel(r) ==
  /\ row[r].status = "running"
  /\ row' = [row EXCEPT ![r].cancel = TRUE]
  /\ Appended(r, "run.cancel_requested")

Cancel(c) ==
  LET r == client[c].active IN
  /\ r # NoRun /\ Len(SelectSeq(log, LAMBDA e: e.type = "run.cancel_requested")) < MaxCancels
  /\ RequestCancel(r)
  /\ stopped' = IF row[r].task = "working" THEN stopped \cup {Ledger[r]} ELSE stopped
  /\ UNCHANGED <<qa, model, tool, warned, budgetVars, said, client, crashes>>

\* The process dies: its tasks are gone, and nothing starts them again.
Crash ==
  /\ crashes < MaxCrashes
  /\ crashes' = crashes + 1
  /\ row' = [r \in Callers |-> [row[r] EXCEPT !.task = IF @ = "none" THEN @ ELSE "lost"]]
  /\ Dropped(Callers)
  /\ UNCHANGED <<log, said, client>>

\* What the task of a run does next.
Task(r) ==
  \/ Execute(r)
  \/ AskAgent(r)
  \/ row[r].task = "working" /\ QaStep(r) /\ UNCHANGED chatVars
  \/ GatewayStep(r) /\ UNCHANGED <<qa, tool, chatVars>>
  \/ ToolStep(r) /\ UNCHANGED <<qa, chatVars>>
  \/ CompleteRun(r)

Next ==
  \/ \E r \in Callers: Task(r)
  \/ \E r \in Callers:
       \/ row[r].task = "working" /\ SinkFails(r) /\ UNCHANGED <<qa, tool, chatVars>>
       \/ TaskFails(r)
  \/ \E c \in Clients:
       \/ Post(c)
       \/ Follow(c)
       \/ Poll(c)
       \/ GiveUp(c)
       \/ Cancel(c)
  \/ Crash

Fairness ==
  /\ \A r \in Callers: WF_vars(Task(r))
  /\ \A c \in Clients: WF_vars(Follow(c)) /\ WF_vars(Poll(c))

Spec == Init /\ [][Next]_vars
FairSpec == Spec /\ Fairness
=============================================================================
