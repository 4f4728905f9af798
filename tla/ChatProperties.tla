--------------------------- MODULE ChatProperties ---------------------------
(* What the chat, its agent and the runtime below them promise.             *)
EXTENDS ChatRuns

\* Every variable keeps to its domain, and no browser is ahead of the events.
ChatTypeOK ==
  /\ usage \in [Ledgers -> Usage] /\ late \subseteq Ledgers
  /\ stopped \subseteq Ledgers /\ warned \subseteq Ledgers
  /\ model \in [Callers -> ModelCall] /\ tool \in [Callers -> ToolCall]
  /\ qa \in [Callers -> Pipeline]
  /\ row \in [Callers -> Row] /\ log \in Seq(Event)
  /\ said \in Seq([run: Callers, about: Tables \cup {NoTable}])
  /\ client \in [Clients -> ClientState]
  /\ \A c \in Clients: client[c].cursor <= Len(log)
  /\ crashes \in 0..MaxCrashes

\* The row, the messages and the event stream agree on the end of a run: one
\* answer and one terminal event exactly when the row has left running, and
\* no event of the run after it (repository.py, complete_run and request_cancel).
OneEnd == \A r \in Callers:
  LET ended == row[r].status \in Statuses IN
  /\ ended => /\ \E i \in DOMAIN log: log[i].run = r /\ log[i].type \in Ends
              /\ \E i \in DOMAIN said: said[i].run = r
  /\ \A i \in DOMAIN log:
       log[i].run = r /\ log[i].type \in Ends
       => ended /\ \A j \in DOMAIN log: log[j].run = r => j <= i
  /\ \A i, j \in DOMAIN said: said[i].run = r /\ said[j].run = r => ended /\ i = j

\* What an answer cites came out of a tool of its own run; an answer without
\* facts cites nothing (answer_verifier.py, verify; agent.py, run).
AnswersAreGrounded == \A r \in Callers: qa[r].cites \subseteq qa[r].facts

\* Once the token of a run is set, the run asks no provider and no tool any
\* more; what is under way may still be settled. And a run whose cancellation
\* was recorded before its task began, or before it had its evidence, publishes
\* no answer (model_gateway.py, _invoke; tool_runtime.py and tool_loop.py,
\* execute; service.py, execute).
CancelStopsWork == [][\A r \in Callers:
  /\ Ledger[r] \in stopped => /\ usage'[Ledger[r]].model <= usage[Ledger[r]].model
                              /\ usage'[Ledger[r]].tool <= usage[Ledger[r]].tool
  /\ row[r].cancel /\ row[r].task = "working" /\ qa[r].at \in {"idle", "inventory", "plan"}
     => \/ qa'[r].at \in {qa[r].at, "plan"} \/ row'[r].task = "lost"
        \/ qa'[r].result \in {"blocked", "failed", "canceled"}]_vars

\* Every run that was accepted ends, unless its background task died, with its
\* process or by an exception outside the pipeline: the model and tool calls,
\* their retries and every exception of the pipeline come to a result
\* (agent.py, run; service.py, execute).
EveryRunEnds == \A r \in Callers:
  row[r].status = "running" ~> (row[r].status # "running" \/ row[r].task = "lost")

\* A browser that posted a message sees the end of its run, page by page, from
\* wherever the thread's events it has seen end, unless the task of the run
\* died (store.ts, send and poll).
Waits(c, r) == client[c].asked = r \/ client[c].active = r
ClientIsAnswered == \A c \in Clients, r \in Callers:
  Waits(c, r) ~> (~Waits(c, r) \/ row[r].task = "lost")
=============================================================================
