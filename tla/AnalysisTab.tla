----------------------------- MODULE AnalysisTab -----------------------------
(* The browser tab that follows an analysis (frontend/src/hooks/              *)
(* useAnalysis.ts) and the legacy stream it reads (backend/main.py,           *)
(* _analysis_stream; the adapter of the stream to the run service is not      *)
(* modelled).                                                                 *)
EXTENDS LegacyAnalysis, Sequences

VARIABLES lines,   \* lines of the response the tab has not read
          wire,    \* "none", "open", "closed" (ended in order) or "broken"
          tab,     \* what the tab shows: the state of its analysis and its data
          seen     \* worker -> status of the step the tab shows

tabVars == <<lines, wire, tab, seen>>
vars == <<serverVars, tabVars>>

Line(t, w, s) == [type |-> t, worker |-> w, status |-> s]
LineType == {"started", "node_complete", "complete", "error"}
Nothing == "none"

Init ==
  /\ LegacyInit /\ lines = <<>> /\ wire = "none"
  /\ tab = [at |-> "idle", data |-> Nothing] /\ seen = [w \in Workers |-> "none"]

\* ------------------------------------------------------------------- server
\* Nothing is written to a response that nobody reads. Lines that only say that
\* a node starts or that the run is alive are left out.
Emits(new) == lines' = IF request = "stream" /\ wire = "open" THEN lines \o new ELSE lines

Call(which) == Begin("call", which) /\ UNCHANGED tabVars
Stream(which) ==
  /\ tab.at = "idle" /\ Begin("stream", which)
  /\ wire' = "open" /\ tab' = [tab EXCEPT !.at = "reading"]
  /\ lines' = <<Line("started", Nothing, "running")>> /\ UNCHANGED seen

\* Column and name are one superstep of the graph: their steps are in the
\* snapshot that follows it. The orchestrator streams no steps.
Superstep(w) == IF w \in {"column", "name"} THEN <<"column", "name">> ELSE <<w>>
StepLines(w) ==
  LET together == Superstep(w) IN
  IF engine = "graph" /\ \A i \in DOMAIN together: steps'[together[i]] # "none"
    THEN [i \in DOMAIN together |-> Line("node_complete", together[i], steps'[together[i]])]
    ELSE <<>>

WorkLine(w) == Work(w) /\ Emits(StepLines(w)) /\ UNCHANGED <<wire, tab, seen>>
SkipOrmLine == SkipOrm /\ Emits(StepLines("orm")) /\ UNCHANGED <<wire, tab, seen>>
Ending == Reduce \/ Break \/ Remember \/ Record

\* A run whose graph raised ends with an error line, any other one with its
\* result; a handler that raises breaks the response off.
Broke == engine = "graph" /\ ~Over
Ends ==
  /\ Complete
  /\ CASE at' = "raised" -> wire' = (IF wire = "open" THEN "broken" ELSE wire) /\ UNCHANGED lines
       [] Broke /\ at' = "done" -> Emits(<<Line("error", Nothing, "failed")>>) /\ UNCHANGED wire
       [] OTHER -> Emits(<<Line("complete", Nothing, status)>>) /\ UNCHANGED wire
  /\ UNCHANGED <<tab, seen>>

Closes ==
  /\ at = "done" /\ wire = "open" /\ request = "stream" /\ wire' = "closed"
  /\ UNCHANGED <<serverVars, lines, tab, seen>>

\* The response is a generator: when its client is gone it is dropped at a yield,
\* which no handler of it catches.
AtYield ==
  /\ at = "working" /\ request = "stream"
  /\ IF engine = "manual" THEN steps["survey"] = "none"
     ELSE (steps["column"] = "none") = (steps["name"] = "none")
Drop ==
  /\ AtYield /\ wire # "open" /\ at' = "gone"
  /\ UNCHANGED <<request, engine, steps, status, memory, record, store, crashes, tabVars>>

Restart ==
  /\ Crash /\ wire' = IF wire = "open" THEN "broken" ELSE wire
  /\ lines' = IF wire = "open" THEN <<>> ELSE lines
  /\ UNCHANGED <<tab, seen>>

\* ---------------------------------------------------------------------- tab
\* The network cuts the response off, in order or not; what is unread is lost.
Cut ==
  /\ wire = "open" /\ wire' \in {"closed", "broken"} /\ lines' = <<>>
  /\ UNCHANGED <<serverVars, tab, seen>>

ReadLine ==
  /\ tab.at = "reading" /\ lines # <<>>
  /\ lines' = Tail(lines)
  /\ LET line == Head(lines) IN
     CASE line.type = "node_complete" ->
            seen' = [seen EXCEPT ![line.worker] = line.status] /\ UNCHANGED tab
       [] line.type = "complete" -> tab' = [tab EXCEPT !.data = line.status] /\ UNCHANGED seen
       [] line.type = "error" -> tab' = [tab EXCEPT !.at = "failed"] /\ UNCHANGED seen
       [] OTHER -> UNCHANGED <<tab, seen>>
  /\ UNCHANGED <<serverVars, wire>>

\* The end of the response: with data, the hook is done (it has told the user of
\* a bad status itself); without, it asks for the run once.
ReadEnd ==
  /\ tab.at = "reading" /\ lines = <<>> /\ wire \in {"closed", "broken"}
  /\ tab' = IF wire = "broken" THEN [at |-> "failed", data |-> Nothing]
            ELSE IF tab.data = Nothing THEN [tab EXCEPT !.at = "fetching"]
            ELSE [tab EXCEPT !.at = IF tab.data \in Good THEN "shown" ELSE "failed"]
  /\ UNCHANGED <<serverVars, lines, wire, seen>>

\* get_run knows the run store's row with its result, or the monitor's row
\* without one; fetchExistingRun shows nothing but a good result.
Fetched == IF store.result THEN store.status ELSE Nothing
\* A bug to look for: any result is shown.
FetchAnyway ==
  /\ tab.at = "fetching"
  /\ tab' = [at |-> IF Fetched = Nothing THEN "failed" ELSE "shown", data |-> Fetched]
  /\ UNCHANGED <<serverVars, lines, wire, seen>>
\* A bug to look for: the tab waits until the run has a result.
FetchPatiently ==
  /\ tab.at = "fetching" /\ Fetched # Nothing
  /\ tab' = IF Fetched \in Good THEN [at |-> "shown", data |-> Fetched]
            ELSE [at |-> "failed", data |-> Nothing]
  /\ UNCHANGED <<serverVars, lines, wire, seen>>
FetchExistingRun ==
  /\ tab.at = "fetching"
  /\ tab' = IF Fetched \in Good THEN [at |-> "shown", data |-> Fetched]
            ELSE [at |-> "failed", data |-> Nothing]
  /\ UNCHANGED <<serverVars, lines, wire, seen>>

\* ------------------------------------------------------------------- system
Serve ==
  \/ \E w \in Workers: WorkLine(w)
  \/ SkipOrmLine
  \/ Ending /\ UNCHANGED tabVars
  \/ Ends
  \/ Closes
Follow == ReadLine \/ ReadEnd \/ FetchExistingRun

Next ==
  \/ \E which \in Engines: Call(which) \/ Stream(which)
  \/ Serve
  \/ Drop
  \/ Restart
  \/ Cut
  \/ Follow

\* The server's threads go on, and so does the tab.
Spec == Init /\ [][Next]_vars /\ WF_vars(Serve) /\ WF_vars(Follow)
=============================================================================
