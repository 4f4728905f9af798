--------------------------- MODULE LegacyProperties ---------------------------
(* What an analysis of the legacy engines must guarantee.                    *)
EXTENDS AnalysisTab

(* Every variable keeps to its domain. *)
LegacyTypeOK ==
  /\ request \in {"none", "call", "stream"} /\ engine \in {"manual", "graph"}
  /\ at \in {"idle", "working", "remember", "record", "complete", "done", "raised", "gone"}
  /\ steps \in [Workers -> WorkerStatus \cup {"none", "skipped"}]
  /\ status \in RunStatus \cup {"running"} /\ record \in RunStatus \cup {"none"}
  /\ memory \in {"none", "relations", "history"}
  /\ store \in [status: RunStatus \cup {"none", "running"}, result: BOOLEAN]
  /\ lines \in Seq([type: LineType, worker: Workers \cup {Nothing},
                    status: WorkerStatus \cup RunStatus \cup {"running", "skipped"}])
  /\ wire \in {"none", "open", "closed", "broken"}
  /\ tab \in [at: {"idle", "reading", "fetching", "shown", "failed"},
              data: RunStatus \cup {Nothing}]
  /\ seen \in [Workers -> WorkerStatus \cup {"none", "skipped"}] /\ crashes \in 0 .. MaxCrashes

(* A run is "completed" only when every worker did all of its work and both  *)
(* the memory and the monitor have the run: one failure among nine places    *)
(* lowers the status.                                                        *)
SuccessIsWhole ==
  store.status = "completed" =>
    /\ \A w \in Required: steps[w] = "success"
    /\ steps["orm"] \in {"success", "skipped"} /\ memory = "history" /\ record = "completed"

(* What the memory, the monitor and the run store keep of a run agrees:      *)
(* relations enter the memory of later runs only when every required worker  *)
(* gave a result and the ending is no failure, and the run store, which      *)
(* get_run asks first, tells what the monitor tells after a restart.         *)
KeptOutcomesAgree ==
  /\ memory # "none" =>
       /\ \A w \in Required: steps[w] \in Kept
       /\ store.result => store.status \in Good
  /\ store.result /\ record # "none" => record = store.status

(* The tab shows relations of good runs only, under the status that the      *)
(* monitor has for them, and no step that is not so.                         *)
TabShowsTheOutcome ==
  /\ \A w \in Workers: seen[w] \in {"none", steps[w]}
  /\ tab.at = "shown" =>
       /\ tab.data \in Good /\ record \in {"none", tab.data}
       /\ \A w \in Required: steps[w] \in Kept

(* Whatever becomes of the response, the user gets relations or an error.    *)
TabIsAnswered == tab.at = "reading" ~> tab.at \in {"shown", "failed"}

(* An ORM worker that fails leaves a run of good required steps partial.     *)
OptionalErrorIsPartial ==
  /\ store.result /\ steps["orm"] = "error"
  /\ \A w \in Required: steps[w] = "success"
  => store.status = "partial"
=============================================================================
