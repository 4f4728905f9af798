-------------------------- MODULE RunStateMachine --------------------------
(***************************************************************************)
(* The status graph of a recovery run (workflow/state_machine.py) and the  *)
(* rule by which the reducer picks one status from the patches of parallel *)
(* stages (workflow/reducer.py).                                           *)
(***************************************************************************)
EXTENDS Naturals

Terminal == {"partial", "degraded", "blocked", "failed", "canceled",
             "completed", "expired"}

Status == {"queued", "running", "waiting_approval"} \cup Terminal

(* _ALLOWED: the statuses a run may move to.  A terminal one has none. *)
Allowed == [s \in Status |->
  CASE s = "queued"  -> {"running", "blocked", "canceled", "failed"}
    [] s = "running" -> (Terminal \ {"expired"}) \cup {"waiting_approval"}
    [] s = "waiting_approval" -> {"running", "canceled", "expired", "blocked"}
    [] OTHER -> {}]

(* RecoveryStateMachine.transition raises unless this holds. *)
CanMove(current, target) == target = current \/ target \in Allowed[current]

(* RecoveryStateMachine.terminal_for: the verdict of the last node. *)
TerminalFor(requiredFailed, optionalFailed, degraded, hasResult) ==
  CASE requiredFailed -> "failed"
    [] ~requiredFailed /\ ~hasResult -> "blocked"
    [] ~requiredFailed /\ hasResult /\ degraded -> "degraded"
    [] ~requiredFailed /\ hasResult /\ ~degraded /\ optionalFailed -> "partial"
    [] OTHER -> "completed"

(* _stronger_status orders the statuses a stage result can ask for; "none" *)
(* is a result that asks for no change.                                    *)
Severity == [s \in {"none", "blocked", "failed", "canceled"} |->
  CASE s = "none" -> 0 [] s = "blocked" -> 6 [] s = "failed" -> 7
    [] s = "canceled" -> 8]

(* merge_patches folds the requests of a group of stages to the gravest. *)
Gravest(requests) ==
  CHOOSE s \in requests : \A r \in requests : Severity[r] <= Severity[s]
=============================================================================
