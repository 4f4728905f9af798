---------------------------- MODULE RunLifecycle ----------------------------
(***************************************************************************)
(* What a recovery run promises the people who watch and steer it, whatever*)
(* engine drives it and however often the process dies: its status walks   *)
(* the status graph, a terminal status is final, a review ends with a      *)
(* reviewer's decision or with the run, a recorded cancellation stays on   *)
(* record.  With OneReview a single decision ends the one review there is; *)
(* with OneVoice a later review is decided by the same request again.      *)
(***************************************************************************)
EXTENDS RunStateMachine

CONSTANTS
  Reviewer,                  \* the resume requests that can carry a decision
  OneReview,                 \* is a decided run never put to review again
  OneVoice                   \* does a single request decide

VARIABLES
  status,                    \* the run's published status
  decisions,                 \* the requests whose decision was taken
  cancelled                  \* a cancellation is on record

vars == <<status, decisions, cancelled>>

Init ==
  /\ status = "queued"
  /\ decisions = {}
  /\ cancelled = FALSE

(* An engine, or the failure handler, moves the run on. *)
Advance ==
  /\ \E s \in Allowed[status] :
       /\ status = "waiting_approval" => s \in Terminal
       /\ status' = s
  /\ UNCHANGED <<decisions, cancelled>>

(* A reviewer's decision ends the wait. *)
Decide(r) ==
  /\ status = "waiting_approval"
  /\ OneReview => decisions = {}
  /\ OneVoice => decisions \subseteq {r}
  /\ status' = "running"
  /\ decisions' = decisions \cup {r}
  /\ UNCHANGED cancelled

(* A cancellation goes on record; the status follows in a later step. *)
RequestCancel ==
  /\ status \notin Terminal
  /\ cancelled' = TRUE
  /\ UNCHANGED <<status, decisions>>

Next == Advance \/ RequestCancel \/ \E r \in Reviewer : Decide(r)

Spec == Init /\ [][Next]_vars
=============================================================================
