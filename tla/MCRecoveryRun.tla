--------------------------- MODULE MCRecoveryRun ---------------------------
(***************************************************************************)
(* Instances of RecoveryRunProperties for TLC.                             *)
(***************************************************************************)
EXTENDS RecoveryRunProperties, TLC

CONSTANTS r1, r2, c1, c2

SmallFanOut == {"column", "orm"}
ColumnOnly == {"column"}
OneReviewer == {r1}
TwoReviewers == {r1, r2}
OneCancel == {c1}
TwoCancels == {c1, c2}
None == {}
=============================================================================
