\* The smallest instance: a run of a snapshot, a run of a later one in which a table is
\* gone, one reviewer.
SPECIFICATION Spec
CONSTANTS
  a = a  b = b  r1 = r1  r2 = r2  r3 = r3  w1 = w1  w2 = w2
  Snapshots = {a, b}
  Gone = {b}
  Retyped = {}
  Keyless = {a}
  Roots = {f1, f2}
  f1 = f1  f2 = f2
  Doubts = {}
  Findings <- InTurn
  Runs = {r1, r3}
  SnapshotOf <- Surveys
  Reviewers = {w1}
  Authorized = {w1}
  MaxReviews <- Patience
  MaxForgets = 1
  Actions = {"accept", "reject"}
CHECK_DEADLOCK FALSE
INVARIANTS StaleIsNotReused
