\* Two operations that may share a plan, a plain one or one that asks for two
\* roles, two approvers, two executors, two decisions and a crash.
SPECIFICATION Spec
CONSTANTS
  alice = alice
  bob = bob
  carol = carol
  k1 = k1
  k2 = k2
  x1 = x1
  x2 = x2
  Operation = {o1, o2}
  RequestId = {q1, q2}
  Actor <- People
  Holds <- Offices
  ProductionPlanner = {alice}
  Plans <- SomePlans
  Caller <- TwoCallers
  Executor <- TwoExecutors
  MaxCalls = 2
  MaxCrashes = 1
SYMMETRY Interchangeable
CHECK_DEADLOCK FALSE
INVARIANTS
  TypeOK OnlyGranted OutcomeIsTold OneDecisionPerRequest AppliedOnce
PROPERTIES
  ApprovalSpec
