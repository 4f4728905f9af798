\* A rejection that dies before it is applied, and its retry.
SPECIFICATION Spec
CONSTANTS
  alice = alice
  bob = bob
  carol = carol
  k1 = k1
  k2 = k2
  x1 = x1
  x2 = x2
  Operation = {o1}
  RequestId = {q1}
  Actor <- People
  Holds <- Offices
  ProductionPlanner = {alice}
  Plans <- OnePlan
  Caller <- TwoCallers
  Executor <- TwoExecutors
  MaxCalls = 2
  MaxCrashes = 1
SYMMETRY Interchangeable
CHECK_DEADLOCK FALSE
INVARIANTS
  AckedRejectionRefuses
