\* Two requests in flight at once, one pool thread each, two cancellations
\* (two can collide with one job's last two transactions), one crash.
CONSTANTS
  alice = alice
  root = root
  NoJob = NoJob
  Jobs = {j1, j2}
  Accounts = {alice, root}
  Admins = {root}
  Requests <- MixedRequests
  Workers = 1
  SlotsPerAccount = 1
  Slots = 2
  RunsPerMonth <- TwoRuns
  MaxCancels = 2
  MaxAged = 0
  MaxCrashes = 1
SYMMETRY JobSymmetry
SPECIFICATION Spec
CHECK_DEADLOCK FALSE
INVARIANTS
  IInv
  ResultIsTheRun
  LogClosesOnce
  ExecutionAgrees
  CancelStopsTheRun
PROPERTIES
  ImplementsLifecycle
