CONSTANTS
  alice = alice
  root = root
  NoJob = NoJob
  Jobs = {j1, j2, j3}
  Accounts = {alice, root}
  Admins = {root}
  Requests <- MixedRequests
  Workers = 2
  SlotsPerAccount = 1
  Slots = 2
  RunsPerMonth <- TwoRuns
  MaxCancels = 0
  MaxAged = 1
  MaxCrashes = 0
SYMMETRY JobSymmetry
SPECIFICATION Spec
CHECK_DEADLOCK FALSE
INVARIANTS
  QuotaHeld
  SlotsHeld
