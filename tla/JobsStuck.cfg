\* One job and one cancellation, under the fairness of the pool.
CONSTANTS
  alice = alice
  root = root
  NoJob = NoJob
  Jobs = {j1}
  Accounts = {alice, root}
  Admins = {root}
  Requests <- MixedRequests
  Workers = 1
  SlotsPerAccount = 1
  Slots = 2
  RunsPerMonth <- TwoRuns
  MaxCancels = 1
  MaxAged = 0
  MaxCrashes = 0
SPECIFICATION FairSpec
CHECK_DEADLOCK FALSE
PROPERTIES
  EveryJobEnds
