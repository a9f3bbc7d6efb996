\* One job, followed once: the race needs nothing more.
CONSTANTS
  alice = alice
  root = root
  NoJob = NoJob
  Jobs = {j1}
  Watched = {j1}
  Accounts = {alice, root}
  Admins = {root}
  Requests <- RootRequests
  Workers = 1
  SlotsPerAccount = 1
  Slots = 2
  RunsPerMonth <- TwoRuns
  MaxCancels = 0
  MaxAged = 0
  MaxCrashes = 0
SPECIFICATION StreamSpec
CHECK_DEADLOCK FALSE
INVARIANTS
  FinishedStreamToldOutcome
