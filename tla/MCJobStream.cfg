\* Two jobs share one pool thread, somebody follows the first, one crash.
\* No cancellation: JobsStuck shows what one can do to EveryJobEnds.
CONSTANTS
  alice = alice
  root = root
  NoJob = NoJob
  Jobs = {j1, j2}
  Watched = {j1}
  Accounts = {alice, root}
  Admins = {root}
  Requests <- RootRequests
  Workers = 1
  SlotsPerAccount = 1
  Slots = 2
  RunsPerMonth <- TwoRuns
  MaxCancels = 0
  MaxAged = 0
  MaxCrashes = 1
SPECIFICATION StreamSpec
CHECK_DEADLOCK FALSE
INVARIANTS
  StreamFaithful
PROPERTIES
  EveryJobEnds
  StreamCloses
