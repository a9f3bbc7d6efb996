\* Two pool threads; three public reads over two objects, four seconds; a page
\* over four rows, or three over two slots; two overlapping screenings of one
\* object; a pair over two intervals of the grid.
SPECIFICATION MCSpec
CONSTANTS
  ann = ann
  bob = bob
  addr = addr
  u = u
  w = w
  v1 = v1
  v2 = v2
  v3 = v3
  c1 = c1
  c2 = c2
  c3 = c3
  g = g
  h = h
  Keys <- MCKeys
  Limit <- MCLimit
  Window = 3
  IdleEviction = 3
  MaxWait = 1
  Threads = {1, 2}
  PoolKeys <- MCPoolKeys
  Horizon = 6
  Visitors = {v1, v2, v3}
  Callers = {ann, addr}
  Objects = {u, w}
  Known = {u}
  Requests <- AllRequests
  Ttl <- MCTtl
  MaxEntries = 2
  MaxBytes = 6
  MaxEntryBytes = 5
  MaxBatch = 2
  MaxSamples = 8
  SamplesPerUnit = 2
  ReadsPerWindow = 2
  UnitsPerWindow = 2
  UserTimes = 2
  ProxyTimes = 2
  MaxLatency = 1
  MaxChanges = 1
  MaxTime = 4
  Nobody = Nobody
  Items = {1, 2, 3, 4}
  Kind <- MCKind
  Actor <- MCActor
  Collectors = 2
  Subscribers = {c1, c2, c3}
  Who <- MCWho
  Admins = {}
  ReadCap = 2
  PollLimit = 2
  Replay = 3
  PerAccount = 2
  Total = 2
  MaxClock = 2
  MaxConnects = 2
  Runs = {1, 2}
  Target = u
  Group = {g, h}
  Bundled = {u, g}
  Place <- MCPlace
  Critical = {g}
  Interval = 1
  Cooldown = 1
  NoRow = NoRow
  MaxHours = 1
  Motions <- MCMotions
  Intervals = 2
  Fine = 4
  Coarse = 3
  Report = 2
  Tolerance = 1
INVARIANTS
  WindowHeld
  WorkBounded
  CacheWithinLimits
  StalenessBounded
  TrackIsCurrent
  OneChronology
  
  SlotsHeld
  LabelHonest
  PollsSpaced
  CooldownHonoured
  EveryApproachReported
PROPERTIES
  RetryAfterIsEnough
  StoredIsKept
SYMMETRY Twins
\* The clocks stop at their bounds, and a pair is screened once.
CHECK_DEADLOCK FALSE
