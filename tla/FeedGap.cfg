\* One page, two rows, and room for all of them in every poll.
SPECIFICATION FeedSpec
CONSTANTS
  page = page
  ann = ann
  Nobody = Nobody
  Items = {1, 2}
  Kind <- OneKind
  Actor <- NobodysOwn
  Collectors = 1
  Subscribers = {page}
  Who <- AnnsPage
  Admins = {}
  ReadCap = 4
  PollLimit = 4
  Replay = 3
  PerAccount = 1
  Total = 1
  MaxClock = 2
  MaxConnects = 2
INVARIANT NothingLost
CHECK_DEADLOCK FALSE
