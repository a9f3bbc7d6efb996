\* Three requests that write the ontology, with one restart; three that act on
\* two cases, an alert and their event.
SPECIFICATION MCSpec
CONSTANTS
  ann = ann
  bob = bob
  eve = eve
  adm = adm
  a = a
  b = b
  g = g
  h = h
  r1 = r1
  c1 = c1
  c2 = c2
  e1 = e1
  al1 = al1
  Nobody = Nobody
  Sessions = {1, 2, 3}
  Programs <- MCPrograms
  WatchLimit = 1
  MaxCrashes = 1
  Workers = {1, 2, 3}
  Requests <- MCRequests
  Cases = {c1, c2}
  Alerts = {al1}
  Events = {e1}
  EventOf <- MCEventOf
  Operators = {ann, bob, eve}
  Admins = {eve}
  AtFirst <- MCAtFirst
  NoValue = NoValue
  MaxWall = 1
INVARIANTS
  NoTwins
  StoredWhole
  LineageWhole
  EffectIsRecorded
  WatchQuota
  AuditInOrder
  AuditExplains
PROPERTY
  EveryRequestEnds
\* Every request ends, and there is no other.
CHECK_DEADLOCK FALSE
