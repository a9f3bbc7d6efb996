\* One subscription, renewed and then cancelled.
SPECIFICATION Spec
CONSTANTS
  ann = ann
  bob = bob
  p1 = p1
  p2 = p2
  p3 = p3
  s1 = s1
  Nobody = Nobody
  Accounts = {ann, bob}
  Purchases = {}
  Subs = {s1}
  Buyer <- MixedBuyers
  Seats = 1
  MaxEvents = 3
  MaxPeriods = 2
INVARIANT PaidPeriodKept
\* Everything may have been bought, delivered and settled.
CHECK_DEADLOCK FALSE
