\* One payment, refunded and then disputed.
SPECIFICATION Spec
CONSTANTS
  ann = ann
  bob = bob
  p1 = p1
  p2 = p2
  p3 = p3
  s1 = s1
  Nobody = Nobody
  Accounts = {ann, bob}
  Purchases = {p1}
  Subs = {}
  Buyer <- MixedBuyers
  Seats = 1
  MaxEvents = 4
  MaxPeriods = 2
INVARIANT RefundIsFinal
\* Everything may have been bought, delivered and settled.
CHECK_DEADLOCK FALSE
