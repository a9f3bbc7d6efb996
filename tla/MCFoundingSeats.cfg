\* Three attempts at one seat, two of them of one account.
SPECIFICATION Spec
CONSTANTS
  ann = ann
  bob = bob
  p1 = p1
  p2 = p2
  p3 = p3
  s1 = s1
  Nobody = Nobody
  Accounts = {ann, bob}
  Purchases = {p1, p2, p3}
  Subs = {}
  Buyer <- SeatBuyers
  Seats = 1
  MaxEvents = 3
  MaxPeriods = 2
SYMMETRY Twins
INVARIANTS
  IInv
  SeatsNeverOversold
\* Everything may have been bought, delivered and settled.
CHECK_DEADLOCK FALSE
