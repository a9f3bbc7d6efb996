\* A subscriber and another account, one founding seat, three events of the provider's own.
SPECIFICATION FairSpec
CONSTANTS
  ann = ann
  bob = bob
  p1 = p1
  p2 = p2
  p3 = p3
  s1 = s1
  Nobody = Nobody
  Accounts = {ann, bob}
  Purchases = {p1, p2}
  Subs = {s1}
  Buyer <- MixedBuyers
  Seats = 1
  MaxEvents = 3
  MaxPeriods = 2
INVARIANTS
  TypeOK
  OnlyANewerEventGivesBack
  WithdrawnIsCancelled
PROPERTIES
  
  EveryPaymentIsSettled
\* Everything may have been bought, delivered and settled.
CHECK_DEADLOCK FALSE
