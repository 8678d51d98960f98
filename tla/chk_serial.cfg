CONSTANTS
  MaxPayments = 2
  MaxEvents = 1
  Unheard = {}
  IntentRequests = {r1}
  Deliveries = {d1}
  DetailsRequests = {q1}
  Overlap = FALSE
SPECIFICATION FairSpec
CHECK_DEADLOCK FALSE
INVARIANTS
  OneLivePayment
  PaidTheTotal
PROPERTIES
  PaymentLifeSpec
  LifecycleSpec
  ChargeIsTakenUp
