CONSTANTS
  Workers = {w1, w2}
  ConfirmJobs = {c1, c2}
  TicketJobs = {}
  Deliveries = {d1}
  Operators = {}
  OrderIds = {o1, o2}
  NoOrder = NoOrder
  NoJob = NoJob
  Tries = 1
  Offers = {"real_offer"}
  RealFinalization = TRUE
  SyncEnabled = TRUE
  Faults = {"crash", "rollback", "provider_error"}
SPECIFICATION FairSpec
CHECK_DEADLOCK FALSE
INVARIANTS
  OrdersOnlyForPaidBookings
PROPERTIES
  ConfirmingIsLeft
