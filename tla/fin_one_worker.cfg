CONSTANTS
  Workers = {w1}
  ConfirmJobs = {c1, c2}
  TicketJobs = {t1}
  Deliveries = {d1, d2}
  Operators = {}
  OrderIds = {o1, o2}
  NoOrder = NoOrder
  NoJob = NoJob
  Tries = 2
  Offers = {"real_offer"}
  RealFinalization = TRUE
  SyncEnabled = TRUE
  Faults = {"provider_error", "rejected"}
SPECIFICATION FairSpec
CHECK_DEADLOCK FALSE
INVARIANTS
  TypeOK
  AtMostOneOrder
  FailedBookingHasNoOrder
  TicketedIsBacked
PROPERTIES
  LifecycleSpec
  TimelineNeverShrinks
  IssuedTicketArrives
