CONSTANTS
  Workers = {w1}
  ConfirmJobs = {c1, c2}
  TicketJobs = {t1}
  Deliveries = {d1, d2}
  Operators = {a1}
  OrderIds = {o1, o2}
  NoOrder = NoOrder
  NoJob = NoJob
  Tries = 2
  Offers = {"real_offer"}
  RealFinalization = TRUE
  SyncEnabled = TRUE
  Faults = {"provider_error", "rejected", "lost_response", "queue_down", "crash", "crash_in_hook", "rollback"}
SPECIFICATION Spec
CHECK_DEADLOCK FALSE
SYMMETRY Symmetry
INVARIANTS
  FailedBookingHasReason
PROPERTIES
  RetryNeverRevives
