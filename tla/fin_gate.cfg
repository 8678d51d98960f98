CONSTANTS
  Workers = {w1, w2}
  ConfirmJobs = {c1, c2}
  TicketJobs = {t1}
  Deliveries = {d1, d2}
  Operators = {}
  OrderIds = {o1}
  NoOrder = NoOrder
  NoJob = NoJob
  Tries = 2
  Offers = {"mock_offer", "real_offer"}
  RealFinalization = FALSE
  SyncEnabled = TRUE
  Faults = {}
SPECIFICATION FairSpec
CHECK_DEADLOCK FALSE
PROPERTIES
  MockBookingIsTicketed
  GatedBookingIsHeld
