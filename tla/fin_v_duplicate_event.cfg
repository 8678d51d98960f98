CONSTANTS
  Workers = {w1, w2}
  ConfirmJobs = {c1, c2}
  TicketJobs = {}
  Deliveries = {d1, d2}
  Operators = {}
  OrderIds = {o1, o2}
  NoOrder = NoOrder
  NoJob = NoJob
  Tries = 3
  Offers = {"real_offer"}
  RealFinalization = TRUE
  SyncEnabled = TRUE
  Faults = {}
SPECIFICATION Spec
CHECK_DEADLOCK FALSE
INVARIANTS
  AtMostOneOrder
