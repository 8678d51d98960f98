CONSTANTS
  MaxPayments = 1
  MaxEvents = 1
  Unheard = {}
  IntentRequests = {t1}
  Deliveries = {d1}
  DetailsRequests = {}
  Overlap = FALSE
SPECIFICATION PageSpec
CHECK_DEADLOCK FALSE
PROPERTIES
  CancelledIsNeverPaid
