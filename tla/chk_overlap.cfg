CONSTANTS
  MaxPayments = 1
  MaxEvents = 2
  Unheard = {}
  IntentRequests = {r1, r2}
  Deliveries = {d1, d2}
  DetailsRequests = {q1}
  Overlap = TRUE
SPECIFICATION Spec
CHECK_DEADLOCK FALSE
SYMMETRY Symmetry
INVARIANTS
  TypeOK
  NothingForFree
  IntentAmountIsPaymentAmount
