CONSTANTS
  MaxPayments = 2
  MaxEvents = 1
  Unheard = {"requires_action", "processing"}
  IntentRequests = {t1}
  Deliveries = {d1}
  DetailsRequests = {}
  Overlap = FALSE
SPECIFICATION PageSpec
CHECK_DEADLOCK FALSE
INVARIANTS
  SimulateNeverLacksUrl
  PaidIsNotAskedAgain
PROPERTIES
  CheckoutSendsOnPaid
  PanelAnswers
