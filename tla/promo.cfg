CONSTANTS
  b1 = b1
  b2 = b2
  c1 = c1
  c2 = c2
  MinimumTotal = 100
  MaxPercentage = 300000
  Bookings = {b1, b2}
  Fare <- Fares
  Codes = {c1, c2}
  Terms <- CodeTerms
  UsageLimit <- Limits
  RuleSets <- Rules
  Requests = {r1, r2}
SPECIFICATION Spec
CHECK_DEADLOCK FALSE
INVARIANTS
  UsedWithinLimit
  HoldersAreCounted
  PriceRowsAddUp
PROPERTIES
  PaidPriceIsFixed
