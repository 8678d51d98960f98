CONSTANTS
  r1 = r1
  r2 = r2
  n1 = n1
  n2 = n2
  Parties <- SmallParties
  Names = {n1, n2}
  MaxSearches = 2
  MaxBookings = 2
  Requests = {r1, r2}
  Overlap = FALSE
  FarBack = FALSE
SPECIFICATION Spec
CHECK_DEADLOCK FALSE
SYMMETRY Symmetry
INVARIANTS
  JourneyTypeOK
  NeverRefusedForCounts
  SelectedIsReachable
PROPERTIES
  UntouchedFormSavesItsNames
