SPECIFICATION Spec
CONSTANTS
  c1 = c1
  c2 = c2
  low = low
  mid = mid
  high = high
  Countries = {c1}
  Serves <- ServedOne
  Limit <- Limits
  Floor <- Configured
  Buyers = {b}
  Refresh = refresh
  Amounts = {1, 2, 3, 4}
  TTL = 1
  CallTime = 1
  Window = 0
  Grace = 1
  MaxTime = 5
  None = None
VIEW LiveState
CHECK_DEADLOCK FALSE
INVARIANTS
  CatalogInv
  FloorIsACeiling
  HealthOnlyNarrows
PROPERTIES
  ListIsTrue
