SPECIFICATION Spec
CONSTANTS
  c1 = c1
  c2 = c2
  low = low
  mid = mid
  high = high
  Countries = {c1, c2}
  Serves <- ServedTwo
  Limit <- LimitsLow
  Floor = None
  Buyers = {}
  Refresh = refresh
  Amounts = {1, 2}
  TTL = 0
  CallTime = 0
  Window = 2
  Grace = 2
  MaxTime = 4
  None = None
CHECK_DEADLOCK FALSE
PROPERTY
  RetiredStaysRetired
