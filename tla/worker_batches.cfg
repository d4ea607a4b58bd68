SPECIFICATION FairSpec
CONSTANTS
  Rows = 2
  Workers = {w1}
  MaxAge = 1
  RailTime = 0
  Expiries = {0}
  TTL = 1
  BatchSize = 2
  FAILURE_CEILING = 1
  Progress = {"settled"}
  MaxTick = 1
  MaxMishaps = 1
  None = None
  Gone = Gone
INVARIANT
  StopHandsBack
PROPERTIES
  NoEarlyConclusion
  EveryRequestConcludes
