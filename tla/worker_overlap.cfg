SPECIFICATION Spec
CONSTANTS
  Rows = 1
  Workers = {w1, w2}
  MaxAge = 2
  RailTime = 1
  Expiries = {0, 3}
  TTL = 1
  BatchSize = 2
  FAILURE_CEILING = 1
  Progress = {"settling", "settled", "failed"}
  MaxTick = 2
  MaxMishaps = 1
  None = None
  Gone = Gone
SYMMETRY Replicas
INVARIANT
  TypeOK
PROPERTIES
  NoStaleAdvance
  ImplementsLifecycle
