SPECIFICATION FairSpec
CONSTANTS
  Countries = {c1}
  Everywhere = Everywhere
  Interval = 3
  ThrottlePause = 2
  FailuresToDown = 2
  STALE_ROUNDS = 3
  MaxMishaps = 1
  Hour = 6
  None = None
INVARIANT
  HealthInv
PROPERTIES
  DownIsEarned
  PauseHides
  OutageStaysHidden
  
  RecoveredIsServed
