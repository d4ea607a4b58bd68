SPECIFICATION FairSpec
CONSTANTS
  Jobs = {sell}
  Countries = {c1, c2}
  CountryAnswers = {"listed", "failed"}
  MaxBackoff = 1
  Slots = {1, 2}
  None = None
CHECK_DEADLOCK FALSE
INVARIANTS
  LockInv
  StoppedIsQuiet
PROPERTIES
  KeptUnlessTold
  RefreshedAgain
