SPECIFICATION Spec
CONSTANTS
  Jobs = {sell}
  Countries = {c1, c2}
  CountryAnswers = {"listed", "failed", "unreadable"}
  MaxBackoff = 1
  Slots = {1, 2}
  None = None
CHECK_DEADLOCK FALSE
PROPERTY
  KeptUnlessTold
