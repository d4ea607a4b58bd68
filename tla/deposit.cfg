SPECIFICATION FairSpec
CONSTANTS
  Workers = {w1, w2}
  a = a
  a42 = a42
  b = b
  bad = bad
  Accounts = {a, b}
  Addresses = {a, a42, b, bad}
  Canonical <- Canonicalized
  Terms = {t}
  Endings = {"settled"}
  TTL = 1
  MaxTick = 1
  MaxChanges = 2
  None = None
CHECK_DEADLOCK FALSE
INVARIANTS
  DepositInv
  DisputedIsWithheld
PROPERTIES
  ConclusionsBringNoDeposit
  SteadyAnswersAreQuiet
  DisputeIsHeeded
