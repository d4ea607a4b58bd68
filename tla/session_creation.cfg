SPECIFICATION Spec
CONSTANTS
  Requests = {r1, r2, r3}
  Keys = {k1}
  Terms = {buy, sell}
  SellTerms = {sell}
  None = None
SYMMETRY Symmetry
VIEW LiveState
CHECK_DEADLOCK FALSE
INVARIANTS
  TypeOK
  OneSurfacePerKey
  OrphanStaysUnknown
  AnswersAreTrue
PROPERTIES
  ReleasedOnlyWhenDeclined
  RowsNeverRetract
  ImplementsLifecycle
