SPECIFICATION Spec
CONSTANTS
  Requests = {r1, r2}
  Keys = {k1}
  Terms = {buy}
  SellTerms = {}
  None = None
SYMMETRY Symmetry
CHECK_DEADLOCK FALSE
PROPERTY
  WithdrawnNeverHandedOver
