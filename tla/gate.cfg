SPECIFICATION Spec
CONSTANTS
    full = full
    lite = lite
    Rings <- MCRings
    Indices = {1, 2}
    Populated <- MCPopulated
    Products = {coinage}
    Redeems = {r1, r2, r3}
    MaxRedeems = 1
    ChallengeTtl = 1
    TokenTtl = 1
    ReadTime = 1
    MaxRevision = 2
    MaxTime = 2
SYMMETRY Symmetric
CHECK_DEADLOCK FALSE
INVARIANTS
  GateInv
  AcceptedIsRecent
PROPERTIES
  MemberIsNotRefused
