CONSTANTS
  Jobs = {j1, j2}
  Accounts = {ana, ben}
  NoKey = noKey
  Connects = {k1}
  MaxOperations = 2
  Fees = {100, 200}
SYMMETRY Symmetry
SPECIFICATION Spec
INVARIANTS
  TypeOK
  RequirementsAreThresholds
  SignedAsRequired
  BumpedWhenEffective
CHECK_DEADLOCK FALSE
