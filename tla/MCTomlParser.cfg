SPECIFICATION Spec
CONSTANTS
  Key = {a, b}
  Vals = {"v"}
  Bounds <- MCBounds
SYMMETRY KeySymmetry
CHECK_DEADLOCK FALSE
INVARIANTS
  TypeOK
  RefusesExactlyRedefinitions
  BuilderFollows
  OwnerIsCurrent
