\* Any sequence of changes to documents of three or four lines.
SPECIFICATION Spec
CONSTANTS
  Key      = {a, b}
  Vals     = {"v", "{}"}
  MaxPath  = 2
  Lines   <- AllLines
  Fits    <- FewLines
SYMMETRY KeySymmetry
INVARIANTS
  TypeOK
  ProjectionsExact
  BodyTailsCurrent
  AssertionsHold
