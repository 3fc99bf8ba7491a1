\* Two edits of short documents, one edit of deeply nested ones.
SPECIFICATION Spec
CONSTANTS
  Key     = {a, b}
  Values <- EmptyValues
  Bodies <- EmptyBody
  Scopes <- TwiceOrNested
SYMMETRY KeySymmetry
VIEW DocumentView
CHECK_DEADLOCK FALSE
INVARIANTS
  FilingAsBuilt
PROPERTIES
  ImplementsPlain
