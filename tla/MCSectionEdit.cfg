\* One edit of any document of three lines over two keys.
SPECIFICATION Spec
CONSTANTS
  Key     = {a, b}
  Values <- AllValues
  Bodies <- AllBodies
  Scopes <- OneEdit
SYMMETRY KeySymmetry
VIEW DocumentView
CHECK_DEADLOCK FALSE
INVARIANTS
  TypeOK
  LinesStayInScope
  FilingAsBuilt
  ViewsMatchText
PROPERTIES
  ImplementsPlain
  OtherLinesKept
