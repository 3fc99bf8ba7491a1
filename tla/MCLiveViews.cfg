\* Calls on any table of a document, and on those that have left it.
SPECIFICATION Spec
CONSTANT
  Bounds <- Small
VIEW DocumentView
CHECK_DEADLOCK FALSE
INVARIANTS
  TypeOK
  PublicAsBuilt
  OrphansConsistent
PROPERTIES
  OnlyThatBindingChanges
