CONSTANTS
  a = a
  b = b
  one = one
  two = two
  None = None
  Key <- MCKey
  Scalar <- MCScalar
  Written <- MCWritten
  Start <- MCStart
  MaxViews = 14
SPECIFICATION Spec
VIEW view
CHECK_DEADLOCK FALSE
INVARIANTS
  TypeOK
  TextMatchesViews
  EntriesFound
  HostsExact
PROPERTIES
  OnlyThatTableChanges
  SortReachesText
