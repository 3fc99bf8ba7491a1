SPECIFICATION MCSpec
CONSTANTS
  NULL = NULL
  Slot = {s1, s2, s3, s4, s5}
  OrderGap = 3
  OrderMinStep = 2
  MaxRun = 2
  KeyBound = 8
VIEW ListView
INVARIANTS
  EndsAgree
  LinkTestExact
PROPERTIES
  ImplementsStream
