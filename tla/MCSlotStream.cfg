SPECIFICATION MCSpec
CONSTANTS
  Slot = {s1, s2, s3, s4, s5, s6}
  OrderGap = 3
  OrderMinStep = 2
  MaxRun = 2
  KeyBound = 12
VIEW KeyView
INVARIANTS
  OrderMonotone
PROPERTIES
  KeysNeverReorder
