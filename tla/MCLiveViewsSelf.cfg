\* Tables assigned inside themselves.
SPECIFICATION Spec
CONSTANT
  Bounds <- Small
VIEW DocumentView
CHECK_DEADLOCK FALSE
INVARIANT
  SelfInstallSucceeds
