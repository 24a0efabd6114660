SPECIFICATION Spec
CONSTANTS
  OnLimit = 10
  OffLimit = 5
INVARIANTS NoneMissed ToldAgrees
PROPERTY NoGlitch
CHECK_DEADLOCK FALSE
