SPECIFICATION Spec
CONSTANTS
  Resource = {a, b}
  MaxTime = 3
INVARIANT
  LastSuccessIsOldest
CHECK_DEADLOCK FALSE
