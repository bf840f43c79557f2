CONSTANTS
  Domain = {a, b}
  Jobs = {"monitoring"}
  BatchSize = 1
  MaxOverlap = 1
SPECIFICATION Spec
INVARIANT DataTimestampHasSnapshot
