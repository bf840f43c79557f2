SPECIFICATION Spec
CONSTANTS
  Resource = {a, b}
  MaxTime = 3
INVARIANTS SuccessIsConjunction FreshnessNotOverstated SeriesMirrorMaps
PROPERTIES LastSuccessNeverRegresses
CHECK_DEADLOCK FALSE
