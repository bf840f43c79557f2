CONSTANTS
  a = a  b = b
  Domain = {a}
  Jobs = {"monitoring", "top_ips"}
  BatchSize = 1
  MaxOverlap = 1
SPECIFICATION RoundsSpec
PROPERTIES DepartedLeaves
