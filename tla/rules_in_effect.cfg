SPECIFICATION Spec
CONSTANTS
  Rules = {"r1", "r2"}
  NoRule = "none"
  Kept = {"r1"}
  Checks = {"c1", "c2"}
  Nobody = "nobody"
  Changes = {}
  MaxChanges = 0
INVARIANTS
  RulesInEffect
CHECK_DEADLOCK FALSE
