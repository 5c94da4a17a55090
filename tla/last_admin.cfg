SPECIFICATION Spec
CONSTANTS
  Admins = {"a", "b"}
  Seeds = {"a"}
  MaxRequests = 2
  MaxRestarts = 0
INVARIANTS
  AdminRemains
CHECK_DEADLOCK FALSE
