SPECIFICATION LeavesSpec
CONSTANTS
  LeafHosts = {"h1", "h2"}
  BadLeafHosts = {"bad"}
  LeafCallers = {"lc1", "lc2"}
  LeafCapacities = {1, 2}
  LeafLife = 2
  LeafSkew = 1
  CALife = 3
  CASkew = 2
  LastTime = 4
  MaxGets = 3
INVARIANTS ServedLeafIsValid
CHECK_DEADLOCK FALSE
