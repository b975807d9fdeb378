SPECIFICATION Spec
CONSTANTS
  r1 = r1  r2 = r2  k1 = k1  k2 = k2  k3 = k3
  Requests = {r1, r2}
  Fronts = {"html", "api"}
  Keys = {k1, k2}
  MaxUnits = 2
  MaxFaults = 1
  NoKey = NoKey  Free = Free  Orphan = Orphan
CHECK_DEADLOCK FALSE
SYMMETRY MCSymmetry
INVARIANTS TypeOK SoldAgainForAReason ClearedIsBought
