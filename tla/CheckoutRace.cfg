SPECIFICATION Spec
CONSTANTS
  r1 = r1  r2 = r2  k1 = k1  k2 = k2  c1 = c1  c2 = c2  c3 = c3  u1 = u1
  Requests = {r1, r2}
  Reconcilers = {rec}
  Users = {u1}
  Keys = {k1}
  OwnerOf <- MCOwnerOf
  Checkouts = {c1, c2}
  Outside = {}
  First = 2
  LeaseMayLapse = FALSE
  MaxFaults = 0
  NoCheckout = NoCheckout  NoKey = NoKey  NoRow = NoRow  Unmade = Unmade
  Free = Free  Orphan = Orphan
SYMMETRY Symmetric
INVARIANT BookedIsCompleted
