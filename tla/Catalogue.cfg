SPECIFICATION FairSpec
CONSTANTS
  r1 = r1  r2 = r2  p1 = p1  p2 = p2
  Readers = {r1, r2}
  Products = {p1, p2}
  Listing = Listing
  Asked = {p1, Listing}
  Changing = {p2}
  Fragile = {"saleor", "redis", "mongo"}
  MaxFaults = 1
  Nothing = Nothing  Free = Free  Orphan = Orphan
INVARIANTS TypeOK SingleFlight NoFalseAlarm KnownIsServed
PROPERTY KeepsServing
