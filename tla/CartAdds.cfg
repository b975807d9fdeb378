SPECIFICATION Spec
CONSTANTS
  r1 = r1  r2 = r2  p1 = p1  p2 = p2  p3 = p3
  Requests = {r1, r2}
  Products = {p1, p2}
  Operations = {"add"}
  MAX_ITEM_QUANTITY = 3
  MAX_REQUEST_QUANTITY = 2
  MAX_CART_ITEMS = 2
  MaxFaults = 0
  NoProduct = NoProduct
SYMMETRY Symmetric
INVARIANT AdditionsCount
