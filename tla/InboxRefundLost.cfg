SPECIFICATION FairSpec
CONSTANTS
  o1 = o1  paid1 = paid1  refund1 = refund1  cancel1 = cancel1
  Orders = {o1}
  Matched = {o1}
  Events = {paid1, refund1}
  TypeOf <- MCTypeOf
  OrderOf <- MCOrderOf
  Workers = {w1}
  Batch = 2
  MaxCopies = 1
  MaxFaults = 1
  Nobody = Nobody
PROPERTY RefundArrives
