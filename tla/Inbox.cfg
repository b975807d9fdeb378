SPECIFICATION FairSpec
CONSTANTS
  o1 = o1  paid1 = paid1  refund1 = refund1  cancel1 = cancel1
  Orders = {o1}
  Matched = {o1}
  Events = {paid1, refund1, cancel1}
  TypeOf <- MCTypeOf
  OrderOf <- MCOrderOf
  Workers = {w1, w2}
  Batch = 2
  MaxCopies = 2
  MaxFaults = 2
  Nobody = Nobody
INVARIANTS TypeOK LocalInStep
PROPERTIES NeverRegresses EventsSettle PaymentArrives
