SPECIFICATION FairSpec
CONSTANTS
  a = a
  b = b
  o1 = o1
  o2 = o2
  r1 = r1
  r2 = r2
  r3 = r3
  Product = {a, b}
  Order = {o1, o2}
  Demand <- Demands
  Request = {r1, r2, r3}
  OrderOf <- OrdersOf
  MaxStock = 4
  MaxFaults = 2
INVARIANT StockConserved
PROPERTY ImplementsOrderOutcome
PROPERTY Answered
CHECK_DEADLOCK FALSE
