SPECIFICATION FairSpec
CONSTANTS
  t1 = t1
  p1 = p1
  k1 = k1
  Ticket = {t1}
  Request = {p1}
  Body <- Posted
  RefundRequest <- OneRefund
  MaxRows = 1
  Faulty <- Anything
  MaxFaults = 1
INVARIANT OneReceipt
INVARIANT PaidAsAsked
INVARIANT EventsHaveEffect
PROPERTY CancelledLeaves
CHECK_DEADLOCK FALSE
