SPECIFICATION Spec
CONSTANTS
  b1 = b1
  b2 = b2
  p1 = p1
  Bundle = {b1}
  PlainBooking = {p1}
  Size <- OneTicket
  Misnamed = {"show", "inbound", "return"}
  Faulty <- RepeatingHandlers
  MaxFaults = 1
INVARIANT TypeOK
INVARIANT VerdictIsBacked
INVARIANT LegsInOrder
INVARIANT CompensatesOnlyFailures
CHECK_DEADLOCK FALSE
