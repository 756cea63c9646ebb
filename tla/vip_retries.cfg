SPECIFICATION FairSpec
CONSTANTS
  b1 = b1
  b2 = b2
  p1 = p1
  Bundle = {b1}
  PlainBooking = {}
  Size <- TwoTickets
  Misnamed = {"show", "inbound", "return"}
  Faulty <- RepeatableHandlers
  MaxFaults = 1
INVARIANT OneVerdict
INVARIANT FlightsReleased
INVARIANT NoDoubleRefund
INVARIANT FlightFailureRefundsAll
PROPERTY BundleSettled
CHECK_DEADLOCK FALSE
