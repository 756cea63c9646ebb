SPECIFICATION FairSpec
CONSTANTS
  b1 = b1
  b2 = b2
  p1 = p1
  Bundle = {b1}
  PlainBooking = {p1}
  Size <- OneTicket
  Misnamed = {}
  Faulty = {}
  MaxFaults = 0
PROPERTY PlainConfirmationIgnored
CHECK_DEADLOCK FALSE
