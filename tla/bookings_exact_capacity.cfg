SPECIFICATION Spec
CONSTANTS
  s1 = s1
  b1 = b1  b2 = b2  b3 = b3
  h1 = h1  h2 = h2  h3 = h3  c1 = c1  c2 = c2
  Show = {s1}
  BookingId = {b1, b2, b3}
  Request = {h1, h3}
  Req <- MCReq
  Capacity <- MCCapacity
  MaxFaults = 0
INVARIANT RefusedOnlyWhenFull
CHECK_DEADLOCK FALSE
