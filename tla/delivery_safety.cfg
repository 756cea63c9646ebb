SPECIFICATION FairSpec
CONSTANTS
  e1 = e1  e2 = e2  e3 = e3
  ops = ops  pm = pm  store = store
  Event = {e1, e2, e3}
  EventType = {"BookingMade_v1", "TicketBookingConfirmed_v1"}
  TypeOf <- MCType
  InOutbox = {e1, e2}
  Consumer = {ops, store}
  Subscribes <- MCSubscribes
  Faulty <- Group
  MaxFaults = 1
INVARIANT NothingLost
INVARIANT BoundedDuplicates
PROPERTY EventHandled
CHECK_DEADLOCK FALSE
