SPECIFICATION FairSpec
CONSTANTS
  t1 = t1  t2 = t2  new = new  old = old
  Ticket = {t1, t2}
  Booking = {new, old}
  BookingOf <- MCBookingOf
  LiveEvents <- AnyLive
  OldEvents <- OldHistory
  Faulty <- OneOfEach
  MaxFaults = 1
INVARIANT TypeOK
INVARIANT ConfirmedFirst
INVARIANT RecordedOrOwed
PROPERTY ImplementsView
PROPERTY LiveRecorded
PROPERTY MigrationEnds
CHECK_DEADLOCK FALSE
