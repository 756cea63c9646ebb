SPECIFICATION FairSpec
CONSTANTS
  m1 = m1
  m2 = m2
  m3 = m3
  none = none
  Msg = {m1, m2, m3}
  MissingLink = {m1, m2}
  None = none
  MaxCommands = 2
  Faults <- Anything
  MaxFaults = 2
INVARIANT CompleteRound
INVARIANT NothingLost
INVARIANT BoundedCopies
PROPERTY RoundEnds
CHECK_DEADLOCK FALSE
