SPECIFICATION FairSpec
CONSTANTS
  Alerts <- TwoAlerts
  History <- InTurn
  MaxFaults = 2
  Invoice = {"i1", "i2"}
  Payment = {"a", "b", "c", "d"}
  Publishers = {"p1", "p2", "p3"}
  Events <- Published
INVARIANT TypeOK
INVARIANT UpdatesInOrder
INVARIANT LostOnlyOvertaken
INVARIANT ReadModelUpdated
PROPERTY Converges
CHECK_DEADLOCK FALSE
