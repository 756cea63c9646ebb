SPECIFICATION FairRunSpec
CONSTANTS
  MaxRequests = 2
  Unreliable = {"events", "commands", "forwarder", "migration", "http"}
  MaxFailures = 2
INVARIANT NothingInTheWorks
PROPERTY Returns
CHECK_DEADLOCK FALSE
