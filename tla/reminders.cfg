CONSTANTS
  MaxIds = 2
  MaxTime = 1
  Plans <- SomePlans
  MaxFaults = 1
SPECIFICATION FairSpec
INVARIANTS SentOnce NoneLost CancelHolds
PROPERTIES DueIsSettled
CHECK_DEADLOCK FALSE
