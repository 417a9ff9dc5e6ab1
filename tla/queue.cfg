CONSTANTS
  r1 = r1  r2 = r2  r3 = r3  r4 = r4
  Requests = {r1, r2, r3, r4}
  MaxWaiting = 2
SPECIFICATION FairQueueSpec
INVARIANTS HeadIsAwake
PROPERTIES TurnstileSpec NobodyStarves
