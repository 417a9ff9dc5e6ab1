CONSTANTS
  r1 = r1  r2 = r2  r3 = r3
  Requests = {r1, r2}
  MaxWaiting = 2
  HeadersMayFail = TRUE
SPECIFICATION CodeSpec
INVARIANTS ChildHasSlot OnlyHeadersLeak
PROPERTIES LeaversLetGo PlainIsAnswered EveryoneIsAnswered
CHECK_DEADLOCK FALSE
