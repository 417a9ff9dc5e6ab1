CONSTANTS
  r1 = r1  r2 = r2  r3 = r3
  Requests = {r1, r2}
  MaxWaiting = 1
  HeadersMayFail = TRUE
SPECIFICATION Spec
INVARIANT NothingLeaks
