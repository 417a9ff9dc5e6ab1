CONSTANTS
  NChats = 2
  MaxRuns = 2
  MaxStops = 2
SPECIFICATION FairSpec
INVARIANTS NewestIsRegistered StoppedIsTold
PROPERTIES StopEndsRun StopIsAnnounced
