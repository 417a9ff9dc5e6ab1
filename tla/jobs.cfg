CONSTANTS
  w1 = w1  w2 = w2  k1 = k1  k2 = k2
  Workers = {w1, w2}
  NoWorker = NoWorker
  Kinds = {k1, k2}
  MaxJobs = 2
  MaxAttempts = 2
  Modes <- EveryMode
SPECIFICATION FairSpec
INVARIANTS OneRunner DedupHolds FirstTriesInOrder
PROPERTIES VerdictIsFinal BoardSpec EveryJobEnds
