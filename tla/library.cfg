CONSTANTS
  w1 = w1  w2 = w2  p1 = p1  p2 = p2  b1 = b1
  Writers = {w1, w2}
  Paths = {p1, p2}
  NoPath = NoPath
  Bodies = {b1}
  NoText = NoText
  NoJob = NoJob
  MaxRevisions = 3
  MaxTotal = 3
  MaxShared = 2
SPECIFICATION Spec
SYMMETRY Symmetry
INVARIANTS ChainTellsTruth RetiredComesBack MovedIsThere
PROPERTIES LandsOnWhatWasPlanned HistorySpec
