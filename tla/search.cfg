CONSTANTS
  Pages = {p1, p2}
  Touched = {p1}
  Builders = {b1, b2}
  MaxChanges = 2
  MaxWork = 3
  MaxFailures = 1
SPECIFICATION FairSpec
INVARIANT StampTellsText
PROPERTIES QuietBuildAgrees Converges
