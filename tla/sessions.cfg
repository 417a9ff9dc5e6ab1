CONSTANTS
  Sessions = {s1, s2, s3}
  NoSession = NoSession
  Blank = Blank
  NoFile = NoFile
  MaxHistory = 2
SPECIFICATION SessionsSpec
SYMMETRY Sym
INVARIANT NothingForgotten
