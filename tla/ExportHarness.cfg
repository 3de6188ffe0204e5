SPECIFICATION Spec

CONSTANTS
  u = u  w = w  p1 = p1
  Tools = {p1}
  Count = 2
  Own = {u, w}
  Inserts <- ByHand
  Starts <- SomeTexts
  MaxVersion = 2
  MaxEdits = 1
  MaxUpdates = 1

INVARIANT TypeOK
INVARIANT VerdictIsTrue
PROPERTY OwnLinesKept

CHECK_DEADLOCK FALSE
