SPECIFICATION FairSpec

CONSTANTS
  e = e  w = w
  Diags = {e, w}
  Severe = {e}
  Talk <- Words
  MaxSent = 3
  Pending = 2
  Long <- Logs
  ByteMax = 4
  Faults = {}

INVARIANT TypeOK
INVARIANT StreamInOrder
INVARIANT OutcomeIsTrue
INVARIANT ServerIsGone
PROPERTY EveryQueryEnds

CHECK_DEADLOCK FALSE
