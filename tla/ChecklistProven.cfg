SPECIFICATION FairSpec

CONSTANTS
  p1 = p1  p2 = p2  p3 = p3  p4 = p4
  i1 = i1  i2 = i2
  c1 = c1  c2 = c2
  NoCmd = NoCmd
  NoProc = NoProc
  Procs = {p1, p2, p3}
  Jobs <- NoVerify
  Ids = {i1, i2}
  Cmds = {c1, c2}
  Stalled = {p1}
  Faults = {"lock", "crash", "edit"}

INVARIANT TypeOK
INVARIANT PassIsProven
PROPERTY SkipMeansAbsent
PROPERTY EveryCommandEnds

CHECK_DEADLOCK FALSE
