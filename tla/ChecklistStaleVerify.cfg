SPECIFICATION Spec

CONSTANTS
  p1 = p1  p2 = p2  p3 = p3  p4 = p4
  i1 = i1  i2 = i2
  c1 = c1  c2 = c2
  NoCmd = NoCmd
  NoProc = NoProc
  Procs = {p1, p2, p3, p4}
  Jobs <- AllOfThem
  Ids = {i1, i2}
  Cmds = {c1, c2}
  Stalled = {}
  Faults = {}

INVARIANT PassIsProven

SYMMETRY Symmetry

CHECK_DEADLOCK FALSE
