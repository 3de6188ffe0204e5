SPECIFICATION FairSpec

CONSTANTS
  w1 = w1  w2 = w2
  p1 = p1  p2 = p2  p3 = p3
  k1 = k1  k2 = k2  k3 = k3
  Canon = Canon
  NoProc = NoProc
  Digest = Digest
  Keys = {k1, k2}
  Cap = 2
  Worktrees <- MCWorktrees
  Procs <- MCProcs
  Home <- MCHome
  MaxDay = 0
  InitFiles <- OneLegacy
  Stalled = {p1}
  Faults = {"lock", "crash"}

INVARIANT NoDoubleCount
INVARIANT BooksSound
PROPERTY EveryCommandEnds

CHECK_DEADLOCK FALSE
