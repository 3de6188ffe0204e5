SPECIFICATION FairSpec

CONSTANTS
  s1 = s1  s2 = s2
  Shared = Shared
  Sessions = {s1, s2}
  Files = {2}
  TestFiles = {2}
  NewFiles = {}
  Drafts = {"ugly", "fixable"}
  Ways = {"bash", "writeish"}
  MaxRetries = 2
  ScopedId = TRUE
  SendsActive = {TRUE, FALSE}
  MaxCommits = 0
  MaxMarkers = 0
  Faults = {"tool", "git"}

INVARIANT CapIsEarned

PROPERTY EveryTurnEnds
