SPECIFICATION Spec

CONSTANTS
  s1 = s1  s2 = s2
  Shared = Shared
  Sessions = {s1, s2}
  Files = {2}
  TestFiles = {2}
  NewFiles = {2}
  Drafts = {"ugly", "fixable"}
  Ways = {"tool"}
  MaxRetries = 2
  ScopedId = TRUE
  SendsActive = {FALSE}
  MaxCommits = 1
  MaxMarkers = 2
  Faults = {"error"}

INVARIANT TypeOK
PROPERTY SkipOnce
PROPERTY SkipIsFresh
PROPERTY PassedIsClean

SYMMETRY Symmetry
