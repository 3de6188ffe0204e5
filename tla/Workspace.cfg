SPECIFICATION FairSpec

CONSTANTS
  Files = {1, 2, 3}
  Tokens = {"a", "b", "c", "blank", "fixable", "wrong"}
  Gone = Gone
  User = User
  Hook = Hook
  Drafts <- MCDrafts
  MaxEdits = 2
  NoFix = NoFix
  MaxOutput = 5
  Reserved = {"no-suppress-all"}
  None = None
  Foreign = Foreign
  MaxText = 4
  MaxPasses = 3
  Faults = {"junk", "tamper", "rc"}
  Kind <- MCKind
  Blank = "blank"
  Fixable = "fixable"
  Wrong = "wrong"
  Budget = 4
  StepTimeout = 2
  MinStep = 1
  HookTimeout = 5
  Casts <- MCCasts

INVARIANT SourcesHeld
INVARIANT ConvergedIsFixed
INVARIANT NothingLeftBehind
INVARIANT HookInTime
INVARIANT FeedbackIsFinal
PROPERTY EveryRunEnds

CHECK_DEADLOCK FALSE
