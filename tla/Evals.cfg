SPECIFICATION Spec

CONSTANTS
  a = a  b = b  i = i  j = j  f = f  g = g  h = h  r = r  q = q  m = m  n = n
  User = User
  NoDef = NoDef
  NotCalled = NotCalled
  NoBase = NoBase
  Agents = {a, b}
  Ids = {i, j}
  Forges = {f, g, h}
  Runs = {r, q}
  Models = {m, n}
  Actual = {m, n}
  Target <- Targets
  Trees <- OneScenario
  Definitions <- AllTheSame
  Casts <- SomeCasts
  MaxEdits = 1
  Faults = {"kill", "stuck"}

INVARIANT TypeOK
INVARIANT ForgeIsAtomic
INVARIANT GreenIsGraded
INVARIANT BaselineIsWhole
INVARIANT BaselineNeverWeakens

CHECK_DEADLOCK FALSE
