SPECIFICATION Spec

CONSTANTS
  Targets <- MCTargets
  Sources <- MCSources
  Broken = Broken
  Missing = Missing
  Torn = Torn
  All = All
  Faults = {"io", "kill", "slow"}
  Homes <- MCHomes
  Installs <- MCInstalls
  Stores = {"A", "B"}
  Marketplace <- MCMarketplace
  Manifest <- MCManifest
  Alien = Alien
  NoSnapshot = NoSnapshot
  Plans <- MCPlans

INVARIANT DriftIsSeen
INVARIANT MatchIsTrue
INVARIANT VerdictIsRight

CHECK_DEADLOCK FALSE
