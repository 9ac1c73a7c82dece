SPECIFICATION Spec
CONSTANTS
  CARDS = 2
  SPARES = 1
  MIN_CARDS = 1
  NTypes = 2
  MAX_PARALLEL = 2
  Targets <- MCTargets
  Options <- MCOptions
  MaxPods = 4
  MaxStuck = 1
INVARIANTS KillIsRecoverable CleanupFindsAll TeardownReleases
PROPERTY AdoptedOutlives
CHECK_DEADLOCK FALSE
