SPECIFICATION Spec
CONSTANTS
  N = 2
  Modes <- BothModes
  Blocks = 3
  STALL = 1
  UNREACHABLE_LIMIT = 2
  UNITS = 2
  MaxLog = 1
  MaxFaults = 1
INVARIANTS AggregateAccountedFor VerifiedIsThisBlock BeatsAreEarned
PROPERTY WedgeIsReal
CHECK_DEADLOCK FALSE
