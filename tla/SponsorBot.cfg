SPECIFICATION Spec
CONSTANTS
  Heights <- TwoBlocks
  Sponsor <- OneSponsor
  InitBoards <- SomeBoards
  LiveBridge = FALSE
  MaxPods = 2
  MAX_USD = 7
  MAX_RATE = 2
  LEAD = 1
  PATIENCE = 0
  BLOCKS_PER_POD = 1
  COORD_ERRORS_MAX = 2
  RUNPOD_REFUSALS_MAX = 2
  MaxRented = 2
INVARIANTS EndedMeansGivenBack CountedOnce OpenRowsAreAccountedFor SpendBelowCap
CHECK_DEADLOCK FALSE
