SPECIFICATION FairSpec
CONSTANTS
  Tips <- MCTips
  BoardBlocks <- MCBoard
  Branches <- MCBranches
  Options <- MCOptions
  DURATION = 2
  ARM_DEADLINE = 2
  DEFAULT_BLOCK_EST = 1
  IDLE = 1
  TIP_MAX_BEHIND = 1
  MAX_ATTEMPTS = 1
  MAX_CONSECUTIVE_FAILS = 2
  MAX_CONSECUTIVE_EXHAUSTED_IDLES = 2
  MaxTime = 3
INVARIANTS TipChainLinked TipGapsAreNoted RetiredForFailing HourCountsItsOwnBlocks
PROPERTY SessionEnds
CHECK_DEADLOCK FALSE
