\* Three blocks: one fold, and pairs that must not be folded.
CONSTANTS
  N = 3
  Late = {3}
  MaxObjects = 2
  Folders = {f1, f2}
  Spiners = {w1, w2}
  Nobody = Nobody
  MaxFaults = 1
SPECIFICATION FairSpec
INVARIANTS HeadIsBacked OneTree PairInStoreIsWhole
PROPERTY SpineCatchesUp
CHECK_DEADLOCK FALSE
