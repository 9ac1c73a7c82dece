\* Two blocks: the fleet moves from one to the other, and files of two rows.
CONSTANTS
  Blocks = 2
  MaxNow = 2
  MaxRows = 2
  MaxFiles = 2
  Silence = 0
  Stale = 2
SPECIFICATION Spec
 
PROPERTIES CountsTheWholeCapture
CONSTRAINT Feeds
CHECK_DEADLOCK FALSE
