SPECIFICATION Spec
CONSTANTS
  FB_NUM_COLUMNS = 4
  FB_NUM_ROWS = 2
  Keys <- MCKeys
  Message <- MCMessage
  MaxEvents = 3

INVARIANT CtrlMeansHeld
CHECK_DEADLOCK FALSE
