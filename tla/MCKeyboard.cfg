SPECIFICATION Spec
CONSTANTS
  FB_NUM_COLUMNS = 4
  FB_NUM_ROWS = 2
  Keys <- MCKeys
  Message <- MCMessage
  MaxEvents = 4
INVARIANTS
  TypeOK
  CursorInRange
  ShiftMeansHeld
  BackspaceUndoesTyping
PROPERTIES
  ReleaseEditsNothing
CHECK_DEADLOCK FALSE
