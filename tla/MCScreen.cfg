SPECIFICATION Spec
CONSTANTS
  FB_NUM_COLUMNS = 4
  FB_NUM_ROWS = 3
  Chars <- MCChars
  Positions <- MCPositions
  Offsets <- MCOffsets
  Texts <- MCTexts
  Formats <- MCFormats
  Rects <- MCRects
  MaxCalls = 4
INVARIANTS
  TypeOK
  CursorInRange
  ScrollMovesUp
  ShiftDownMovesRows
  WritesNearScreen
CHECK_DEADLOCK FALSE
