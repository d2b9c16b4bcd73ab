SPECIFICATION BootSpec
CONSTANTS
  FB_NUM_COLUMNS = 3
  FB_NUM_ROWS = 2
  Keys <- MCKeys
  Message <- MCMessage
  MaxEvents = 3
  RegisterSize = 4
INVARIANTS
  BootTypeOK
  CursorSettles
  HighByteFollows
  StaleOnlyIfRaced
PROPERTIES
  BootCompletes
