SPECIFICATION BootSpec
CONSTANTS
  FB_NUM_COLUMNS = 3
  FB_NUM_ROWS = 2
  Keys <- MCKeys
  Message <- MCMessage
  MaxEvents = 2
  RegisterSize = 4
INVARIANT HardwareFollows
